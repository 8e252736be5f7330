----------------------- MODULE VmdirReplicationProofs -----------------------
(***************************************************************************)
(* Proofs about VmdirReplication: the shape of the state; that no mark of  *)
(* a replica gets ahead of the numbers its suppliers have given out; that  *)
(* a change is replaced only by one that wins against it; that the         *)
(* high-water marks are true whenever the up-to-date vectors are; and      *)
(* that the vectors are, between servers whose cycles are not cut off.     *)
(***************************************************************************)
EXTENDS VmdirReplicationInv, NaturalsInduction, WellFoundedInduction, FiniteSetTheorems,
        TLAPS

-----------------------------------------------------------------------------
(* Smallest and largest numbers *)

\* A set of natural numbers that is not empty has a smallest one.
LEMMA LowestExists ==
    ASSUME NEW T \in SUBSET Nat, T # {}
    PROVE  \E d \in T : \A b \in T : d <= b
  <1> DEFINE Less == {p \in Nat \X Nat : p[1] < p[2]}
  <1>1. IsWellFoundedOn(Less, Nat)
    BY NatLessThanWellFounded, Zenon DEF OpToRel
  <1> HIDE DEF Less
  <1>2. PICK d \in T : \A b \in T : ~(<<b, d>> \in Less)
    BY <1>1, WFMin
  <1>3. ASSUME NEW b \in T, ~(<<b, d>> \in Less) PROVE d <= b
    BY <1>3 DEF Less
  <1> QED
    BY <1>2, <1>3

\* Of numbers below a bound one is the highest.
LEMMA HighestExists ==
    ASSUME NEW T \in SUBSET Nat, T # {}, NEW n \in Nat, \A b \in T : b < n
    PROVE  \E d \in T : \A b \in T : b <= d
  <1> DEFINE U == {k \in Nat : n - k \in T}
  <1>1. U # {}
    <2>1. PICK b \in T : TRUE
      OBVIOUS
    <2>2. n - b \in Nat /\ n - (n - b) = b
      BY <2>1
    <2> QED
      BY <2>1, <2>2
  <1>2. PICK k \in U : \A j \in U : k <= j
    BY <1>1, LowestExists
  <1>3. ASSUME NEW b \in T PROVE b <= n - k
    <2>1. n - b \in U
      BY <1>3
    <2> QED
      BY <1>2, <2>1
  <1> QED
    BY <1>2, <1>3

LEMMA HighestIs ==
    ASSUME NEW T \in SUBSET Nat, T # {}, NEW n \in Nat, \A b \in T : b < n
    PROVE  /\ (CHOOSE u \in T : \A v \in T : v <= u) \in T
  BY HighestExists

-----------------------------------------------------------------------------
(* Initial states *)

LEMMA FounderIs ==
    ASSUME NEW s \in Server
    PROVE  Founder \in Server
  <1>1. Server \in SUBSET Nat /\ Server # {}
    BY ServerAssumption
  <1>2. \E d \in Server : \A b \in Server : d <= b
    BY <1>1, LowestExists
  <1> QED
    BY <1>2 DEF Founder

LEMMA NoVectorType == NoVector \in EmptyPageVector /\ DOMAIN NoVector = {}
  <1>1. NoVector \in [{} -> 0..EmptyPageCnt] /\ DOMAIN NoVector = {}
    BY DEF NoVector
  <1>2. {} \in SUBSET Server
    OBVIOUS
  <1> QED
    BY <1>1, <1>2 DEF EmptyPageVector

LEMMA NoPageType == NoPage \in AnyPage
  <1>1. 0 \in {Cardinality(E) : E \in SUBSET AnyPageEntry}
    <2>1. Cardinality({}) = 0
      BY FS_EmptySet
    <2> QED
      BY <2>1
  <1> QED
    BY <1>1, NoVectorType DEF NoPage, AnyPage

LEMMA NoCycleType == NoCycle \in AnyCycle
  BY NoPageType DEF NoCycle, AnyCycle

LEMMA NoCycleFits ==
    ASSUME NEW c \in Server, NEW n, NEW D
    PROVE  CycleFits(c, NoCycle, NoVector, n, D)
  BY NoVectorType DEF CycleFits, NoCycle, NoPage

LEMMA InitInv == Init => Inv
  <1> SUFFICES ASSUME Init PROVE Inv
    OBVIOUS
  <1>1. NoEntry \in DbEntry /\ NoEntry.usnChanged = 0
        /\ \A a \in AllAttr : NoEntry.meta[a].orig = 0 /\ NoEntry.meta[a].version = 0
    BY DEF NoEntry, DbEntry, NoMeta, Meta
  <1>2. ASSUME NEW s \in Server
        PROVE  /\ Copied \in DbEntry /\ Copied.usnChanged = 1
               /\ \A a \in AllAttr : Copied.meta[a].orig = 0 \/ Copied.meta[a].usn = 1
    BY FounderIs DEF Copied, DbEntry, NoMeta, Meta
  <1>3. TypesOK
    <2>1. db \in [Server -> [Entry -> DbEntry]]
      BY <1>1, <1>2 DEF Init
    <2>2. /\ nextUsn \in UsnVector /\ utd \in [Server -> UsnVector]
          /\ hwm \in [Server -> UsnVector]
      BY DEF Init, UsnVector
    <2>3. vector \in [Server -> EmptyPageVector] /\ cycle \in [Server -> AnyCycle]
      BY NoVectorType, NoCycleType DEF Init
    <2> QED
      BY <2>1, <2>2, <2>3 DEF TypesOK
  <1>4. DbOK
    <2> SUFFICES ASSUME NEW s \in Server, NEW e \in Entry
                 PROVE  /\ db[s][e].usnChanged < nextUsn[s]
                        /\ \A a \in AllAttr : GivenOut(db[s][e].meta[a], nextUsn)
                        /\ db[s][e].usnChanged = 0
                              => \A a \in AllAttr : Unset(db[s][e].meta[a])
      BY DEF DbOK
    <2>1. db[s][e] = Copied \/ db[s][e] = NoEntry
      BY DEF Init
    <2>2. \A o \in Server : nextUsn[o] = 2 /\ o # 0
      BY ServerAssumption DEF Init
    <2> QED
      BY <1>1, <1>2, <2>1, <2>2 DEF GivenOut, Unset
  <1>5. NotAhead
    BY DEF Init, NotAhead
  <1>6. CyclesOK
    BY NoCycleFits DEF Init, CyclesOK
  <1> QED
    BY <1>3, <1>4, <1>5, <1>6 DEF Inv

-----------------------------------------------------------------------------
(* Numbers only grow *)

Grows == \A o \in Server : nextUsn'[o] >= nextUsn[o]

LEMMA GivenOutStays ==
    ASSUME nextUsn \in UsnVector, nextUsn' \in UsnVector, Grows, NEW m \in Meta,
           GivenOut(m, nextUsn)
    PROVE  GivenOut(m, nextUsn')
  BY DEF GivenOut, Grows, UsnVector, Meta

LEMMA PageMetaType ==
    ASSUME NEW x \in AnyPageEntry, NEW a \in DOMAIN x.meta
    PROVE  x.meta[a] \in Meta /\ a \in AllAttr
  BY DEF AnyPageEntry, PageMeta

LEMMA FitsStays ==
    ASSUME nextUsn \in UsnVector, nextUsn' \in UsnVector, Grows, Dead \subseteq Dead',
           NEW x \in AnyPageEntry, Fits(x, nextUsn, Dead)
    PROVE  Fits(x, nextUsn', Dead')
  BY GivenOutStays, PageMetaType DEF Fits

LEMMA CycleFitsStays ==
    ASSUME nextUsn \in UsnVector, nextUsn' \in UsnVector, Grows, Dead \subseteq Dead',
           NEW c \in Server, NEW k \in AnyCycle, NEW v, CycleFits(c, k, v, nextUsn, Dead)
    PROVE  CycleFits(c, k, v, nextUsn', Dead')
  <1>1. \A o \in Server : nextUsn[o] \in Nat /\ nextUsn'[o] \in Nat
                          /\ nextUsn'[o] >= nextUsn[o]
    BY DEF UsnVector, Grows
  <1>2. k.last \in Nat /\ k.partner \in Server \cup {None}
        /\ k.page \in AnyPage /\ k.failed \subseteq AnyPageEntry
    BY DEF AnyCycle
  <1>3. k.page.hwm \in Nat /\ k.page.entries \subseteq AnyPageEntry
    BY <1>2 DEF AnyPage
  <1>4. ASSUME k.step # "none"
        PROVE  /\ k.utd \in UsnVector /\ k.last < nextUsn'[k.partner]
               /\ \A o \in Server : k.utd[o] < nextUsn'[o]
    <2>1. /\ k.partner \in Server /\ k.last < nextUsn[k.partner] /\ k.utd \in UsnVector
          /\ \A o \in Server : k.utd[o] < nextUsn[o]
      BY <1>2, <1>4 DEF CycleFits
    <2> QED
      BY <1>1, <1>2, <2>1 DEF UsnVector
  <1>5. ASSUME k.step \in {"search", "apply"}
        PROVE  /\ k.page.utd \in UsnVector /\ k.page.hwm < nextUsn'[k.partner]
               /\ \A o \in Server : k.page.utd[o] < nextUsn'[o]
    <2>1. /\ k.partner \in Server /\ k.page.hwm < nextUsn[k.partner]
          /\ k.page.utd \in UsnVector
          /\ \A o \in Server : k.page.utd[o] < nextUsn[o]
      BY <1>2, <1>5 DEF CycleFits
    <2> QED
      BY <1>1, <1>3, <2>1 DEF UsnVector
  <1>6. \A x \in k.failed \cup k.page.entries : Fits(x, nextUsn', Dead')
    BY <1>2, <1>3, FitsStays DEF CycleFits
  <1> QED
    BY <1>4, <1>5, <1>6 DEF CycleFits

\* The numbers of the marks stay below those given out.
LEMMA NotAheadStays ==
    ASSUME TypesOK, nextUsn' \in UsnVector, Grows, NotAhead, UNCHANGED <<utd, hwm>>
    PROVE  NotAhead'
  BY DEF TypesOK, UsnVector, Grows, NotAhead

\* A step that changes the cycle of c only.
LEMMA CycleStep ==
    ASSUME Inv, NEW c \in Server, nextUsn' \in UsnVector, Grows, Dead \subseteq Dead',
           NEW k \in AnyCycle, NEW v, CycleFits(c, k, v, nextUsn', Dead'),
           cycle' = [cycle EXCEPT ![c] = k], vector' = [vector EXCEPT ![c] = v]
    PROVE  CyclesOK' /\ cycle' \in [Server -> AnyCycle]
  <1>1. /\ cycle \in [Server -> AnyCycle] /\ vector \in [Server -> EmptyPageVector]
        /\ nextUsn \in UsnVector
    BY DEF Inv, TypesOK
  <1>2. ASSUME NEW d \in Server
        PROVE  CycleFits(d, cycle'[d], vector'[d], nextUsn', Dead')
    <2>1. CASE d = c
      BY <1>1, <2>1
    <2>2. CASE d # c
      <3>1. cycle'[d] = cycle[d] /\ vector'[d] = vector[d] /\ cycle[d] \in AnyCycle
        BY <1>1, <2>2
      <3>2. CycleFits(d, cycle[d], vector[d], nextUsn, Dead)
        BY DEF Inv, CyclesOK
      <3> QED
        BY <1>1, <3>1, <3>2, CycleFitsStays
    <2> QED
      BY <2>1, <2>2
  <1> QED
    BY <1>1, <1>2 DEF CyclesOK

LEMMA SameNumbers ==
    ASSUME Inv, UNCHANGED <<db, nextUsn>>
    PROVE  nextUsn' \in UsnVector /\ nextUsn \in UsnVector /\ Grows /\ Dead' = Dead
  <1>1. Dead' = Dead
    BY DEF Dead, Deleted
  <1> QED
    BY <1>1 DEF Inv, TypesOK, Grows, UsnVector

-----------------------------------------------------------------------------
(* Local writes, and what is applied *)

\* What a server holds of an entry.
LEMMA HeldIs ==
    ASSUME Inv, NEW p \in Server, NEW e \in Entry
    PROVE  /\ db[p][e].usnChanged \in Nat /\ db[p][e].usnChanged < nextUsn[p]
           /\ nextUsn[p] \in Nat
           /\ \A a \in AllAttr : /\ db[p][e].meta[a] \in Meta
                                 /\ GivenOut(db[p][e].meta[a], nextUsn)
           /\ ~Exists(p, e) => \A a \in AllAttr : Unset(db[p][e].meta[a])
  BY DEF Inv, TypesOK, DbOK, DbEntry, UsnVector, Exists

\* One server gives out a number and stores one entry with it.
LEMMA DbStep ==
    ASSUME Inv, NEW s \in Server, NEW e \in Entry, NEW d \in DbEntry,
           nextUsn' = [nextUsn EXCEPT ![s] = @ + 1],
           d.usnChanged = nextUsn[s], \A a \in AllAttr : GivenOut(d.meta[a], nextUsn'),
           Deleted(s, e) => d.meta["isDeleted"].version > 0,
           db' = [db EXCEPT ![s][e] = d]
    PROVE  /\ db' \in [Server -> [Entry -> DbEntry]]
           /\ nextUsn' \in UsnVector /\ nextUsn \in UsnVector /\ Grows
           /\ Dead \subseteq Dead' /\ DbOK'
  <1>1. db \in [Server -> [Entry -> DbEntry]] /\ nextUsn \in UsnVector
    BY DEF Inv, TypesOK
  <1>2. /\ nextUsn' \in UsnVector /\ Grows
        /\ nextUsn'[s] = nextUsn[s] + 1 /\ nextUsn[s] \in Nat
    BY <1>1 DEF UsnVector, Grows
  <1>3. db' \in [Server -> [Entry -> DbEntry]]
    BY <1>1
  <1>4. ASSUME NEW t \in Server, NEW f \in Entry
        PROVE  /\ db'[t][f].usnChanged < nextUsn'[t]
               /\ \A a \in AllAttr : GivenOut(db'[t][f].meta[a], nextUsn')
               /\ db'[t][f].usnChanged = 0
                     => \A a \in AllAttr : Unset(db'[t][f].meta[a])
    <2>1. CASE t = s /\ f = e
      <3>1. db'[t][f] = d
        BY <1>1, <2>1
      <3>2. d.usnChanged < nextUsn'[t]
        BY <1>2, <2>1
      <3>3. \A a \in AllAttr : GivenOut(d.meta[a], nextUsn')
        OBVIOUS
      <3>4. d.usnChanged # 0
        BY <1>2, HeldIs
      <3> QED
        BY <3>1, <3>2, <3>3, <3>4, Zenon
    <2>2. CASE ~(t = s /\ f = e)
      <3>1. db'[t][f] = db[t][f] /\ db[t][f] \in DbEntry
        BY <1>1, <2>2
      <3>2. /\ db[t][f].usnChanged < nextUsn[t]
            /\ \A a \in AllAttr : GivenOut(db[t][f].meta[a], nextUsn)
            /\ db[t][f].usnChanged = 0 => \A a \in AllAttr : Unset(db[t][f].meta[a])
        BY DEF Inv, DbOK
      <3>3. \A a \in AllAttr : db[t][f].meta[a] \in Meta
        BY <3>1 DEF DbEntry
      <3>4. \A a \in AllAttr : GivenOut(db[t][f].meta[a], nextUsn')
        BY <1>1, <1>2, <3>2, <3>3, GivenOutStays
      <3>5. db[t][f].usnChanged < nextUsn'[t]
        <4>1. /\ db[t][f].usnChanged \in Nat /\ nextUsn[t] \in Nat /\ nextUsn'[t] \in Nat
              /\ nextUsn'[t] >= nextUsn[t]
          BY <1>1, <1>2, <3>1 DEF DbEntry, UsnVector, Grows
        <4> QED
          BY <3>2, <4>1
      <3> QED
        BY <3>1, <3>2, <3>4, <3>5
    <2> QED
      BY <2>1, <2>2
  <1>5. ASSUME NEW t \in Server, NEW f \in Entry, Deleted(t, f)
        PROVE  db'[t][f].meta["isDeleted"].version > 0
    <2>1. CASE t = s /\ f = e
      <3>1. db'[t][f] = d
        BY <1>1, <2>1
      <3> QED
        BY <1>5, <2>1, <3>1
    <2>2. CASE ~(t = s /\ f = e)
      <3>1. db'[t][f] = db[t][f]
        BY <1>1, <2>2
      <3> QED
        BY <1>5, <3>1 DEF Deleted
    <2> QED
      BY <2>1, <2>2
  <1>6. Dead \subseteq Dead'
    BY <1>5 DEF Dead, Deleted
  <1> QED
    BY <1>1, <1>2, <1>3, <1>4, <1>6 DEF DbOK

LEMMA StampIs ==
    ASSUME TypesOK, NEW s \in Server, NEW v \in Nat,
           nextUsn' = [nextUsn EXCEPT ![s] = @ + 1]
    PROVE  Stamp(s, v) \in Meta /\ GivenOut(Stamp(s, v), nextUsn')
  BY DEF TypesOK, Stamp, Meta, GivenOut, UsnVector

\* A local write leaves the replication as it is.
LEMMA LocalWrite ==
    ASSUME Inv, NEW s \in Server, NEW e \in Entry, NEW d \in DbEntry,
           nextUsn' = [nextUsn EXCEPT ![s] = @ + 1],
           d.usnChanged = nextUsn[s], \A a \in AllAttr : GivenOut(d.meta[a], nextUsn'),
           Deleted(s, e) => d.meta["isDeleted"].version > 0,
           db' = [db EXCEPT ![s][e] = d], UNCHANGED <<utd, hwm, cycle, vector>>
    PROVE  Inv'
  <1>1. /\ db' \in [Server -> [Entry -> DbEntry]]
        /\ nextUsn' \in UsnVector /\ nextUsn \in UsnVector /\ Grows
        /\ Dead \subseteq Dead' /\ DbOK'
    BY DbStep
  <1>2. TypesOK'
    BY <1>1 DEF Inv, TypesOK
  <1>3. NotAhead'
    BY <1>1, NotAheadStays DEF Inv
  <1>4. CyclesOK'
    <2>1. \A c \in Server : cycle[c] \in AnyCycle
      BY DEF Inv, TypesOK
    <2> QED
      BY <1>1, <2>1, CycleFitsStays DEF Inv, CyclesOK
  <1> QED
    BY <1>1, <1>2, <1>3, <1>4 DEF Inv

LEMMA InvAdd ==
    ASSUME Inv, NEW s \in Server, NEW e \in Entry, Add(s, e)
    PROVE  Inv'
  <1>0. nextUsn' = [nextUsn EXCEPT ![s] = @ + 1] /\ nextUsn[s] \in Nat
    BY DEF Add, Inv, TypesOK, UsnVector
  <1>1. PICK m \in Meta : m = Stamp(s, 1) /\ GivenOut(m, nextUsn')
    BY <1>0, StampIs DEF Inv
  <1>2. PICK d : d = [usnChanged |-> nextUsn[s],
                      meta |-> [NoEntry.meta EXCEPT !["usnCreated"] = m]]
    OBVIOUS
  <1>3. /\ NoEntry.meta \in [AllAttr -> Meta]
        /\ \A a \in AllAttr : GivenOut(NoEntry.meta[a], nextUsn')
    BY ServerAssumption DEF NoEntry, NoMeta, Meta, GivenOut
  <1>4. d \in DbEntry /\ d.usnChanged = nextUsn[s]
        /\ \A a \in AllAttr : GivenOut(d.meta[a], nextUsn')
    BY <1>0, <1>1, <1>2, <1>3 DEF DbEntry
  <1>5. db' = [db EXCEPT ![s][e] = d] /\ UNCHANGED <<utd, hwm, cycle, vector>>
    BY <1>1, <1>2 DEF Add
  <1>6. ~Deleted(s, e)
    BY HeldIs DEF Add, Deleted, AllAttr, Unset
  <1> QED
    BY <1>0, <1>4, <1>5, <1>6, LocalWrite

\* Two parts of the entry change in one assignment.
LEMMA ModifyIs ==
    ASSUME Inv, NEW s \in Server, NEW e \in Entry, NEW b \in Attr, Modify(s, e, b)
    PROVE  db' = [db EXCEPT ![s][e] =
                    [usnChanged |-> nextUsn[s],
                     meta |-> [db[s][e].meta EXCEPT
                                 ![b] = Stamp(s, db[s][e].meta[b].version + 1)]]]
  <1>0. nextUsn' = [nextUsn EXCEPT ![s] = @ + 1] /\ nextUsn[s] \in Nat
    BY DEF Modify, Inv, TypesOK, UsnVector
  <1>1. /\ db \in [Server -> [Entry -> DbEntry]] /\ db[s][e] \in DbEntry
        /\ db[s][e].meta \in [AllAttr -> Meta] /\ b \in AllAttr
    BY DEF Inv, TypesOK, DbEntry, AllAttr
  <1>2. db[s][e].meta[b].version + 1 \in Nat
    BY <1>1 DEF Meta
  <1>3. PICK m \in Meta : m = Stamp(s, db[s][e].meta[b].version + 1)
    BY <1>0, <1>2, StampIs DEF Inv
  <1>4. PICK d : d = [usnChanged |-> nextUsn[s], meta |-> [db[s][e].meta EXCEPT ![b] = m]]
    OBVIOUS
  <1>5. db' = [db EXCEPT ![s][e] = d]
    <2>1. db' = [db EXCEPT ![s][e].meta[b] = m, ![s][e].usnChanged = nextUsn[s]]
      BY <1>3 DEF Modify
    <2>2. [[db[s][e] EXCEPT !.meta[b] = m] EXCEPT !.usnChanged = nextUsn[s]] = d
      <3>0. PICK g : g = [db[s][e].meta EXCEPT ![b] = m]
        OBVIOUS
      <3>1. g = [db[s][e].meta EXCEPT ![b] = m] /\ g \in [AllAttr -> Meta]
        BY <1>1, <1>3, <3>0
      <3>2. PICK r : r = [db[s][e] EXCEPT !.meta = g]
        OBVIOUS
      <3>3. [db[s][e] EXCEPT !.meta[b] = m] = r
        BY <1>1, <3>1, <3>2 DEF DbEntry
      <3>4. r \in DbEntry /\ r.meta = g
        BY <1>1, <3>1, <3>2 DEF DbEntry
      <3>5. [r EXCEPT !.usnChanged = nextUsn[s]] = [usnChanged |-> nextUsn[s], meta |-> g]
        BY <3>4 DEF DbEntry
      <3> QED
        BY <1>4, <3>1, <3>3, <3>5, Zenon
    <2>3. db' = [db EXCEPT ![s][e] =
                    [[db[s][e] EXCEPT !.meta[b] = m] EXCEPT !.usnChanged = nextUsn[s]]]
      BY <1>1, <2>1
    <2> QED
      BY <2>2, <2>3
  <1> QED
    BY <1>3, <1>4, <1>5

LEMMA InvModify ==
    ASSUME Inv, NEW s \in Server, NEW e \in Entry, NEW b \in Attr, Modify(s, e, b)
    PROVE  Inv'
  <1>0. nextUsn' = [nextUsn EXCEPT ![s] = @ + 1] /\ nextUsn[s] \in Nat
    BY DEF Modify, Inv, TypesOK, UsnVector
  <1>1. /\ db \in [Server -> [Entry -> DbEntry]] /\ db[s][e] \in DbEntry
        /\ db[s][e].meta \in [AllAttr -> Meta] /\ b \in AllAttr
    BY DEF Inv, TypesOK, DbEntry, AllAttr
  <1>2. db[s][e].meta[b].version + 1 \in Nat
    BY <1>1 DEF Meta
  <1>3. PICK m \in Meta : m = Stamp(s, db[s][e].meta[b].version + 1) /\ GivenOut(m, nextUsn')
    BY <1>0, <1>2, StampIs DEF Inv
  <1>4. PICK d : d = [usnChanged |-> nextUsn[s], meta |-> [db[s][e].meta EXCEPT ![b] = m]]
    OBVIOUS
  <1>5. /\ nextUsn \in UsnVector /\ nextUsn' \in UsnVector /\ Grows
    BY <1>0 DEF Inv, TypesOK, UsnVector, Grows
  <1>6. \A a \in AllAttr : GivenOut(db[s][e].meta[a], nextUsn')
    BY <1>1, <1>5, GivenOutStays DEF Inv, DbOK
  <1>7. d \in DbEntry /\ d.usnChanged = nextUsn[s]
        /\ \A a \in AllAttr : GivenOut(d.meta[a], nextUsn')
    BY <1>0, <1>1, <1>3, <1>4, <1>6 DEF DbEntry
  <1>8. db' = [db EXCEPT ![s][e] = d]
    BY <1>3, <1>4, ModifyIs
  <1>9. UNCHANGED <<utd, hwm, cycle, vector>>
    BY DEF Modify
  <1>10. Deleted(s, e) => d.meta["isDeleted"].version > 0
    BY <1>1, <1>4, NameAssumption DEF Deleted
  <1> QED
    BY <1>0, <1>7, <1>8, <1>9, <1>10, LocalWrite

LEMMA InvDelete ==
    ASSUME Inv, NEW s \in Server, NEW e \in Entry, Delete(s, e)
    PROVE  Inv'
  <1>0. nextUsn' = [nextUsn EXCEPT ![s] = @ + 1] /\ nextUsn[s] \in Nat
    BY DEF Delete, Inv, TypesOK, UsnVector
  <1>1. /\ db \in [Server -> [Entry -> DbEntry]] /\ db[s][e] \in DbEntry
        /\ db[s][e].meta \in [AllAttr -> Meta]
    BY DEF Inv, TypesOK, DbEntry
  <1>2. PICK d : d = [usnChanged |-> nextUsn[s],
                      meta |-> [a \in AllAttr |->
                         LET m == db[s][e].meta[a]
                         IN IF a = "isDeleted" \/ (a \in Attr /\ m.version > 0)
                            THEN Stamp(s, m.version + 1) ELSE m]]
    OBVIOUS
  <1>3. \A a \in AllAttr : /\ Stamp(s, db[s][e].meta[a].version + 1) \in Meta
                           /\ GivenOut(Stamp(s, db[s][e].meta[a].version + 1), nextUsn')
    <2>1. \A a \in AllAttr : db[s][e].meta[a].version + 1 \in Nat
      BY <1>1 DEF Meta
    <2> QED
      BY <1>0, <2>1, StampIs DEF Inv
  <1>5. /\ nextUsn \in UsnVector /\ nextUsn' \in UsnVector /\ Grows
    BY <1>0 DEF Inv, TypesOK, UsnVector, Grows
  <1>6. \A a \in AllAttr : GivenOut(db[s][e].meta[a], nextUsn')
    BY <1>1, <1>5, GivenOutStays DEF Inv, DbOK
  <1>7. ASSUME NEW a \in AllAttr
        PROVE  d.meta[a] \in Meta /\ GivenOut(d.meta[a], nextUsn')
    BY <1>1, <1>2, <1>3, <1>6
  <1>8. d \in DbEntry /\ d.usnChanged = nextUsn[s]
    BY <1>0, <1>2, <1>7 DEF DbEntry
  <1>9. db' = [db EXCEPT ![s][e] = d] /\ UNCHANGED <<utd, hwm, cycle, vector>>
    BY <1>2 DEF Delete
  <1>10. d.meta["isDeleted"].version > 0
    <2>1. /\ "isDeleted" \in AllAttr
          /\ d.meta["isDeleted"] = Stamp(s, db[s][e].meta["isDeleted"].version + 1)
      BY <1>2 DEF AllAttr
    <2>2. db[s][e].meta["isDeleted"].version \in Nat
      BY <1>1, <2>1 DEF Meta
    <2> QED
      BY <2>1, <2>2 DEF Stamp
  <1> QED
    BY <1>0, <1>7, <1>8, <1>9, <1>10, LocalWrite

-----------------------------------------------------------------------------
(* The cycles *)

LEMMA CycleParts ==
    ASSUME NEW k \in AnyCycle
    PROVE  /\ k.partner \in Server \cup {None}
           /\ k.step \in {"none", "request", "search", "apply", "saveUtd", "saveHwm"}
           /\ k.last \in Nat /\ k.utd \in UsnVector \cup {NoVector}
           /\ k.added \subseteq Entry /\ k.page \in AnyPage
           /\ k.failed \subseteq AnyPageEntry
  BY DEF AnyCycle

LEMMA PageParts ==
    ASSUME NEW g \in AnyPage
    PROVE  /\ g.entries \subseteq AnyPageEntry /\ g.hwm \in Nat
           /\ g.utd \in UsnVector \cup {NoVector}
           /\ g.sent \in {Cardinality(E) : E \in SUBSET AnyPageEntry}
           /\ g.more \in BOOLEAN /\ g.vector \in EmptyPageVector
  BY DEF AnyPage

\* A step of the cycle of c alone.
LEMMA CycleOnly ==
    ASSUME Inv, NEW c \in Server, NEW k \in AnyCycle, NEW v \in EmptyPageVector,
           CycleFits(c, k, v, nextUsn, Dead),
           cycle' = [cycle EXCEPT ![c] = k], vector' = [vector EXCEPT ![c] = v],
           UNCHANGED <<db, nextUsn, utd, hwm>>
    PROVE  Inv'
  <1>1. nextUsn' \in UsnVector /\ Grows /\ Dead \subseteq Dead'
        /\ CycleFits(c, k, v, nextUsn', Dead')
    BY SameNumbers
  <1>2. CyclesOK' /\ cycle' \in [Server -> AnyCycle]
    BY <1>1, CycleStep
  <1>3. TypesOK'
    BY <1>2 DEF Inv, TypesOK
  <1>4. DbOK' /\ NotAhead'
    BY DEF Inv, DbOK, NotAhead
  <1> QED
    BY <1>2, <1>3, <1>4 DEF Inv

\* The cycle of c, as it stands.
LEMMA CycleNow ==
    ASSUME Inv, NEW c \in Server
    PROVE  /\ cycle[c] \in AnyCycle /\ vector[c] \in EmptyPageVector
           /\ CycleFits(c, cycle[c], vector[c], nextUsn, Dead)
           /\ vector = [vector EXCEPT ![c] = vector[c]]
           /\ nextUsn \in UsnVector
           /\ cycle \in [Server -> AnyCycle] /\ vector \in [Server -> EmptyPageVector]
  BY DEF Inv, TypesOK, CyclesOK

LEMMA InvEnd ==
    ASSUME Inv, NEW c \in Server, EndCycle(c), UNCHANGED <<db, nextUsn, utd, hwm>>
    PROVE  Inv'
  BY CycleOnly, NoCycleType, NoCycleFits, NoVectorType DEF EndCycle

LEMMA InvFail ==
    ASSUME Inv, NEW c \in Server, Fail(c)
    PROVE  Inv'
  BY InvEnd DEF Fail

\* The vector of a server that has just begun, or had a page with entries.
LEMMA OwnVectorType ==
    ASSUME NEW c \in Server
    PROVE  /\ [s \in {c} |-> 0] \in EmptyPageVector
           /\ DOMAIN [s \in {c} |-> 0] = {c}
  <1>1. [s \in {c} |-> 0] \in [{c} -> 0..EmptyPageCnt] /\ {c} \in SUBSET Server
    BY BoundAssumption
  <1> QED
    BY <1>1 DEF EmptyPageVector

LEMMA BeginIs ==
    ASSUME Inv, NEW c \in Server, NEW p \in Server, BeginCycle(c, p)
    PROVE  \E k \in AnyCycle :
             /\ cycle' = [cycle EXCEPT ![c] = k]
             /\ cycle[c].step = "none" /\ k.step = "request"
             /\ k.partner = p /\ k.last = hwm[c][p] /\ k.utd = utd[c]
             /\ k.added = {} /\ k.page = NoPage /\ k.failed = {}
  <1>1. PICK k : k = [NoCycle EXCEPT !.partner = p, !.step = "request",
                                     !.last = hwm[c][p], !.utd = utd[c]]
    OBVIOUS
  <1>2. hwm[c][p] \in Nat /\ utd[c] \in UsnVector
    BY DEF Inv, TypesOK, UsnVector
  <1>3. k \in AnyCycle
    BY <1>1, <1>2, NoCycleType DEF AnyCycle
  <1>4. /\ k.partner = p /\ k.step = "request" /\ k.last = hwm[c][p] /\ k.utd = utd[c]
        /\ k.added = {} /\ k.page = NoPage /\ k.failed = {}
    BY <1>1 DEF NoCycle
  <1>5. cycle[c].step = "none" /\ cycle' = [cycle EXCEPT ![c] = k]
    BY <1>1 DEF BeginCycle
  <1> QED
    BY <1>3, <1>4, <1>5

LEMMA InvBeginCycle ==
    ASSUME Inv, NEW g \in Agreement, BeginCycle(g[1], g[2])
    PROVE  Inv'
  <1>1. PICK c \in Server, p \in Server : c = g[1] /\ p = g[2]
    BY AgreementAssumption
  <1>2. PICK k \in AnyCycle :
             /\ cycle' = [cycle EXCEPT ![c] = k] /\ k.step = "request"
             /\ k.partner = p /\ k.last = hwm[c][p] /\ k.utd = utd[c]
             /\ k.page = NoPage /\ k.failed = {}
    BY <1>1, BeginIs
  <1>3. utd[c] \in UsnVector /\ p # None
    BY NameAssumption DEF Inv, TypesOK, UsnVector
  <1>4. NoPage.entries = {}
    BY DEF NoPage
  <1>5. hwm[c][p] < nextUsn[p] /\ \A o \in Server : utd[c][o] < nextUsn[o]
    BY DEF Inv, NotAhead
  <1>6. CycleFits(c, k, [s \in {c} |-> 0], nextUsn, Dead)
    BY <1>2, <1>3, <1>4, <1>5, OwnVectorType DEF CycleFits
  <1>7. /\ vector' = [vector EXCEPT ![c] = [s \in {c} |-> 0]]
        /\ UNCHANGED <<db, nextUsn, utd, hwm>>
    BY <1>1 DEF BeginCycle
  <1> QED
    BY <1>2, <1>6, <1>7, OwnVectorType, CycleOnly

LEMMA InvSaveUtd ==
    ASSUME Inv, NEW c \in Server, SaveUtd(c)
    PROVE  Inv'
  <1>1. PICK k : k = [cycle[c] EXCEPT !.step = "saveHwm"]
    OBVIOUS
  <1>2. /\ k \in AnyCycle /\ k.step = "saveHwm" /\ k.partner = cycle[c].partner
        /\ k.last = cycle[c].last /\ k.utd = cycle[c].utd /\ k.page = cycle[c].page
        /\ k.failed = cycle[c].failed
    BY <1>1, CycleNow DEF AnyCycle
  <1>3. CycleFits(c, k, vector[c], nextUsn, Dead)
    BY <1>2, CycleNow DEF SaveUtd, CycleFits
  <1>4. cycle' = [cycle EXCEPT ![c] = k] /\ vector' = [vector EXCEPT ![c] = vector[c]]
        /\ UNCHANGED <<db, nextUsn, hwm>>
    BY <1>1, CycleNow DEF SaveUtd
  <1>5. nextUsn' \in UsnVector /\ Grows /\ Dead \subseteq Dead'
        /\ CycleFits(c, k, vector[c], nextUsn', Dead')
    BY <1>3, <1>4, SameNumbers
  <1>6. CyclesOK' /\ cycle' \in [Server -> AnyCycle]
    BY <1>2, <1>4, <1>5, CycleStep
  <1>7. cycle[c].utd \in UsnVector /\ \A o \in Server : cycle[c].utd[o] < nextUsn[o]
    BY CycleNow DEF SaveUtd, CycleFits
  <1>8. utd' = [utd EXCEPT ![c] = cycle[c].utd]
    BY DEF SaveUtd
  <1>9. TypesOK'
    BY <1>4, <1>6, <1>7, <1>8 DEF Inv, TypesOK
  <1>10. NotAhead'
    BY <1>4, <1>7, <1>8 DEF Inv, TypesOK, NotAhead
  <1>11. DbOK'
    BY <1>4 DEF Inv, DbOK, SaveUtd
  <1> QED
    BY <1>6, <1>9, <1>10, <1>11 DEF Inv

LEMMA InvSaveHwm ==
    ASSUME Inv, NEW c \in Server, SaveHwm(c)
    PROVE  Inv'
  <1>1. PICK p \in Server : p = cycle[c].partner /\ cycle[c].last < nextUsn[p]
                            /\ cycle[c].last \in Nat
    BY CycleNow, CycleParts DEF SaveHwm, CycleFits
  <1>2. /\ cycle' = [cycle EXCEPT ![c] = NoCycle] /\ vector' = [vector EXCEPT ![c] = NoVector]
        /\ UNCHANGED <<db, nextUsn, utd>>
        /\ hwm' = [hwm EXCEPT ![c][p] = cycle[c].last]
    BY <1>1 DEF SaveHwm, EndCycle
  <1>3. nextUsn' \in UsnVector /\ Grows /\ Dead \subseteq Dead'
        /\ CycleFits(c, NoCycle, NoVector, nextUsn', Dead')
    BY <1>2, SameNumbers, NoCycleFits
  <1>4. CyclesOK' /\ cycle' \in [Server -> AnyCycle]
    BY <1>2, <1>3, NoCycleType, CycleStep
  <1>5. TypesOK'
    <2>1. hwm' \in [Server -> UsnVector]
      BY <1>1, <1>2 DEF Inv, TypesOK, UsnVector
    <2>2. vector' \in [Server -> EmptyPageVector]
      BY <1>2, NoVectorType DEF Inv, TypesOK
    <2> QED
      BY <1>2, <1>4, <2>1, <2>2 DEF Inv, TypesOK
  <1>6. NotAhead'
    <2>1. ASSUME NEW d \in Server, NEW o \in Server
          PROVE  hwm'[d][o] < nextUsn[o] /\ utd[d][o] < nextUsn[o]
      <3>1. hwm'[d][o] = hwm[d][o] \/ (o = p /\ hwm'[d][o] = cycle[c].last)
        BY <1>2 DEF Inv, TypesOK, UsnVector
      <3> QED
        BY <1>1, <3>1 DEF Inv, NotAhead
    <2> QED
      BY <1>2, <2>1 DEF NotAhead
  <1>7. DbOK'
    BY <1>2 DEF Inv, DbOK
  <1> QED
    BY <1>4, <1>5, <1>6, <1>7 DEF Inv

LEMMA VectorForType ==
    ASSUME Inv, NEW c \in Server, NEW p \in Server
    PROVE  VectorFor(c, p) \in EmptyPageVector
  <1>1. PICK S \in SUBSET Server : vector[p] \in [S -> 0..EmptyPageCnt]
    BY DEF Inv, TypesOK, EmptyPageVector
  <1>2. EmptyPageCnt \in 0..EmptyPageCnt
    BY BoundAssumption
  <1>3. [vector[p] EXCEPT ![p] = EmptyPageCnt] \in [S -> 0..EmptyPageCnt]
    BY <1>1, <1>2
  <1>4. VectorFor(c, p) \in [S -> 0..EmptyPageCnt]
    BY <1>1, <1>3 DEF VectorFor
  <1> QED
    BY <1>4 DEF EmptyPageVector

LEMMA ReplyIs ==
    ASSUME Inv, NEW c \in Server, Reply(c)
    PROVE  \E k \in AnyCycle :
             /\ cycle' = [cycle EXCEPT ![c] = k]
             /\ cycle[c].step = "search" /\ k.step = "apply"
             /\ k.partner = cycle[c].partner /\ k.last = cycle[c].last
             /\ k.utd = cycle[c].utd /\ k.failed = cycle[c].failed
             /\ k.added = cycle[c].added
             /\ k.page.entries = cycle[c].page.entries /\ k.page.hwm = cycle[c].page.hwm
             /\ k.page.utd = cycle[c].page.utd
             /\ k.page.more = MoreExpected(k.partner, cycle[c].page.sent)
             /\ k.page.vector =
                  IF ConsumerRoleActive(k.partner) /\ cycle[c].page.sent = 0
                  THEN VectorFor(c, k.partner) ELSE NoVector
  <1>0. cycle[c].step = "search" /\ cycle[c] \in AnyCycle /\ cycle[c].page \in AnyPage
    BY CycleNow, CycleParts DEF Reply
  <1>1. PICK p \in Server : p = cycle[c].partner
    BY <1>0, CycleNow, CycleParts DEF CycleFits
  <1>2. PICK m \in BOOLEAN : m = MoreExpected(p, cycle[c].page.sent)
    BY DEF MoreExpected, ConsumerRoleActive
  <1>3. PICK w \in EmptyPageVector :
           w = IF ConsumerRoleActive(p) /\ cycle[c].page.sent = 0
               THEN VectorFor(c, p) ELSE NoVector
    BY VectorForType, NoVectorType
  <1>4. PICK g : g = [cycle[c].page EXCEPT !.more = m, !.vector = w]
    OBVIOUS
  <1>5. /\ g \in AnyPage /\ g.entries = cycle[c].page.entries /\ g.hwm = cycle[c].page.hwm
        /\ g.utd = cycle[c].page.utd /\ g.more = m /\ g.vector = w
    BY <1>0, <1>2, <1>3, <1>4 DEF AnyPage
  <1>6. PICK k : k = [cycle[c] EXCEPT !.step = "apply", !.page = g]
    OBVIOUS
  <1>7. /\ k \in AnyCycle /\ k.step = "apply" /\ k.page = g
        /\ k.partner = cycle[c].partner /\ k.last = cycle[c].last /\ k.utd = cycle[c].utd
        /\ k.failed = cycle[c].failed /\ k.added = cycle[c].added
    BY <1>0, <1>5, <1>6 DEF AnyCycle
  <1>9. cycle' = [cycle EXCEPT ![c] = k]
    <2>1. cycle' = [cycle EXCEPT ![c].step = "apply", ![c].page.more = m,
                                 ![c].page.vector = w]
      BY <1>1, <1>2, <1>3 DEF Reply
    <2>2. PICK f1 : f1 = [cycle EXCEPT ![c].step = "apply"]
      OBVIOUS
    <2>3. PICK f2 : f2 = [f1 EXCEPT ![c].page.more = m]
      OBVIOUS
    <2>4. cycle' = [f2 EXCEPT ![c].page.vector = w]
      BY <2>1, <2>2, <2>3
    <2>5. PICK k1 : k1 = [cycle[c] EXCEPT !.step = "apply"]
      OBVIOUS
    <2>6. k1 \in AnyCycle /\ k1.page = cycle[c].page
      BY <1>0, <2>5 DEF AnyCycle
    <2>7. f1 \in [Server -> AnyCycle] /\ f1[c] = k1 /\ \A d \in Server \ {c} : f1[d] = cycle[d]
      BY <2>2, <2>5, <2>6, CycleNow
    <2>8. PICK g1 : g1 = [cycle[c].page EXCEPT !.more = m]
      OBVIOUS
    <2>9. g1 \in AnyPage /\ g = [g1 EXCEPT !.vector = w]
      BY <1>0, <1>2, <1>4, <2>8 DEF AnyPage
    <2>10. PICK k2 : k2 = [k1 EXCEPT !.page = g1]
      OBVIOUS
    <2>11. k2 \in AnyCycle /\ k2.page = g1 /\ [k1 EXCEPT !.page.more = m] = k2
      BY <2>6, <2>8, <2>9, <2>10 DEF AnyCycle
    <2>12. f2 \in [Server -> AnyCycle] /\ f2[c] = k2 /\ \A d \in Server \ {c} : f2[d] = f1[d]
      BY <2>3, <2>7, <2>11
    <2>13. [k2 EXCEPT !.page.vector = w] = [k2 EXCEPT !.page = g]
      BY <2>9, <2>11 DEF AnyCycle
    <2>14. [k2 EXCEPT !.page = g] = k
      BY <1>0, <1>5, <1>6, <2>5, <2>9, <2>10 DEF AnyCycle
    <2>15. cycle' = [f2 EXCEPT ![c] = k]
      BY <2>4, <2>12, <2>13, <2>14
    <2>16. \A d \in Server : cycle'[d] = [cycle EXCEPT ![c] = k][d]
      BY <2>7, <2>12, <2>15, CycleNow
    <2>17. DOMAIN f2 = Server /\ DOMAIN cycle = Server
      BY <2>12, CycleNow
    <2>18. cycle' = [d \in Server |-> cycle'[d]]
      BY <2>15, <2>17
    <2> QED
      BY <2>16, <2>17, <2>18
  <1>10. /\ k.page.entries = cycle[c].page.entries /\ k.page.hwm = cycle[c].page.hwm
         /\ k.page.utd = cycle[c].page.utd
         /\ k.page.more = MoreExpected(k.partner, cycle[c].page.sent)
         /\ k.page.vector = IF ConsumerRoleActive(k.partner) /\ cycle[c].page.sent = 0
                            THEN VectorFor(c, k.partner) ELSE NoVector
    BY <1>1, <1>2, <1>3, <1>5, <1>7
  <1> QED
    BY <1>0, <1>7, <1>9, <1>10

LEMMA InvReply ==
    ASSUME Inv, NEW c \in Server, Reply(c)
    PROVE  Inv'
  <1>1. PICK k \in AnyCycle :
             /\ cycle' = [cycle EXCEPT ![c] = k]
             /\ cycle[c].step = "search" /\ k.step = "apply"
             /\ k.partner = cycle[c].partner /\ k.last = cycle[c].last
             /\ k.utd = cycle[c].utd /\ k.failed = cycle[c].failed
             /\ k.page.entries = cycle[c].page.entries /\ k.page.hwm = cycle[c].page.hwm
             /\ k.page.utd = cycle[c].page.utd
    BY ReplyIs
  <1>2. CycleFits(c, k, vector[c], nextUsn, Dead)
    BY <1>1, CycleNow DEF CycleFits
  <1>3. vector' = [vector EXCEPT ![c] = vector[c]] /\ UNCHANGED <<db, nextUsn, utd, hwm>>
    BY CycleNow DEF Reply
  <1> QED
    BY <1>1, <1>2, <1>3, CycleNow, CycleOnly

\* What a server stores of an entry it has received, and what has become of the cycle.
LEMMA InvApplied ==
    ASSUME Inv, NEW c \in Server, NEW x \in AnyPageEntry, Fits(x, nextUsn, Dead),
           ApplyEntry(c, x), NEW k \in AnyCycle, CycleFits(c, k, vector[c], nextUsn, Dead),
           cycle' = [cycle EXCEPT ![c] = k], UNCHANGED <<utd, hwm, vector>>
    PROVE  Inv'
  <1>0. nextUsn' = [nextUsn EXCEPT ![c] = @ + 1] /\ nextUsn[c] \in Nat
    BY DEF ApplyEntry, Inv, TypesOK, UsnVector
  <1>1. PICK e \in Entry : e = x.entry
    BY DEF AnyPageEntry
  <1>2. db[c][e].meta \in [AllAttr -> Meta]
    BY DEF Inv, TypesOK, DbEntry
  <1>3. nextUsn \in UsnVector /\ nextUsn' \in UsnVector /\ Grows
    BY <1>0 DEF Inv, TypesOK, UsnVector, Grows
  <1>4. \A a \in AllAttr : GivenOut(db[c][e].meta[a], nextUsn')
    BY <1>2, <1>3, GivenOutStays DEF Inv, DbOK
  <1>5. ASSUME NEW a \in DOMAIN x.meta
        PROVE  /\ [x.meta[a] EXCEPT !.localUsn = nextUsn[c]] \in Meta
               /\ GivenOut([x.meta[a] EXCEPT !.localUsn = nextUsn[c]], nextUsn')
    <2>1. x.meta[a] \in Meta /\ GivenOut(x.meta[a], nextUsn')
      BY <1>3, <1>5, PageMetaType, GivenOutStays DEF Fits
    <2> QED
      BY <1>0, <2>1 DEF Meta, GivenOut
  <1>6. PICK d : d = Merge(c, x)
    OBVIOUS
  <1>7. d.usnChanged = nextUsn[c] /\ d = [usnChanged |-> nextUsn[c], meta |-> d.meta]
    BY <1>6 DEF Merge
  <1>8. ASSUME NEW a \in AllAttr
        PROVE  d.meta[a] \in Meta /\ GivenOut(d.meta[a], nextUsn')
    <2>1. d.meta[a] = db[c][e].meta[a]
          \/ (a \in DOMAIN x.meta /\ d.meta[a] = [x.meta[a] EXCEPT !.localUsn = nextUsn[c]])
      BY <1>1, <1>6 DEF Merge
    <2> QED
      BY <1>2, <1>4, <1>5, <2>1
  <1>9. d \in DbEntry
    <2>1. d.meta = [a \in AllAttr |-> d.meta[a]]
      BY <1>6 DEF Merge
    <2>2. d.meta \in [AllAttr -> Meta]
      BY <1>8, <2>1
    <2> QED
      BY <1>0, <1>7, <2>2 DEF DbEntry
  <1>10. db' = [db EXCEPT ![c][e] = d]
    BY <1>1, <1>6 DEF ApplyEntry
  <1>11. db' \in [Server -> [Entry -> DbEntry]] /\ DbOK' /\ Dead \subseteq Dead'
    <2>1. Deleted(c, e) => d.meta["isDeleted"].version > 0
      <3>1. "isDeleted" \in AllAttr
        BY DEF AllAttr
      <3>2. CASE d.meta["isDeleted"] = db[c][e].meta["isDeleted"]
        BY <3>2 DEF Deleted
      <3>3. CASE /\ "isDeleted" \in DOMAIN x.meta
                 /\ d.meta["isDeleted"] = [x.meta["isDeleted"] EXCEPT !.localUsn = nextUsn[c]]
        <4>1. x.meta["isDeleted"] \in Meta /\ x.meta["isDeleted"].version > 0
          BY <3>3, PageMetaType DEF Fits
        <4> QED
          BY <3>3, <4>1 DEF Meta
      <3> QED
        BY <1>1, <1>6, <3>1, <3>2, <3>3 DEF Merge
    <2> QED
      BY <1>0, <1>7, <1>8, <1>9, <1>10, <2>1, DbStep
  <1>12. CyclesOK' /\ cycle' \in [Server -> AnyCycle]
    <2>1. CycleFits(c, k, vector[c], nextUsn', Dead')
      BY <1>3, <1>11, CycleFitsStays
    <2> QED
      BY <1>3, <1>11, <2>1, CycleNow, CycleStep
  <1>13. NotAhead'
    BY <1>3, NotAheadStays DEF Inv
  <1>14. TypesOK'
    BY <1>3, <1>11, <1>12 DEF Inv, TypesOK
  <1> QED
    BY <1>11, <1>12, <1>13, <1>14 DEF Inv

LEMMA ReapplyIs ==
    ASSUME Inv, NEW c \in Server, NEW x \in cycle[c].failed, Reapply(c, x)
    PROVE  \E k \in AnyCycle :
             /\ cycle' = [cycle EXCEPT ![c] = k]
             /\ cycle[c].step = "apply" /\ k.step = "apply"
             /\ k.partner = cycle[c].partner /\ k.last = cycle[c].last
             /\ k.utd = cycle[c].utd /\ k.failed = cycle[c].failed \ {x}
             /\ k.added = cycle[c].added /\ k.page = cycle[c].page
  <1>1. cycle[c].step = "apply" /\ cycle[c] \in AnyCycle
    BY CycleNow DEF Reapply
  <1>2. PICK k : k = [cycle[c] EXCEPT !.failed = cycle[c].failed \ {x}]
    OBVIOUS
  <1>3. /\ k \in AnyCycle /\ k.failed = cycle[c].failed \ {x} /\ k.step = "apply"
        /\ k.partner = cycle[c].partner /\ k.last = cycle[c].last /\ k.utd = cycle[c].utd
        /\ k.page = cycle[c].page /\ k.added = cycle[c].added
    BY <1>1, <1>2 DEF AnyCycle
  <1>4. cycle' = [cycle EXCEPT ![c] = k]
    BY <1>2, CycleNow DEF Reapply
  <1> QED
    BY <1>1, <1>3, <1>4

LEMMA InvReapply ==
    ASSUME Inv, NEW c \in Server, NEW x \in cycle[c].failed, Reapply(c, x)
    PROVE  Inv'
  <1>1. x \in AnyPageEntry /\ Fits(x, nextUsn, Dead)
    BY CycleNow, CycleParts DEF CycleFits
  <1>2. PICK k \in AnyCycle :
             /\ cycle' = [cycle EXCEPT ![c] = k]
             /\ cycle[c].step = "apply" /\ k.step = "apply"
             /\ k.partner = cycle[c].partner /\ k.last = cycle[c].last
             /\ k.utd = cycle[c].utd /\ k.failed = cycle[c].failed \ {x}
             /\ k.page = cycle[c].page
    BY ReapplyIs
  <1>3. CycleFits(c, k, vector[c], nextUsn, Dead)
    BY <1>2, CycleNow DEF CycleFits
  <1> QED
    BY <1>1, <1>2, <1>3, InvApplied DEF Reapply

LEMMA ReceivedIs ==
    ASSUME Inv, NEW c \in Server, NEW x \in AnyPageEntry, Fits(x, nextUsn, Dead)
    PROVE  Received(c, x) \in AnyPageEntry /\ Fits(Received(c, x), nextUsn, Dead)
  <1>1. CASE x.state = "add" /\ x.deleted /\ Exists(c, x.entry)
    <2>1. Received(c, x) = [x EXCEPT !.state = "delete"]
      BY <1>1 DEF Received
    <2>2. /\ [x EXCEPT !.state = "delete"] \in AnyPageEntry
          /\ [x EXCEPT !.state = "delete"].meta = x.meta
          /\ [x EXCEPT !.state = "delete"].deleted = x.deleted
          /\ [x EXCEPT !.state = "delete"].entry = x.entry
      BY DEF AnyPageEntry
    <2> QED
      BY <1>1, <2>1, <2>2 DEF Fits
  <1>2. CASE ~(x.state = "add" /\ x.deleted /\ Exists(c, x.entry))
    BY <1>2 DEF Received
  <1> QED
    BY <1>1, <1>2

LEMMA ApplyIs ==
    ASSUME Inv, NEW c \in Server, NEW x \in cycle[c].page.entries, Apply(c, x)
    PROVE  \E k \in AnyCycle :
             /\ cycle' = [cycle EXCEPT ![c] = k]
             /\ cycle[c].step = "apply" /\ k.step = "apply"
             /\ k.partner = cycle[c].partner /\ k.last = cycle[c].last
             /\ k.utd = cycle[c].utd /\ k.added = cycle[c].added
             /\ \/ /\ Applicable(c, Received(c, x)) /\ k.failed = cycle[c].failed
                \/ /\ ~Applicable(c, Received(c, x))
                   /\ k.failed = cycle[c].failed \cup {Received(c, x)}
             /\ k.page.entries = cycle[c].page.entries \ {x}
             /\ k.page.hwm = cycle[c].page.hwm /\ k.page.utd = cycle[c].page.utd
             /\ k.page.more = cycle[c].page.more /\ k.page.vector = cycle[c].page.vector
             /\ k.page.sent = cycle[c].page.sent
  <1>0. /\ cycle[c].step = "apply" /\ cycle[c] \in AnyCycle /\ cycle[c].page \in AnyPage
        /\ cycle[c].failed \subseteq AnyPageEntry /\ cycle[c].page.entries \subseteq AnyPageEntry
    BY CycleNow, CycleParts, PageParts DEF Apply
  <1>1. x \in AnyPageEntry /\ Fits(x, nextUsn, Dead)
    BY <1>0, CycleNow DEF CycleFits
  <1>2. PICK y \in AnyPageEntry : y = Received(c, x) /\ Fits(y, nextUsn, Dead)
    BY <1>1, ReceivedIs
  <1>3. PICK F : F = IF Applicable(c, y) THEN cycle[c].failed ELSE cycle[c].failed \cup {y}
    OBVIOUS
  <1>4. F \subseteq AnyPageEntry /\ F \subseteq cycle[c].failed \cup {y}
    BY <1>0, <1>2, <1>3
  <1>5. PICK g : g = [cycle[c].page EXCEPT !.entries = cycle[c].page.entries \ {x}]
    OBVIOUS
  <1>6. /\ g \in AnyPage /\ g.entries = cycle[c].page.entries \ {x}
        /\ g.hwm = cycle[c].page.hwm /\ g.utd = cycle[c].page.utd
        /\ g.more = cycle[c].page.more /\ g.vector = cycle[c].page.vector
        /\ g.sent = cycle[c].page.sent
    BY <1>0, <1>5 DEF AnyPage
  <1>7. PICK k1 : k1 = [cycle[c] EXCEPT !.page = g]
    OBVIOUS
  <1>8. PICK k : k = [k1 EXCEPT !.failed = F]
    OBVIOUS
  <1>9. /\ k1 \in AnyCycle /\ k1.page = g /\ k1.failed = cycle[c].failed
        /\ k1.step = "apply" /\ k1.partner = cycle[c].partner
        /\ k1.last = cycle[c].last /\ k1.utd = cycle[c].utd /\ k1.added = cycle[c].added
    BY <1>0, <1>6, <1>7 DEF AnyCycle
  <1>10. /\ k \in AnyCycle /\ k.page = g /\ k.failed = F
         /\ k.step = "apply" /\ k.partner = cycle[c].partner
         /\ k.last = cycle[c].last /\ k.utd = cycle[c].utd /\ k.added = cycle[c].added
    BY <1>4, <1>8, <1>9 DEF AnyCycle
  <1>12. cycle' = [cycle EXCEPT ![c] = k]
    <2>1. PICK f1 : f1 = [cycle EXCEPT ![c].page.entries = @ \ {x}]
      OBVIOUS
    <2>2. [cycle[c] EXCEPT !.page.entries = @ \ {x}] = k1
      BY <1>0, <1>5, <1>7 DEF AnyCycle
    <2>3. f1 \in [Server -> AnyCycle] /\ f1[c] = k1 /\ \A d \in Server \ {c} : f1[d] = cycle[d]
      BY <1>9, <2>1, <2>2, CycleNow
    <2>4. cycle' = [f1 EXCEPT ![c].failed = IF Applicable(c, y) THEN @ ELSE @ \cup {y}]
      BY <1>2, <2>1 DEF Apply
    <2>5. [k1 EXCEPT !.failed = IF Applicable(c, y) THEN @ ELSE @ \cup {y}] = k
      BY <1>3, <1>8, <1>9
    <2>6. cycle' = [f1 EXCEPT ![c] = k]
      BY <2>3, <2>4, <2>5
    <2> QED
      BY <2>3, <2>6, CycleNow
  <1> QED
    BY <1>0, <1>2, <1>3, <1>6, <1>10, <1>12

LEMMA InvApply ==
    ASSUME Inv, NEW c \in Server, NEW x \in cycle[c].page.entries, Apply(c, x)
    PROVE  Inv'
  <1>1. x \in AnyPageEntry /\ Fits(x, nextUsn, Dead)
    BY CycleNow, CycleParts, PageParts DEF CycleFits
  <1>2. PICK y \in AnyPageEntry : y = Received(c, x) /\ Fits(y, nextUsn, Dead)
    BY <1>1, ReceivedIs
  <1>3. PICK k \in AnyCycle :
             /\ cycle' = [cycle EXCEPT ![c] = k]
             /\ cycle[c].step = "apply" /\ k.step = "apply"
             /\ k.partner = cycle[c].partner /\ k.last = cycle[c].last
             /\ k.utd = cycle[c].utd
             /\ \/ /\ Applicable(c, Received(c, x)) /\ k.failed = cycle[c].failed
                \/ /\ ~Applicable(c, Received(c, x))
                   /\ k.failed = cycle[c].failed \cup {Received(c, x)}
             /\ k.page.entries = cycle[c].page.entries \ {x}
             /\ k.page.hwm = cycle[c].page.hwm /\ k.page.utd = cycle[c].page.utd
    BY ApplyIs
  <1>4. CycleFits(c, k, vector[c], nextUsn, Dead)
    <2>1. \A z \in k.failed \cup k.page.entries : Fits(z, nextUsn, Dead)
      BY <1>2, <1>3, CycleNow DEF CycleFits
    <2>2. \A z \in k.page.entries : z.state = "delete" => "isDeleted" \in DOMAIN z.meta
      BY <1>3, CycleNow DEF CycleFits
    <2> QED
      BY <1>3, <2>1, <2>2, CycleNow DEF CycleFits
  <1>5. UNCHANGED <<utd, hwm, vector>>
    BY DEF Apply
  <1>6. CASE Applicable(c, y)
    <2>1. ApplyEntry(c, y)
      BY <1>2, <1>6 DEF Apply
    <2> QED
      BY <1>2, <1>3, <1>4, <1>5, <2>1, InvApplied
  <1>7. CASE ~Applicable(c, y)
    <2>1. UNCHANGED <<db, nextUsn>>
      BY <1>2, <1>7 DEF Apply
    <2>2. vector' = [vector EXCEPT ![c] = vector[c]]
      BY <1>5, CycleNow
    <2> QED
      BY <1>3, <1>4, <1>5, <2>1, <2>2, CycleNow, CycleOnly
  <1> QED
    BY <1>6, <1>7

LEMMA NewVectorType ==
    ASSUME Inv, NEW c \in Server, cycle[c].step # "none", NEW w \in EmptyPageVector
    PROVE  NewVector(c, w) \in EmptyPageVector /\ c \in DOMAIN NewVector(c, w)
  <1>1. CASE w = NoVector
    BY <1>1, OwnVectorType DEF NewVector
  <1>2. CASE w # NoVector
    <2>1. PICK S \in SUBSET Server : w \in [S -> 0..EmptyPageCnt]
      BY DEF EmptyPageVector
    <2>2. vector[c][c] \in 0..EmptyPageCnt
      <3>1. PICK T \in SUBSET Server : vector[c] \in [T -> 0..EmptyPageCnt]
        <4>1. vector[c] \in EmptyPageVector
          BY CycleNow
        <4> QED
          BY <4>1 DEF EmptyPageVector
      <3>2. c \in DOMAIN vector[c]
        BY CycleNow DEF CycleFits
      <3> QED
        BY <3>1, <3>2
    <2>3. PICK n : n = IF vector[c][c] < EmptyPageCnt THEN vector[c][c] + 1 ELSE EmptyPageCnt
      OBVIOUS
    <2>4. n \in 0..EmptyPageCnt
      BY <2>2, <2>3, BoundAssumption
    <2>5. NewVector(c, w) = [s \in S \cup {c} |-> IF s # c THEN w[s] ELSE n]
      BY <1>2, <2>1, <2>3 DEF NewVector
    <2>6. NewVector(c, w) \in [S \cup {c} -> 0..EmptyPageCnt] /\ S \cup {c} \in SUBSET Server
      BY <2>1, <2>4, <2>5
    <2> QED
      BY <2>6 DEF EmptyPageVector
  <1> QED
    BY <1>1, <1>2

\* Another page is asked for.
Again(c) ==
    /\ cycle[c].page.more
    /\ ~(cycle[c].page.vector # NoVector /\ CompleteCycle(NewVector(c, cycle[c].page.vector)))

LEMMA AfterIs ==
    ASSUME Inv, NEW c \in Server, cycle[c].step = "apply"
    PROVE  /\ LastAfter(c) \in Nat /\ LastAfter(c) < nextUsn[cycle[c].partner]
           /\ UtdAfter(c) \in UsnVector /\ \A o \in Server : UtdAfter(c)[o] < nextUsn[o]
  <1>1. cycle[c].last \in Nat /\ cycle[c].page.hwm \in Nat
    BY CycleNow, CycleParts, PageParts
  <1>2. /\ cycle[c].utd \in UsnVector /\ cycle[c].page.utd \in UsnVector
        /\ cycle[c].last < nextUsn[cycle[c].partner]
        /\ cycle[c].page.hwm < nextUsn[cycle[c].partner]
        /\ \A o \in Server : cycle[c].utd[o] < nextUsn[o] /\ cycle[c].page.utd[o] < nextUsn[o]
    BY CycleNow DEF CycleFits
  <1> QED
    BY <1>1, <1>2 DEF LastAfter, UtdAfter, UsnVector

LEMMA PageDoneIs ==
    ASSUME Inv, NEW c \in Server, PageDone(c)
    PROVE  /\ cycle[c].step = "apply" /\ cycle[c].page.entries = {}
           /\ \/ /\ ~Again(c) /\ LastAfter(c) = hwm[c][cycle[c].partner]
                 /\ EndCycle(c)
              \/ \E k \in AnyCycle :
                    /\ cycle' = [cycle EXCEPT ![c] = k]
                    /\ vector' = [vector EXCEPT ![c] = NewVector(c, cycle[c].page.vector)]
                    /\ \/ Again(c) /\ k.step = "request"
                       \/ ~Again(c) /\ k.step = "saveUtd"
                    /\ k.partner = cycle[c].partner /\ k.last = LastAfter(c)
                    /\ k.utd = UtdAfter(c) /\ k.failed = cycle[c].failed
                    /\ k.added = cycle[c].added /\ k.page = NoPage
  <1>1. /\ cycle[c].step = "apply" /\ cycle[c].page.entries = {} /\ cycle[c] \in AnyCycle
    BY CycleNow DEF PageDone
  <1>2. LastAfter(c) \in Nat /\ UtdAfter(c) \in UsnVector
    BY <1>1, AfterIs
  <1>3. PICK n : n = IF Again(c) THEN "request" ELSE "saveUtd"
    OBVIOUS
  <1>4. n \in {"request", "saveUtd"}
    BY <1>3, Zenon
  <1>5. \/ /\ ~Again(c) /\ LastAfter(c) = hwm[c][cycle[c].partner]
           /\ EndCycle(c)
        \/ /\ vector' = [vector EXCEPT ![c] = NewVector(c, cycle[c].page.vector)]
           /\ cycle' = [cycle EXCEPT ![c].step = n, ![c].last = LastAfter(c),
                                     ![c].utd = UtdAfter(c), ![c].page = NoPage]
    BY <1>3, Zenon DEF PageDone, Again
  <1>6. PICK k : k = [cycle[c] EXCEPT !.step = n, !.last = LastAfter(c),
                                      !.utd = UtdAfter(c), !.page = NoPage]
    OBVIOUS
  <1>7. /\ k.step = n /\ k.last = LastAfter(c) /\ k.utd = UtdAfter(c) /\ k.page = NoPage
        /\ k.partner = cycle[c].partner /\ k.failed = cycle[c].failed
        /\ k.added = cycle[c].added
    BY <1>1, <1>6 DEF AnyCycle
  <1>8. k \in AnyCycle
    BY <1>1, <1>2, <1>4, <1>6, NoPageType DEF AnyCycle
  <1>9. ASSUME cycle' = [cycle EXCEPT ![c].step = n, ![c].last = LastAfter(c),
                                      ![c].utd = UtdAfter(c), ![c].page = NoPage]
        PROVE  cycle' = [cycle EXCEPT ![c] = k]
    BY <1>6, <1>9, CycleNow
  <1>10. (Again(c) /\ k.step = "request") \/ (~Again(c) /\ k.step = "saveUtd")
    BY <1>3, <1>7
  <1> QED
    BY <1>1, <1>5, <1>7, <1>8, <1>9, <1>10

LEMMA InvPageDone ==
    ASSUME Inv, NEW c \in Server, PageDone(c)
    PROVE  Inv'
  <1>1. /\ cycle[c].step = "apply" /\ cycle[c].page.vector \in EmptyPageVector
        /\ cycle[c].partner # None /\ \A x \in cycle[c].failed : Fits(x, nextUsn, Dead)
    BY PageDoneIs, CycleNow, CycleParts, PageParts DEF CycleFits
  <1>2. PICK v \in EmptyPageVector : v = NewVector(c, cycle[c].page.vector) /\ c \in DOMAIN v
    BY <1>1, NewVectorType
  <1>3. UNCHANGED <<db, nextUsn, utd, hwm>>
    BY DEF PageDone
  <1>4. CASE EndCycle(c)
    BY <1>3, <1>4, InvEnd
  <1>5. ASSUME NEW k \in AnyCycle, cycle' = [cycle EXCEPT ![c] = k],
               vector' = [vector EXCEPT ![c] = v], k.step \in {"request", "saveUtd"},
               k.partner = cycle[c].partner, k.last = LastAfter(c),
               k.utd = UtdAfter(c), k.failed = cycle[c].failed, k.page = NoPage
        PROVE  Inv'
    <2>1. NoPage.entries = {}
      BY DEF NoPage
    <2>2. CycleFits(c, k, v, nextUsn, Dead)
      BY <1>1, <1>2, <1>5, <2>1, AfterIs DEF CycleFits
    <2> QED
      BY <1>3, <1>5, <2>2, CycleOnly
  <1> QED
    BY <1>2, <1>4, <1>5, PageDoneIs

-----------------------------------------------------------------------------
(* The search *)

LEMMA PageEntryIs ==
    ASSUME Inv, NEW c \in Server, NEW p \in Server, NEW e \in Sendable(c, p)
    PROVE  /\ PageEntry(c, p, e) \in AnyPageEntry /\ Fits(PageEntry(c, p, e), nextUsn, Dead)
           /\ PageEntry(c, p, e).entry = e
           /\ PageEntry(c, p, e).state = "delete"
                => "isDeleted" \in DOMAIN PageEntry(c, p, e).meta
  <1>1. e \in Entry /\ InScope(c, p, e) # {}
    BY DEF Sendable, Candidate
  <1>2. PICK A : A = InScope(c, p, e)
    OBVIOUS
  <1>3. A # {} /\ A \subseteq AllAttr /\ \A a \in A : Uncovered(c, db[p][e].meta[a])
    BY <1>1, <1>2 DEF InScope
  <1>4. PICK x : x = PageEntry(c, p, e)
    OBVIOUS
  <1>5. x = [entry |-> e, usn |-> db[p][e].usnChanged, state |-> SyncState(A),
             deleted |-> Deleted(p, e), meta |-> [a \in A |-> db[p][e].meta[a]]]
    BY <1>2, <1>4 DEF PageEntry
  <1>6. SyncState(A) \in {"add", "modify", "delete"}
        /\ (SyncState(A) = "delete" => "isDeleted" \in A)
    BY DEF SyncState
  <1>7. "isDeleted" \in A => Deleted(p, e)
    BY <1>3 DEF Uncovered, Deleted
  <1>8. Deleted(p, e) \in BOOLEAN
    BY DEF Deleted
  <1>9. [a \in A |-> db[p][e].meta[a]] \in [A -> Meta]
    BY <1>1, <1>3, HeldIs
  <1>10. [a \in A |-> db[p][e].meta[a]] \in PageMeta
    BY <1>3, <1>9 DEF PageMeta
  <1>11. db[p][e].usnChanged \in Nat
    BY <1>1, HeldIs
  <1>12. x \in AnyPageEntry
    BY <1>1, <1>5, <1>6, <1>8, <1>10, <1>11 DEF AnyPageEntry
  <1>13. /\ x.entry = e /\ x.state = SyncState(A) /\ x.deleted = Deleted(p, e)
         /\ x.meta = [a \in A |-> db[p][e].meta[a]]
    BY <1>5
  <1>14. \A a \in A : GivenOut(db[p][e].meta[a], nextUsn)
    BY <1>1, <1>3, HeldIs
  <1>15. DOMAIN x.meta = A /\ \A a \in A : x.meta[a] = db[p][e].meta[a]
    BY <1>13
  <1>16. Deleted(p, e) => e \in Dead
    BY <1>1 DEF Dead
  <1>17. \A a \in A : db[p][e].meta[a].version > 0
    BY <1>3 DEF Uncovered
  <1>18. Fits(x, nextUsn, Dead)
    BY <1>3, <1>6, <1>7, <1>13, <1>14, <1>15, <1>16, <1>17 DEF Fits
  <1> QED
    BY <1>4, <1>6, <1>12, <1>13, <1>15, <1>18

LEMMA PageHwmIs ==
    ASSUME Inv, NEW c \in Server, NEW p \in Server, cycle[c].last \in Nat,
           cycle[c].last < nextUsn[p]
    PROVE  PageHwm(c, p) \in Nat /\ PageHwm(c, p) < nextUsn[p]
  <1>1. PICK T : T = {db[p][e].usnChanged : e \in Examined(c, p)} \cup {cycle[c].last}
    OBVIOUS
  <1>2. Examined(c, p) \subseteq Entry
    BY DEF Examined, Candidate
  <1>3. T \in SUBSET Nat /\ T # {} /\ \A b \in T : b < nextUsn[p]
    BY <1>1, <1>2, HeldIs
  <1>4. nextUsn[p] \in Nat
    BY DEF Inv, TypesOK, UsnVector
  <1>5. (CHOOSE u \in T : \A v \in T : v <= u) \in T
    BY <1>3, <1>4, HighestIs
  <1>6. PageHwm(c, p) = CHOOSE u \in T : \A v \in T : v <= u
    BY <1>1 DEF PageHwm
  <1> QED
    BY <1>3, <1>5, <1>6

LEMMA PageUtdIs ==
    ASSUME Inv, NEW c \in Server, NEW p \in Server
    PROVE  PageUtd(c, p) \in UsnVector /\ \A o \in Server : PageUtd(c, p)[o] < nextUsn[o]
  <1>1. PICK M : M = {db[p][x[1]].meta[x[2]] : x \in Examined(c, p) \X AllAttr}
    OBVIOUS
  <1>2. ASSUME NEW m \in M PROVE m \in Meta /\ GivenOut(m, nextUsn)
    <2>1. PICK x \in Examined(c, p) \X AllAttr : m = db[p][x[1]].meta[x[2]]
      BY <1>1
    <2>2. x[1] \in Entry /\ x[2] \in AllAttr
      BY <2>1 DEF Examined, Candidate
    <2> QED
      BY <2>1, <2>2, HeldIs
  <1>3. ASSUME NEW o \in Server
        PROVE  PageUtd(c, p)[o] \in Nat /\ PageUtd(c, p)[o] < nextUsn[o]
    <2>1. PICK T : T = {m.usn : m \in {k \in M : Uncovered(c, k) /\ k.orig = o}}
                          \cup {utd[c][o]}
      OBVIOUS
    <2>2. utd[c][o] \in Nat /\ utd[c][o] < nextUsn[o] /\ nextUsn[o] \in Nat
      BY DEF Inv, TypesOK, UsnVector, NotAhead
    <2>3. ASSUME NEW m \in M, m.orig = o PROVE m.usn \in Nat /\ m.usn < nextUsn[o]
      BY <1>2, <2>3 DEF Meta, GivenOut
    <2>4. T \in SUBSET Nat /\ T # {} /\ \A b \in T : b < nextUsn[o]
      BY <2>1, <2>2, <2>3
    <2>5. (CHOOSE u \in T : \A v \in T : v <= u) \in T
      BY <2>2, <2>4, HighestIs
    <2>6. PageUtd(c, p)[o] = CHOOSE u \in T : \A v \in T : v <= u
      BY <1>1, <2>1 DEF PageUtd
    <2> QED
      BY <2>4, <2>5, <2>6
  <1>4. PageUtd(c, p) = [o \in Server |-> PageUtd(c, p)[o]]
    <2> DEFINE H(o) ==
          LET changes == {db[p][x[1]].meta[x[2]] : x \in Examined(c, p) \X AllAttr}
              usns == {m.usn : m \in {k \in changes : Uncovered(c, k) /\ k.orig = o}}
                         \cup {utd[c][o]}
          IN CHOOSE u \in usns : \A v \in usns : v <= u
    <2>1. PageUtd(c, p) = [o \in Server |-> H(o)]
      BY Zenon DEF PageUtd
    <2> HIDE DEF H
    <2> QED
      BY <2>1
  <1> QED
    BY <1>3, <1>4 DEF UsnVector

\* What the page of a search is, and what becomes of the cycle.
LEMMA SearchIs ==
    ASSUME Inv, NEW c \in Server, Search(c)
    PROVE  \E p \in Server, k \in AnyCycle :
             /\ cycle' = [cycle EXCEPT ![c] = k]
             /\ cycle[c].step = "request" /\ k.step = "search"
             /\ p = cycle[c].partner /\ k.partner = p /\ k.last = cycle[c].last
             /\ k.utd = cycle[c].utd /\ k.failed = cycle[c].failed
             /\ k.page.entries =
                  {PageEntry(c, p, e) : e \in Examined(c, p) \cap Sendable(c, p)}
             /\ k.page.hwm = PageHwm(c, p) /\ k.page.utd = PageUtd(c, p)
             /\ k.page.sent = Cardinality(k.page.entries)
             /\ k.added = cycle[c].added
                            \cup {x.entry : x \in {y \in k.page.entries : y.state = "add"}}
  <1>0. cycle[c].step = "request" /\ cycle[c] \in AnyCycle /\ cycle[c].last \in Nat
        /\ cycle[c].added \subseteq Entry
    BY CycleNow, CycleParts DEF Search
  <1>1. PICK p \in Server : p = cycle[c].partner /\ cycle[c].last < nextUsn[p]
    BY <1>0, CycleNow, CycleParts DEF CycleFits
  <1>2. PICK E : E = {PageEntry(c, p, e) : e \in Examined(c, p) \cap Sendable(c, p)}
    OBVIOUS
  <1>3. E \subseteq AnyPageEntry
    BY <1>2, PageEntryIs
  <1>4. PICK A : A = {x.entry : x \in {y \in E : y.state = "add"}}
    OBVIOUS
  <1>5. A \subseteq Entry
    BY <1>3, <1>4 DEF AnyPageEntry
  <1>6. PICK g : g = [NoPage EXCEPT !.entries = E, !.hwm = PageHwm(c, p),
                                    !.utd = PageUtd(c, p), !.sent = Cardinality(E)]
    OBVIOUS
  <1>7. PageHwm(c, p) \in Nat
    BY <1>0, <1>1, PageHwmIs
  <1>8. PageUtd(c, p) \in UsnVector
    BY PageUtdIs
  <1>9. Cardinality(E) \in {Cardinality(S) : S \in SUBSET AnyPageEntry}
    BY <1>3
  <1>10. g \in AnyPage
    BY <1>3, <1>6, <1>7, <1>8, <1>9, NoPageType DEF AnyPage
  <1>11. /\ g.entries = E /\ g.hwm = PageHwm(c, p) /\ g.utd = PageUtd(c, p)
         /\ g.sent = Cardinality(E)
    BY <1>6 DEF NoPage
  <1>12. PICK k : k = [cycle[c] EXCEPT !.step = "search", !.page = g,
                                       !.added = cycle[c].added \cup A]
    OBVIOUS
  <1>13. /\ k.step = "search" /\ k.page = g /\ k.partner = cycle[c].partner
         /\ k.last = cycle[c].last /\ k.utd = cycle[c].utd /\ k.failed = cycle[c].failed
         /\ k.added = cycle[c].added \cup A
    BY <1>0, <1>12 DEF AnyCycle
  <1>14. k \in AnyCycle
    BY <1>0, <1>5, <1>10, <1>12 DEF AnyCycle
  <1>15. cycle' = [cycle EXCEPT ![c] = k]
    <2> DEFINE q == cycle[c].partner
               S == {PageEntry(c, q, e) : e \in Examined(c, q) \cap Sendable(c, q)}
    <2>1. cycle' = [cycle EXCEPT
             ![c].step = "search",
             ![c].page = [NoPage EXCEPT !.entries = S, !.hwm = PageHwm(c, q),
                                        !.utd = PageUtd(c, q),
                                        !.sent = Cardinality(S)],
             ![c].added = @ \cup {x.entry : x \in {y \in S : y.state = "add"}}]
      BY DEF Search
    <2>2. q = p /\ S = E
      BY <1>1, <1>2
    <2> HIDE DEF q, S
    <2>3. cycle' = [cycle EXCEPT ![c].step = "search", ![c].page = g, ![c].added = @ \cup A]
      BY <1>4, <1>6, <2>1, <2>2
    <2> QED
      BY <1>0, <1>12, <2>3, CycleNow
  <1>16. /\ k.page.entries = E /\ k.page.hwm = PageHwm(c, p) /\ k.page.utd = PageUtd(c, p)
         /\ k.page.sent = Cardinality(E)
    BY <1>11, <1>13
  <1> QED
    BY <1>0, <1>1, <1>2, <1>4, <1>13, <1>14, <1>15, <1>16

LEMMA InvSearch ==
    ASSUME Inv, NEW c \in Server, Search(c)
    PROVE  Inv'
  <1>1. PICK p \in Server, k \in AnyCycle :
             /\ cycle' = [cycle EXCEPT ![c] = k]
             /\ cycle[c].step = "request" /\ k.step = "search"
             /\ p = cycle[c].partner /\ k.partner = p /\ k.last = cycle[c].last
             /\ k.utd = cycle[c].utd /\ k.failed = cycle[c].failed
             /\ k.page.entries =
                  {PageEntry(c, p, e) : e \in Examined(c, p) \cap Sendable(c, p)}
             /\ k.page.hwm = PageHwm(c, p) /\ k.page.utd = PageUtd(c, p)
    BY SearchIs
  <1>2. cycle[c].last \in Nat /\ cycle[c].last < nextUsn[p]
    BY <1>1, CycleNow, CycleParts DEF CycleFits
  <1>3. ASSUME NEW x \in k.page.entries
        PROVE  /\ Fits(x, nextUsn, Dead)
               /\ x.state = "delete" => "isDeleted" \in DOMAIN x.meta
    BY <1>1, PageEntryIs
  <1>4. PageHwm(c, p) < nextUsn[p]
    BY <1>2, PageHwmIs
  <1>5. PageUtd(c, p) \in UsnVector /\ \A o \in Server : PageUtd(c, p)[o] < nextUsn[o]
    BY PageUtdIs
  <1>6. CycleFits(c, k, vector[c], nextUsn, Dead)
    <2>1. \A x \in k.failed \cup k.page.entries : Fits(x, nextUsn, Dead)
      BY <1>1, <1>3, CycleNow DEF CycleFits
    <2>2. /\ k.partner # None /\ c \in DOMAIN vector[c] /\ k.utd \in UsnVector
          /\ k.last < nextUsn[k.partner] /\ \A o \in Server : k.utd[o] < nextUsn[o]
      BY <1>1, CycleNow DEF CycleFits
    <2> QED
      BY <1>1, <1>3, <1>4, <1>5, <2>1, <2>2 DEF CycleFits
  <1>7. vector' = [vector EXCEPT ![c] = vector[c]] /\ UNCHANGED <<db, nextUsn, utd, hwm>>
    BY CycleNow DEF Search
  <1> QED
    BY <1>1, <1>6, <1>7, CycleNow, CycleOnly

-----------------------------------------------------------------------------
(* The theorems *)

LEMMA InvStep == Inv /\ [Next]_vars => Inv'
  <1> SUFFICES ASSUME Inv, [Next]_vars PROVE Inv'
    OBVIOUS
  <1>1. ASSUME NEW s \in Server, NEW e \in Entry,
               Add(s, e) \/ Delete(s, e) \/ \E a \in Attr : Modify(s, e, a)
        PROVE  Inv'
    BY <1>1, InvAdd, InvDelete, InvModify
  <1>2. ASSUME NEW g \in Agreement, BeginCycle(g[1], g[2])
        PROVE  Inv'
    BY <1>2, InvBeginCycle
  <1>3. ASSUME NEW c \in Server,
               \/ Search(c) \/ Reply(c) \/ PageDone(c) \/ SaveUtd(c) \/ SaveHwm(c) \/ Fail(c)
               \/ \E x \in cycle[c].page.entries : Apply(c, x)
               \/ \E x \in cycle[c].failed : Reapply(c, x)
        PROVE  Inv'
    BY <1>3, InvSearch, InvReply, InvPageDone, InvSaveUtd, InvSaveHwm, InvFail, InvApply,
       InvReapply
  <1>4. CASE UNCHANGED vars
    <2>1. TypesOK' /\ DbOK'
      BY <1>4 DEF vars, Inv, TypesOK, DbOK
    <2>2. NotAhead'
      BY <1>4 DEF vars, Inv, NotAhead
    <2>3. CyclesOK'
      BY <1>4, SameNumbers DEF vars, Inv, CyclesOK
    <2> QED
      BY <2>1, <2>2, <2>3 DEF Inv
  <1> QED
    BY <1>1, <1>2, <1>3, <1>4 DEF Next

LEMMA InvTypes == Inv => TypeOK
  <1> SUFFICES ASSUME Inv PROVE TypeOK
    OBVIOUS
  <1>1. ASSUME NEW x \in AnyPageEntry, Fits(x, nextUsn, Dead)
        PROVE  IsPageEntry(x)
    <2>1. x.entry \in Entry /\ x.usn \in Nat /\ x.state \in {"add", "modify", "delete"}
          /\ x.meta \in PageMeta
      BY DEF AnyPageEntry
    <2>2. PICK A \in SUBSET AllAttr : x.meta \in [A -> Meta]
      BY <2>1 DEF PageMeta
    <2>3. DOMAIN x.meta \in (SUBSET AllAttr) \ {{}} /\ x.meta \in [DOMAIN x.meta -> Meta]
      BY <1>1, <2>2 DEF Fits
    <2>4. x.state = "delete" => x.deleted
      BY <1>1 DEF Fits
    <2> QED
      BY <2>1, <2>3, <2>4 DEF IsPageEntry
  <1>2. ASSUME NEW c \in Server
        PROVE  /\ cycle[c].partner = None <=> cycle[c].step = "none"
               /\ ConsumerRoleActive(c) <=> cycle[c].step # "none"
               /\ cycle[c].added \subseteq Entry
               /\ \A x \in cycle[c].failed \cup cycle[c].page.entries : IsPageEntry(x)
               /\ \A x \in cycle[c].page.entries :
                     x.state = "delete" => "isDeleted" \in DOMAIN x.meta
               /\ cycle[c].page.entries # {} => cycle[c].step \in {"search", "apply"}
               /\ cycle[c].failed # {} => cycle[c].step # "none"
    <2>1. /\ cycle[c].added \subseteq Entry /\ cycle[c].failed \subseteq AnyPageEntry
          /\ cycle[c].page.entries \subseteq AnyPageEntry
      BY CycleNow, CycleParts, PageParts
    <2>2. CycleFits(c, cycle[c], vector[c], nextUsn, Dead)
      BY CycleNow
    <2>3. \A x \in cycle[c].failed \cup cycle[c].page.entries : IsPageEntry(x)
      BY <1>1, <2>1, <2>2 DEF CycleFits
    <2> QED
      BY <2>1, <2>2, <2>3 DEF CycleFits, ConsumerRoleActive
  <1> QED
    BY <1>2 DEF TypeOK, Inv, TypesOK, DbEntry

LEMMA InvHolds == Spec => []Inv
  BY InitInv, InvStep, PTL DEF Spec

\* The state has its shape whatever the servers do and wherever a cycle is cut off: a
\* server is in the consumer role (VmDirConsumerRoleActive) exactly while it is in a
\* cycle, a page holds entries with something in scope, and the deadlock detection
\* vector never counts beyond dwEmptyPageCnt.
THEOREM TypeCorrect == Spec => []TypeOK
  BY InvHolds, InvTypes, PTL

\* Neither the vector that VmDirReplCookieUpdate saves nor the high-water mark gets
\* ahead of the numbers the server it is about has given out, for any number of
\* servers, writes, pages and failed cycles.
THEOREM MarksNotAhead == Spec => []NotAhead
  <1>1. Inv => NotAhead
    BY DEF Inv
  <1> QED
    BY <1>1, InvHolds, PTL

-----------------------------------------------------------------------------
(* Conflicts *)

\* What ChangesWin says of a step.
Wins ==
    \A s \in Server, e \in Entry, x \in AllAttr :
        \/ Supersedes(db'[s][e].meta[x], db[s][e].meta[x])
        \/ \E t \in Server : Deleted(t, e)

LEMMA SupersedesSelf ==
    ASSUME NEW m \in Meta
    PROVE  Supersedes(m, m)
  <1>1. Server \cup {0} \subseteq Nat
    BY ServerAssumption
  <1>2. m.orig \in Nat
    BY <1>1 DEF Meta
  <1> QED
    BY <1>2 DEF Supersedes

LEMMA SameWins ==
    ASSUME Inv, UNCHANGED db
    PROVE  Wins
  BY HeldIs, SupersedesSelf DEF Wins

\* One entry of one server changes.
LEMMA OneEntryWins ==
    ASSUME Inv, NEW s \in Server, NEW e \in Entry, NEW d, db' = [db EXCEPT ![s][e] = d],
           \/ e \in Dead
           \/ \A a \in AllAttr : Supersedes(d.meta[a], db[s][e].meta[a])
    PROVE  Wins
  <1>1. db \in [Server -> [Entry -> DbEntry]]
    BY DEF Inv, TypesOK
  <1> SUFFICES ASSUME NEW t \in Server, NEW f \in Entry, NEW a \in AllAttr
               PROVE  \/ Supersedes(db'[t][f].meta[a], db[t][f].meta[a])
                      \/ \E u \in Server : Deleted(u, f)
    BY DEF Wins
  <1>2. CASE t = s /\ f = e
    <2>1. db'[t][f] = d
      BY <1>1, <1>2
    <2> QED
      BY <1>2, <2>1 DEF Dead
  <1>3. CASE ~(t = s /\ f = e)
    <2>1. db'[t][f] = db[t][f]
      BY <1>1, <1>3
    <2>2. Supersedes(db[t][f].meta[a], db[t][f].meta[a])
      BY HeldIs, SupersedesSelf
    <2> QED
      BY <2>1, <2>2
  <1> QED
    BY <1>2, <1>3

\* A local change is of a later version than what it replaces.
LEMMA StampSupersedes ==
    ASSUME NEW s \in Server, NEW m \in Meta
    PROVE  Supersedes(Stamp(s, m.version + 1), m)
  BY DEF Meta, Supersedes, Stamp

LEMMA AddWins ==
    ASSUME Inv, NEW s \in Server, NEW e \in Entry, Add(s, e)
    PROVE  Wins
  <1>1. PICK d : d = [usnChanged |-> nextUsn[s],
                      meta |-> [NoEntry.meta EXCEPT !["usnCreated"] = Stamp(s, 1)]]
    OBVIOUS
  <1>2. ASSUME NEW a \in AllAttr
        PROVE  Supersedes(d.meta[a], db[s][e].meta[a])
    <2>1. /\ db[s][e].meta[a] \in Meta /\ db[s][e].meta[a].version = 0
          /\ db[s][e].meta[a].orig = 0
      BY HeldIs DEF Add, Unset
    <2>2. CASE a = "usnCreated"
      <3>1. d.meta[a] = Stamp(s, 1)
        BY <1>1, <2>2 DEF NoEntry
      <3> QED
        BY <2>1, <3>1 DEF Supersedes, Stamp
    <2>3. CASE a # "usnCreated"
      <3>1. d.meta[a] = NoMeta
        BY <1>1, <2>3 DEF NoEntry
      <3> QED
        BY <2>1, <3>1 DEF Supersedes, NoMeta
    <2> QED
      BY <2>2, <2>3
  <1>3. db' = [db EXCEPT ![s][e] = d]
    BY <1>1 DEF Add
  <1> QED
    BY <1>2, <1>3, OneEntryWins

LEMMA ModifyWins ==
    ASSUME Inv, NEW s \in Server, NEW e \in Entry, NEW b \in Attr, Modify(s, e, b)
    PROVE  Wins
  <1>1. PICK d : d = [usnChanged |-> nextUsn[s],
                      meta |-> [db[s][e].meta EXCEPT
                                  ![b] = Stamp(s, db[s][e].meta[b].version + 1)]]
    OBVIOUS
  <1>2. db[s][e].meta \in [AllAttr -> Meta]
    BY DEF Inv, TypesOK, DbEntry
  <1>3. ASSUME NEW a \in AllAttr
        PROVE  Supersedes(d.meta[a], db[s][e].meta[a])
    <2>1. d.meta[a] = IF a = b THEN Stamp(s, db[s][e].meta[a].version + 1)
                               ELSE db[s][e].meta[a]
      BY <1>1, <1>2
    <2> QED
      BY <1>2, <2>1, StampSupersedes, SupersedesSelf
  <1> QED
    BY <1>1, <1>3, ModifyIs, OneEntryWins

LEMMA DeleteWins ==
    ASSUME Inv, NEW s \in Server, NEW e \in Entry, Delete(s, e)
    PROVE  Wins
  <1>1. PICK d : d = [usnChanged |-> nextUsn[s],
                      meta |-> [a \in AllAttr |->
                         LET m == db[s][e].meta[a]
                         IN IF a = "isDeleted" \/ (a \in Attr /\ m.version > 0)
                            THEN Stamp(s, m.version + 1) ELSE m]]
    OBVIOUS
  <1>2. ASSUME NEW a \in AllAttr
        PROVE  Supersedes(d.meta[a], db[s][e].meta[a])
    <2>1. d.meta[a] = Stamp(s, db[s][e].meta[a].version + 1) \/ d.meta[a] = db[s][e].meta[a]
      BY <1>1
    <2> QED
      BY <2>1, HeldIs, StampSupersedes, SupersedesSelf
  <1>3. db' = [db EXCEPT ![s][e] = d]
    BY <1>1 DEF Delete
  <1> QED
    BY <1>2, <1>3, OneEntryWins

\* An addition finds nothing, a modification has to win, a deletion may do as it likes.
LEMMA AppliedWins ==
    ASSUME Inv, NEW c \in Server, NEW x \in AnyPageEntry, Fits(x, nextUsn, Dead),
           Applicable(c, x), ApplyEntry(c, x)
    PROVE  Wins
  <1>1. PICK e \in Entry : e = x.entry
    BY DEF AnyPageEntry
  <1>2. PICK d : d = Merge(c, x)
    OBVIOUS
  <1>3. db' = [db EXCEPT ![c][e] = d]
    BY <1>1, <1>2 DEF ApplyEntry
  <1>4. x.state \in {"add", "modify", "delete"}
    BY DEF AnyPageEntry
  <1>5. CASE x.state = "delete"
    <2>1. e \in Dead
      BY <1>1, <1>5 DEF Fits
    <2> QED
      BY <1>3, <2>1, OneEntryWins
  <1>6. CASE x.state # "delete"
    <2>1. ASSUME NEW a \in AllAttr
          PROVE  Supersedes(d.meta[a], db[c][e].meta[a])
      <3>1. db[c][e].meta[a] \in Meta
        BY HeldIs
      <3>2. CASE d.meta[a] = db[c][e].meta[a]
        BY <3>1, <3>2, SupersedesSelf
      <3>3. CASE /\ a \in DOMAIN x.meta
                 /\ x.state = "modify" => Beats(x.meta[a], db[c][e].meta[a])
                 /\ d.meta[a] = [x.meta[a] EXCEPT !.localUsn = nextUsn[c]]
        <4>1. x.meta[a] \in Meta /\ x.meta[a].version > 0
          BY <3>3, PageMetaType DEF Fits
        <4>2. d.meta[a].version = x.meta[a].version /\ d.meta[a].orig = x.meta[a].orig
          BY <3>3, <4>1 DEF Meta
        <4>3. CASE x.state = "add"
          <5>1. db[c][e].meta[a].version = 0
            BY <1>1, <4>3, HeldIs DEF Applicable, Unset
          <5> QED
            BY <4>1, <4>2, <5>1 DEF Supersedes
        <4>4. CASE x.state = "modify"
          <5>1. Server \cup {0} \subseteq Nat
            BY ServerAssumption
          <5> QED
            BY <3>1, <3>3, <4>1, <4>2, <4>4, <5>1 DEF Supersedes, Beats, Meta
        <4> QED
          BY <1>4, <1>6, <4>3, <4>4
      <3> QED
        BY <1>1, <1>2, <3>2, <3>3 DEF Merge
    <2> QED
      BY <1>3, <2>1, OneEntryWins
  <1> QED
    BY <1>5, <1>6

LEMMA WinsStep ==
    ASSUME Inv, [Next]_vars
    PROVE  Wins
  <1>1. ASSUME NEW s \in Server, NEW e \in Entry,
               Add(s, e) \/ Delete(s, e) \/ \E a \in Attr : Modify(s, e, a)
        PROVE  Wins
    BY <1>1, AddWins, DeleteWins, ModifyWins
  <1>2. ASSUME NEW c \in Server, NEW x \in cycle[c].page.entries, Apply(c, x)
        PROVE  Wins
    <2>1. x \in AnyPageEntry /\ Fits(x, nextUsn, Dead)
      BY CycleNow, CycleParts, PageParts DEF CycleFits
    <2>2. PICK y \in AnyPageEntry : y = Received(c, x) /\ Fits(y, nextUsn, Dead)
      BY <2>1, ReceivedIs
    <2>3. (Applicable(c, y) /\ ApplyEntry(c, y)) \/ UNCHANGED db
      BY <1>2, <2>2 DEF Apply
    <2> QED
      BY <2>2, <2>3, AppliedWins, SameWins
  <1>3. ASSUME NEW c \in Server, NEW x \in cycle[c].failed, Reapply(c, x)
        PROVE  Wins
    <2>1. x \in AnyPageEntry /\ Fits(x, nextUsn, Dead)
      BY CycleNow, CycleParts DEF CycleFits
    <2> QED
      BY <1>3, <2>1, AppliedWins DEF Reapply, Retryable
  <1>4. CASE UNCHANGED db
    BY <1>4, SameWins
  <1>5. \/ \E s \in Server, e \in Entry :
              Add(s, e) \/ Delete(s, e) \/ \E a \in Attr : Modify(s, e, a)
        \/ \E c \in Server : \E x \in cycle[c].page.entries : Apply(c, x)
        \/ \E c \in Server : \E x \in cycle[c].failed : Reapply(c, x)
        \/ UNCHANGED db
    <2>1. ASSUME NEW g \in Agreement, BeginCycle(g[1], g[2]) PROVE UNCHANGED db
      BY <2>1 DEF BeginCycle
    <2>2. ASSUME NEW c \in Server,
                 Search(c) \/ Reply(c) \/ PageDone(c) \/ SaveUtd(c) \/ SaveHwm(c) \/ Fail(c)
          PROVE  UNCHANGED db
      BY <2>2 DEF Search, Reply, PageDone, SaveUtd, SaveHwm, Fail
    <2>3. UNCHANGED vars => UNCHANGED db
      BY DEF vars
    <2> QED
      BY <2>1, <2>2, <2>3 DEF Next
  <1> QED
    BY <1>1, <1>2, <1>3, <1>4, <1>5

\* A server replaces a change only by one that wins against it, in whatever order the
\* changes of any servers arrive, wherever cycles are cut off and pages overlap, unless
\* a server has deleted the entry.
THEOREM ConflictsResolved == Spec => ChangesWin
  <1>1. Inv /\ [Next]_vars => [Wins]_vars
    BY WinsStep
  <1>2. Spec => [][Wins]_vars
    BY <1>1, InvHolds, PTL DEF Spec
  <1> QED
    BY <1>2 DEF ChangesWin, Wins

-----------------------------------------------------------------------------
(* What the steps store *)

\* The server s stores d for the entry e under its next number.
Stored(s, e, d) ==
    /\ db' = [db EXCEPT ![s][e] = d]
    /\ nextUsn' = [nextUsn EXCEPT ![s] = @ + 1]
    /\ d.usnChanged = nextUsn[s]

LEMMA StoredIs ==
    ASSUME Inv, NEW s \in Server, NEW e \in Entry, NEW d, Stored(s, e, d)
    PROVE  /\ db'[s][e] = d /\ d.usnChanged = nextUsn[s]
           /\ \A t \in Server : \A f \in Entry : (t # s \/ f # e) => db'[t][f] = db[t][f]
           /\ nextUsn[s] \in Nat /\ nextUsn'[s] = nextUsn[s] + 1
           /\ \A t \in Server : t # s => nextUsn'[t] = nextUsn[t]
           /\ Grows
  BY DEF Inv, TypesOK, Stored, UsnVector, Grows

\* The change m is a local one of s, recorded as w.
Own(s, a, m, w) ==
    /\ m.version \in Nat /\ m.version > 0
    /\ m.orig = s /\ m.usn = nextUsn[s] /\ m.localUsn = nextUsn[s]
    /\ \/ w.attr = a /\ w.version = m.version
       \/ w.attr = "isDeleted" /\ a # "usnCreated"

\* A local write: the attributes that change get a stamp of a later version.
LocalStep(s, e, d, w) ==
    /\ Stored(s, e, d) /\ writes' = writes \cup {w}
    /\ w.entry = e /\ w.orig = s /\ w.usn = nextUsn[s]
    /\ w.attr \in AllAttr /\ w.version \in Nat \ {0}
    /\ Own(s, w.attr, d.meta[w.attr], w)
    /\ w.version <= d.meta[w.attr].version
    /\ \A a \in AllAttr :
          \/ d.meta[a] = db[s][e].meta[a]
          \/ Unset(d.meta[a]) /\ Unset(db[s][e].meta[a])
          \/ Own(s, a, d.meta[a], w) /\ db[s][e].meta[a].version < d.meta[a].version
    /\ \/ /\ \A t \in Server : ~Exists(t, e)
          /\ w.attr = "usnCreated" /\ Unset(d.meta["isDeleted"])
       \/ /\ Live(s, e) /\ w.attr # "usnCreated"
          /\ d.meta["usnCreated"] = db[s][e].meta["usnCreated"]
    /\ UNCHANGED <<utd, hwm, cycle, vector, fails>>

LEMMA StampFields ==
    ASSUME NEW s, NEW v
    PROVE  /\ Stamp(s, v).version = v /\ Stamp(s, v).orig = s
           /\ Stamp(s, v).usn = nextUsn[s] /\ Stamp(s, v).localUsn = nextUsn[s]
  BY DEF Stamp

LEMMA AddIs ==
    ASSUME Inv, NEW s \in Server, NEW e \in Entry, Add(s, e)
    PROVE  \E d, w : LocalStep(s, e, d, w)
  <1>1. PICK d : d = [usnChanged |-> nextUsn[s],
                      meta |-> [NoEntry.meta EXCEPT !["usnCreated"] = Stamp(s, 1)]]
    OBVIOUS
  <1>2. PICK w : w = [entry |-> e, attr |-> "usnCreated", version |-> 1, orig |-> s,
                      usn |-> nextUsn[s]]
    OBVIOUS
  <1>3. writes' = writes \cup {w}
    BY <1>2, StampFields DEF Add, Record
  <1>4. Stored(s, e, d)
    BY <1>1 DEF Add, Stored
  <1>5. /\ d.meta["usnCreated"] = Stamp(s, 1) /\ "usnCreated" \in AllAttr
        /\ \A a \in AllAttr : a # "usnCreated" => d.meta[a] = NoMeta
    BY <1>1 DEF NoEntry, AllAttr
  <1>6. \A a \in AllAttr : Unset(db[s][e].meta[a])
    BY HeldIs DEF Add
  <1>7. Unset(NoMeta)
    BY DEF Unset, NoMeta
  <1>8. "isDeleted" \in AllAttr /\ d.meta["isDeleted"] = NoMeta
    BY <1>5 DEF AllAttr
  <1>9. Own(s, "usnCreated", d.meta["usnCreated"], w)
    BY <1>2, <1>5, StampFields DEF Own
  <1>10. ASSUME NEW a \in AllAttr
         PROVE  \/ Unset(d.meta[a]) /\ Unset(db[s][e].meta[a])
                \/ Own(s, a, d.meta[a], w) /\ db[s][e].meta[a].version < d.meta[a].version
    <2>1. CASE a = "usnCreated"
      BY <1>5, <1>6, <1>9, <2>1, StampFields DEF Unset
    <2>2. CASE a # "usnCreated"
      BY <1>5, <1>6, <1>7, <2>2
    <2> QED
      BY <2>1, <2>2
  <1>11. UNCHANGED <<utd, hwm, cycle, vector, fails>> /\ \A t \in Server : ~Exists(t, e)
    BY DEF Add
  <1>12. w.version <= d.meta[w.attr].version
    BY <1>2, <1>5, StampFields
  <1> QED
    BY <1>2, <1>3, <1>4, <1>5, <1>7, <1>8, <1>9, <1>10, <1>11, <1>12 DEF LocalStep

LEMMA ModifyLocal ==
    ASSUME Inv, NEW s \in Server, NEW e \in Entry, NEW b \in Attr, Modify(s, e, b)
    PROVE  \E d, w : LocalStep(s, e, d, w)
  <1>1. PICK d : d = [usnChanged |-> nextUsn[s],
                      meta |-> [db[s][e].meta EXCEPT
                                  ![b] = Stamp(s, db[s][e].meta[b].version + 1)]]
    OBVIOUS
  <1>2. PICK w : w = [entry |-> e, attr |-> b, version |-> db[s][e].meta[b].version + 1,
                      orig |-> s, usn |-> nextUsn[s]]
    OBVIOUS
  <1>3. writes' = writes \cup {w}
    BY <1>2, StampFields DEF Modify, Record
  <1>4. Stored(s, e, d)
    <2>1. db' = [db EXCEPT ![s][e] = d]
      BY <1>1, ModifyIs
    <2>2. nextUsn' = [nextUsn EXCEPT ![s] = @ + 1]
      BY DEF Modify
    <2> QED
      BY <1>1, <2>1, <2>2 DEF Stored
  <1>5. db[s][e].meta \in [AllAttr -> Meta] /\ b \in AllAttr
    BY DEF Inv, TypesOK, DbEntry, AllAttr
  <1>6. /\ d.meta[b] = Stamp(s, db[s][e].meta[b].version + 1)
        /\ \A a \in AllAttr : a # b => d.meta[a] = db[s][e].meta[a]
    BY <1>1, <1>5
  <1>7. db[s][e].meta[b].version \in Nat
    BY <1>5 DEF Meta
  <1>8. Own(s, b, d.meta[b], w) /\ db[s][e].meta[b].version < d.meta[b].version
    BY <1>2, <1>6, <1>7, StampFields DEF Own
  <1>9. "usnCreated" \in AllAttr /\ d.meta["usnCreated"] = db[s][e].meta["usnCreated"]
    BY <1>6, NameAssumption DEF AllAttr
  <1>10. UNCHANGED <<utd, hwm, cycle, vector, fails>> /\ Live(s, e) /\ w.attr # "usnCreated"
    BY <1>2, NameAssumption DEF Modify
  <1>11. w.version <= d.meta[w.attr].version /\ w.version \in Nat \ {0}
    BY <1>2, <1>6, <1>7, StampFields
  <1>12. \A a \in AllAttr :
            \/ d.meta[a] = db[s][e].meta[a]
            \/ Own(s, a, d.meta[a], w) /\ db[s][e].meta[a].version < d.meta[a].version
    BY <1>6, <1>8
  <1> QED
    BY <1>2, <1>3, <1>4, <1>5, <1>8, <1>9, <1>10, <1>11, <1>12 DEF LocalStep

LEMMA DeleteLocal ==
    ASSUME Inv, NEW s \in Server, NEW e \in Entry, Delete(s, e)
    PROVE  \E d, w : LocalStep(s, e, d, w)
  <1>1. PICK d : d = [usnChanged |-> nextUsn[s],
                      meta |-> [a \in AllAttr |->
                         LET m == db[s][e].meta[a]
                         IN IF a = "isDeleted" \/ (a \in Attr /\ m.version > 0)
                            THEN Stamp(s, m.version + 1) ELSE m]]
    OBVIOUS
  <1>2. PICK w : w = [entry |-> e, attr |-> "isDeleted", version |-> 1, orig |-> s,
                      usn |-> nextUsn[s]]
    OBVIOUS
  <1>3. writes' = writes \cup {w}
    BY <1>2, StampFields DEF Delete, Record
  <1>4. Stored(s, e, d)
    BY <1>1 DEF Delete, Stored
  <1>5. /\ "isDeleted" \in AllAttr /\ "usnCreated" \in AllAttr
        /\ \A a \in AllAttr : db[s][e].meta[a].version \in Nat
    BY HeldIs DEF AllAttr, Meta
  <1>6. /\ d.meta["isDeleted"] = Stamp(s, db[s][e].meta["isDeleted"].version + 1)
        /\ d.meta["usnCreated"] = db[s][e].meta["usnCreated"]
    BY <1>1, <1>5, NameAssumption
  <1>7. \A a \in AllAttr : \/ d.meta[a] = db[s][e].meta[a]
                           \/ d.meta[a] = Stamp(s, db[s][e].meta[a].version + 1)
    BY <1>1
  <1>8. \A a \in AllAttr :
            \/ d.meta[a] = db[s][e].meta[a]
            \/ Own(s, a, d.meta[a], w) /\ db[s][e].meta[a].version < d.meta[a].version
    <2>1. ASSUME NEW a \in AllAttr, d.meta[a] = Stamp(s, db[s][e].meta[a].version + 1),
                 a # "usnCreated"
          PROVE  Own(s, a, d.meta[a], w) /\ db[s][e].meta[a].version < d.meta[a].version
      BY <1>2, <1>5, <2>1, StampFields DEF Own
    <2> QED
      BY <1>6, <1>7, <2>1
  <1>9. Own(s, "isDeleted", d.meta["isDeleted"], w)
        /\ w.version <= d.meta["isDeleted"].version
    BY <1>2, <1>5, <1>6, StampFields DEF Own
  <1>10. UNCHANGED <<utd, hwm, cycle, vector, fails>> /\ Live(s, e)
    BY DEF Delete
  <1>11. /\ w.entry = e /\ w.orig = s /\ w.usn = nextUsn[s] /\ w.attr = "isDeleted"
         /\ w.version \in Nat \ {0}
    BY <1>2
  <1>12. Own(s, w.attr, d.meta[w.attr], w) /\ w.version <= d.meta[w.attr].version
    BY <1>9, <1>11
  <1>13. w.attr \in AllAttr /\ w.attr # "usnCreated"
    BY <1>5, <1>11
  <1>14. LocalStep(s, e, d, w)
    BY <1>3, <1>4, <1>6, <1>8, <1>10, <1>11, <1>12, <1>13 DEF LocalStep
  <1> QED
    BY <1>14

\* An entry that was received: what comes with it, and beats what a modification
\* would replace, is taken over.
Taken(x, a, old) ==
    a \in DOMAIN x.meta /\ (x.state = "modify" => Beats(x.meta[a], old))

AppliedStep(c, x, d) ==
    /\ Stored(c, x.entry, d)
    /\ \A a \in AllAttr :
          /\ ~Taken(x, a, db[c][x.entry].meta[a]) => d.meta[a] = db[c][x.entry].meta[a]
          /\ Taken(x, a, db[c][x.entry].meta[a]) =>
                /\ d.meta[a].version = x.meta[a].version
                /\ d.meta[a].orig = x.meta[a].orig /\ d.meta[a].usn = x.meta[a].usn
                /\ d.meta[a].localUsn = nextUsn[c]

LEMMA AppliedIs ==
    ASSUME Inv, NEW c \in Server, NEW x \in AnyPageEntry, ApplyEntry(c, x)
    PROVE  \E d : AppliedStep(c, x, d)
  <1>1. PICK d : d = Merge(c, x)
    OBVIOUS
  <1>2. Stored(c, x.entry, d)
    BY <1>1 DEF ApplyEntry, Stored, Merge
  <1>3. PICK old : old = db[c][x.entry].meta
    OBVIOUS
  <1>4. \A a \in AllAttr :
          d.meta[a] = IF Taken(x, a, old[a])
                      THEN [x.meta[a] EXCEPT !.localUsn = nextUsn[c]] ELSE old[a]
    BY <1>1, <1>3 DEF Merge, Taken
  <1>5. ASSUME NEW a \in AllAttr, Taken(x, a, old[a])
        PROVE  /\ d.meta[a].version = x.meta[a].version
               /\ d.meta[a].orig = x.meta[a].orig /\ d.meta[a].usn = x.meta[a].usn
               /\ d.meta[a].localUsn = nextUsn[c]
    <2>1. x.meta[a] \in Meta
      BY <1>5, PageMetaType DEF Taken
    <2> QED
      BY <1>4, <1>5, <2>1 DEF Meta
  <1> QED
    BY <1>2, <1>3, <1>4, <1>5 DEF AppliedStep

-----------------------------------------------------------------------------
(* Every change is known *)

LEMMA KnownStays ==
    ASSUME NEW e, NEW a, NEW m, NEW n, NEW W, NEW V, W \subseteq V, Known(e, a, m, W),
           n.version = m.version, n.orig = m.orig, n.usn = m.usn
    PROVE  Known(e, a, n, V)
  BY DEF Known, Made

LEMMA KnownPageStays ==
    ASSUME NEW x, NEW W, NEW V, W \subseteq V, KnownPage(x, W)
    PROVE  KnownPage(x, V)
  BY KnownStays DEF KnownPage

LEMMA IsWriteStays ==
    ASSUME Inv, Grows, nextUsn' \in UsnVector, NEW w, IsWrite(w, nextUsn)
    PROVE  IsWrite(w, nextUsn')
  BY DEF Inv, TypesOK, UsnVector, Grows, IsWrite

\* The entry that is stored is known, and the queues are.
LEMMA KnownStored ==
    ASSUME Inv, Inv', KnownOK, NEW s \in Server, NEW e \in Entry, NEW d, Stored(s, e, d),
           writes \subseteq writes', WritesOK',
           \A a \in AllAttr : Known(e, a, d.meta[a], writes'),
           e \in Initial => d.meta["usnCreated"].version > 0, KnownPages'
    PROVE  KnownOK'
  <1>1. KnownDb'
    <2>1. ASSUME NEW t \in Server, NEW f \in Entry, NEW a \in AllAttr
          PROVE  Known(f, a, db'[t][f].meta[a], writes')
      <3>1. CASE t = s /\ f = e
        BY <3>1, StoredIs
      <3>2. CASE ~(t = s /\ f = e)
        <4>1. db'[t][f] = db[t][f] /\ Known(f, a, db[t][f].meta[a], writes)
          BY <3>2, StoredIs DEF KnownOK, KnownDb
        <4> QED
          BY <4>1, KnownStays
      <3> QED
        BY <3>1, <3>2
    <2> QED
      BY <2>1 DEF KnownDb
  <1>2. InitialHeld'
    <2>1. ASSUME NEW t \in Server, NEW f \in Initial
          PROVE  db'[t][f].meta["usnCreated"].version > 0
      <3>1. f \in Entry /\ db[t][f].meta["usnCreated"].version > 0
        BY EntryAssumption DEF KnownOK, InitialHeld
      <3> QED
        BY <3>1, StoredIs
    <2> QED
      BY <2>1 DEF InitialHeld
  <1> QED
    BY <1>1, <1>2 DEF KnownOK

LEMMA KnownLocal ==
    ASSUME Inv, Inv', KnownOK, NEW s \in Server, NEW e \in Entry, NEW d, NEW w,
           LocalStep(s, e, d, w)
    PROVE  KnownOK'
  <1>1. /\ Stored(s, e, d) /\ writes' = writes \cup {w} /\ cycle' = cycle
        /\ w.entry = e /\ w.orig = s /\ w.usn = nextUsn[s] /\ nextUsn[s] \in Nat
        /\ nextUsn'[s] = nextUsn[s] + 1 /\ Grows
    BY StoredIs DEF LocalStep
  <1>2. e \in Initial => \A t \in Server : Exists(t, e)
    <2>1. ASSUME e \in Initial, NEW t \in Server PROVE Exists(t, e)
      BY <2>1, HeldIs DEF KnownOK, InitialHeld, Unset, AllAttr
    <2> QED
      BY <2>1
  <1>3. WritesOK'
    <2>1. IsWrite(w, nextUsn')
      BY <1>1, <1>2 DEF LocalStep, IsWrite
    <2>2. nextUsn' \in UsnVector
      BY DEF Inv, TypesOK
    <2>3. \A x \in writes : IsWrite(x, nextUsn')
      BY <1>1, <2>2, IsWriteStays DEF KnownOK, WritesOK
    <2> QED
      BY <1>1, <2>1, <2>3 DEF WritesOK
  <1>4. ASSUME NEW a \in AllAttr PROVE Known(e, a, d.meta[a], writes')
    <2>1. CASE d.meta[a] = db[s][e].meta[a]
      BY <1>1, <2>1, KnownStays DEF KnownOK, KnownDb
    <2>2. CASE Unset(d.meta[a])
      BY <2>2 DEF Unset, Known
    <2>3. CASE Own(s, a, d.meta[a], w)
      BY <1>1, <2>3 DEF Own, Known, Made
    <2> QED
      BY <2>1, <2>2, <2>3 DEF LocalStep
  <1>5. e \in Initial => d.meta["usnCreated"].version > 0
    BY <1>2 DEF LocalStep, KnownOK, InitialHeld
  <1>6. KnownPages'
    BY <1>1, KnownPageStays DEF KnownOK, KnownPages
  <1> QED
    BY <1>1, <1>3, <1>4, <1>5, <1>6, KnownStored

LEMMA KnownApplied ==
    ASSUME Inv, Inv', KnownOK, NEW c \in Server, NEW x \in AnyPageEntry, NEW d,
           AppliedStep(c, x, d), KnownPage(x, writes), Fits(x, nextUsn, Dead),
           writes' = writes, KnownPages'
    PROVE  KnownOK'
  <1>1. PICK e \in Entry : e = x.entry
    BY DEF AnyPageEntry
  <1>2. Stored(c, e, d) /\ Grows /\ nextUsn' \in UsnVector
    BY <1>1, StoredIs DEF AppliedStep, Inv, TypesOK
  <1>3. WritesOK'
    BY <1>2, IsWriteStays DEF KnownOK, WritesOK
  <1>4. ASSUME NEW a \in AllAttr PROVE Known(e, a, d.meta[a], writes')
    <2>1. CASE d.meta[a] = db[c][e].meta[a]
      BY <2>1, KnownStays DEF KnownOK, KnownDb
    <2>2. CASE /\ a \in DOMAIN x.meta /\ d.meta[a].version = x.meta[a].version
               /\ d.meta[a].orig = x.meta[a].orig /\ d.meta[a].usn = x.meta[a].usn
      <3>1. Known(e, a, x.meta[a], writes)
        BY <1>1, <2>2 DEF KnownPage
      <3> QED
        BY <2>2, <3>1, KnownStays
    <2> QED
      BY <1>1, <2>1, <2>2 DEF AppliedStep, Taken
  <1>5. e \in Initial => d.meta["usnCreated"].version > 0
    <2>1. "usnCreated" \in AllAttr
      BY DEF AllAttr
    <2> QED
      BY <1>1, <2>1 DEF AppliedStep, Taken, Fits, KnownOK, InitialHeld
  <1> QED
    BY <1>1, <1>2, <1>3, <1>4, <1>5, KnownStored

\* A step that changes one cycle, and no entry.
LEMMA KnownCycle ==
    ASSUME Inv, KnownOK, UNCHANGED <<db, nextUsn, writes>>, NEW c \in Server, NEW k,
           cycle' = [cycle EXCEPT ![c] = k],
           \A x \in k.failed \cup k.page.entries : KnownPage(x, writes)
    PROVE  KnownOK'
  <1>1. WritesOK' /\ KnownDb' /\ InitialHeld'
    BY DEF KnownOK, WritesOK, KnownDb, InitialHeld
  <1>2. KnownPages'
    BY CycleNow DEF KnownOK, KnownPages
  <1> QED
    BY <1>1, <1>2 DEF KnownOK

\* What the queues of c hold is known.
LEMMA KnownNow ==
    ASSUME KnownOK, NEW c \in Server
    PROVE  \A x \in cycle[c].failed \cup cycle[c].page.entries : KnownPage(x, writes)
  BY DEF KnownOK, KnownPages

LEMMA ReceivedSame ==
    ASSUME NEW c, NEW x \in AnyPageEntry
    PROVE  /\ Received(c, x).meta = x.meta /\ Received(c, x).entry = x.entry
           /\ Received(c, x).deleted = x.deleted /\ Received(c, x).usn = x.usn
  BY DEF Received, AnyPageEntry

LEMMA KnownSearch ==
    ASSUME Inv, KnownOK, NEW c \in Server, Search(c)
    PROVE  KnownOK'
  <1>1. PICK p \in Server, k \in AnyCycle :
             /\ cycle' = [cycle EXCEPT ![c] = k] /\ k.failed = cycle[c].failed
             /\ k.page.entries =
                  {PageEntry(c, p, e) : e \in Examined(c, p) \cap Sendable(c, p)}
    BY SearchIs
  <1>2. ASSUME NEW e \in Sendable(c, p) PROVE KnownPage(PageEntry(c, p, e), writes)
    <2>1. /\ e \in Entry /\ PageEntry(c, p, e).entry = e
          /\ InScope(c, p, e) \subseteq AllAttr
          /\ PageEntry(c, p, e).meta = [a \in InScope(c, p, e) |-> db[p][e].meta[a]]
      BY DEF Sendable, Candidate, PageEntry, InScope
    <2> QED
      BY <2>1 DEF KnownPage, KnownOK, KnownDb
  <1>3. \A x \in k.failed \cup k.page.entries : KnownPage(x, writes)
    BY <1>1, <1>2, KnownNow
  <1>4. UNCHANGED <<db, nextUsn, writes>>
    BY DEF Search
  <1> QED
    BY <1>1, <1>3, <1>4, KnownCycle

LEMMA KnownEnd ==
    ASSUME Inv, KnownOK, UNCHANGED <<db, nextUsn, writes>>, NEW c \in Server, EndCycle(c)
    PROVE  KnownOK'
  <1>1. NoCycle.failed = {} /\ NoCycle.page.entries = {}
    BY DEF NoCycle, NoPage
  <1> QED
    BY <1>1, KnownCycle DEF EndCycle

LEMMA KnownBegin ==
    ASSUME Inv, KnownOK, NEW c \in Server, NEW p \in Server, BeginCycle(c, p)
    PROVE  KnownOK'
  <1>1. PICK k \in AnyCycle : /\ cycle' = [cycle EXCEPT ![c] = k] /\ k.page = NoPage
                              /\ k.failed = {}
    BY BeginIs
  <1>2. NoPage.entries = {} /\ UNCHANGED <<db, nextUsn, writes>>
    BY DEF NoPage, BeginCycle
  <1> QED
    BY <1>1, <1>2, KnownCycle

LEMMA KnownReply ==
    ASSUME Inv, KnownOK, NEW c \in Server, Reply(c)
    PROVE  KnownOK'
  <1>1. PICK k \in AnyCycle :
             /\ cycle' = [cycle EXCEPT ![c] = k] /\ k.failed = cycle[c].failed
             /\ k.page.entries = cycle[c].page.entries
    BY ReplyIs
  <1>2. UNCHANGED <<db, nextUsn, writes>>
    BY DEF Reply
  <1> QED
    BY <1>1, <1>2, KnownNow, KnownCycle

LEMMA KnownPageDone ==
    ASSUME Inv, KnownOK, NEW c \in Server, PageDone(c)
    PROVE  KnownOK'
  <1>1. UNCHANGED <<db, nextUsn, writes>> /\ NoPage.entries = {}
    BY DEF PageDone, NoPage
  <1>2. CASE EndCycle(c)
    BY <1>1, <1>2, KnownEnd
  <1>3. ASSUME NEW k \in AnyCycle, cycle' = [cycle EXCEPT ![c] = k],
               k.failed = cycle[c].failed, k.page = NoPage
        PROVE  KnownOK'
    BY <1>1, <1>3, KnownNow, KnownCycle
  <1> QED
    BY <1>2, <1>3, PageDoneIs

\* The step of a cycle alone.
LEMMA SaveUtdIs ==
    ASSUME Inv, NEW c \in Server, SaveUtd(c)
    PROVE  \E k \in AnyCycle :
             /\ cycle' = [cycle EXCEPT ![c] = k]
             /\ cycle[c].step = "saveUtd" /\ k.step = "saveHwm"
             /\ k.partner = cycle[c].partner /\ k.last = cycle[c].last
             /\ k.utd = cycle[c].utd /\ k.failed = cycle[c].failed
             /\ k.added = cycle[c].added /\ k.page = cycle[c].page
  <1>1. PICK k : k = [cycle[c] EXCEPT !.step = "saveHwm"]
    OBVIOUS
  <1>2. /\ k \in AnyCycle /\ k.step = "saveHwm" /\ k.partner = cycle[c].partner
        /\ k.last = cycle[c].last /\ k.utd = cycle[c].utd /\ k.page = cycle[c].page
        /\ k.failed = cycle[c].failed /\ k.added = cycle[c].added
    BY <1>1, CycleNow DEF AnyCycle
  <1>3. cycle' = [cycle EXCEPT ![c] = k] /\ cycle[c].step = "saveUtd"
    BY <1>1, CycleNow DEF SaveUtd
  <1> QED
    BY <1>2, <1>3

LEMMA KnownSaveUtd ==
    ASSUME Inv, KnownOK, NEW c \in Server, SaveUtd(c)
    PROVE  KnownOK'
  <1>1. PICK k \in AnyCycle :
             /\ cycle' = [cycle EXCEPT ![c] = k] /\ k.failed = cycle[c].failed
             /\ k.page = cycle[c].page
    BY SaveUtdIs
  <1>2. UNCHANGED <<db, nextUsn, writes>>
    BY DEF SaveUtd
  <1> QED
    BY <1>1, <1>2, KnownNow, KnownCycle

LEMMA KnownApply ==
    ASSUME Inv, Inv', KnownOK, NEW c \in Server, NEW x \in cycle[c].page.entries, Apply(c, x)
    PROVE  KnownOK'
  <1>1. x \in AnyPageEntry /\ Fits(x, nextUsn, Dead) /\ KnownPage(x, writes)
    BY CycleNow, CycleParts, PageParts, KnownNow DEF CycleFits
  <1>2. PICK y \in AnyPageEntry : y = Received(c, x) /\ Fits(y, nextUsn, Dead)
    BY <1>1, ReceivedIs
  <1>3. KnownPage(y, writes)
    BY <1>1, <1>2, ReceivedSame DEF KnownPage
  <1>4. PICK k \in AnyCycle :
             /\ cycle' = [cycle EXCEPT ![c] = k]
             /\ \/ k.failed = cycle[c].failed
                \/ k.failed = cycle[c].failed \cup {Received(c, x)}
             /\ k.page.entries = cycle[c].page.entries \ {x}
    BY ApplyIs
  <1>5. \A z \in k.failed \cup k.page.entries : KnownPage(z, writes)
    BY <1>2, <1>3, <1>4, KnownNow
  <1>6. writes' = writes
    BY DEF Apply
  <1>7. CASE Applicable(c, y)
    <2>1. ApplyEntry(c, y)
      BY <1>2, <1>7 DEF Apply
    <2>2. PICK d : AppliedStep(c, y, d)
      BY <2>1, AppliedIs
    <2>3. KnownPages'
      BY <1>4, <1>5, <1>6, CycleNow DEF KnownOK, KnownPages
    <2> QED
      BY <1>2, <1>3, <1>6, <2>2, <2>3, KnownApplied
  <1>8. CASE ~Applicable(c, y)
    <2>1. UNCHANGED <<db, nextUsn>>
      BY <1>2, <1>8 DEF Apply
    <2> QED
      BY <1>4, <1>5, <1>6, <2>1, KnownCycle
  <1> QED
    BY <1>7, <1>8

LEMMA KnownReapply ==
    ASSUME Inv, Inv', KnownOK, NEW c \in Server, NEW x \in cycle[c].failed, Reapply(c, x)
    PROVE  KnownOK'
  <1>1. x \in AnyPageEntry /\ Fits(x, nextUsn, Dead) /\ KnownPage(x, writes)
    BY CycleNow, CycleParts, KnownNow DEF CycleFits
  <1>2. PICK k \in AnyCycle :
             /\ cycle' = [cycle EXCEPT ![c] = k]
             /\ k.failed = cycle[c].failed \ {x} /\ k.page = cycle[c].page
    BY ReapplyIs
  <1>3. \A z \in k.failed \cup k.page.entries : KnownPage(z, writes)
    BY <1>2, KnownNow
  <1>4. PICK d : AppliedStep(c, x, d)
    BY <1>1, AppliedIs DEF Reapply
  <1>5. writes' = writes
    BY DEF Reapply
  <1>6. KnownPages'
    BY <1>2, <1>3, <1>5, CycleNow DEF KnownOK, KnownPages
  <1> QED
    BY <1>1, <1>4, <1>5, <1>6, KnownApplied

-----------------------------------------------------------------------------
(* What the marks cover *)

LEMMA BehindStored ==
    ASSUME Inv, NEW s \in Server, NEW e \in Entry, NEW d, Stored(s, e, d),
           NEW c \in Server, NEW p \in Server, NEW n \in Nat, n < nextUsn[p], NEW u, NEW v,
           Behind(db[p], c, n, u, v)
    PROVE  Behind(db'[p], c, n, u, v)
  <1>1. ASSUME NEW f \in Entry, NEW a \in AllAttr, db'[p][f].usnChanged <= n
        PROVE  \/ Covered(c, db'[p][f].meta[a], u)
               \/ Covered(c, db'[p][f].meta[a], v)
    <2>1. CASE p = s /\ f = e
      BY <1>1, <2>1, StoredIs
    <2>2. CASE ~(p = s /\ f = e)
      BY <1>1, <2>2, StoredIs DEF Behind
    <2> QED
      BY <2>1, <2>2
  <1> QED
    BY <1>1 DEF Behind

LEMMA DistinctStored ==
    ASSUME Inv, NEW s \in Server, NEW e \in Entry, NEW d, Stored(s, e, d),
           NEW p \in Server, Distinct(db[p])
    PROVE  Distinct(db'[p])
  <1>1. ASSUME NEW f \in Entry, NEW g \in Entry, f # g,
               db'[p][f].usnChanged = db'[p][g].usnChanged
        PROVE  db'[p][f].usnChanged <= 1
    <2>1. /\ db[p][f].usnChanged < nextUsn[p] /\ db[p][g].usnChanged < nextUsn[p]
          /\ db[p][f].usnChanged \in Nat /\ db[p][g].usnChanged \in Nat
      BY HeldIs
    <2>2. CASE p # s \/ (f # e /\ g # e)
      BY <1>1, <2>2, StoredIs DEF Distinct
    <2>3. CASE p = s /\ f = e
      BY <1>1, <2>1, <2>3, StoredIs
    <2>4. CASE p = s /\ g = e
      BY <1>1, <2>1, <2>4, StoredIs
    <2> QED
      BY <2>2, <2>3, <2>4
  <1> QED
    BY <1>1 DEF Distinct

\* The cycles k and j are as far.
AsFar(j, k) ==
    /\ j.step = k.step /\ j.partner = k.partner /\ j.last = k.last /\ j.utd = k.utd
    /\ j.page.hwm = k.page.hwm /\ j.page.utd = k.page.utd

\* An entry is stored: no mark is as far as its number.
LEMMA CoverStored ==
    ASSUME Inv, Inv', CoverOK, NEW s \in Server, NEW e \in Entry, NEW d, Stored(s, e, d),
           UNCHANGED <<utd, hwm>>, \A c \in Server : AsFar(cycle'[c], cycle[c])
    PROVE  CoverOK'
  <1>1. ASSUME NEW c \in Server, NEW p \in Server
        PROVE  hwm'[c][p] >= 1 /\ Behind(db'[p], c, hwm'[c][p], utd'[c], utd'[c])
    <2>1. hwm[c][p] \in Nat /\ hwm[c][p] < nextUsn[p] /\ hwm[c][p] >= 1
      BY DEF Inv, TypesOK, UsnVector, NotAhead, CoverOK, HwmCovers
    <2>2. Behind(db'[p], c, hwm[c][p], utd[c], utd[c])
      BY <2>1, BehindStored DEF CoverOK, HwmCovers
    <2> QED
      BY <2>1, <2>2
  <1>2. ASSUME NEW c \in Server
        PROVE  CoverCycle(db', c, cycle'[c], utd'[c])
    <2>1. AsFar(cycle'[c], cycle[c]) /\ CoverCycle(db, c, cycle[c], utd[c])
      BY DEF CoverOK
    <2>2. CASE cycle[c].step = "none"
      BY <2>1, <2>2 DEF AsFar, CoverCycle
    <2>3. CASE cycle[c].step # "none"
      <3>1. /\ cycle[c].partner \in Server /\ cycle[c].last \in Nat
            /\ cycle[c].last < nextUsn[cycle[c].partner]
            /\ cycle[c].page.hwm \in Nat
            /\ cycle[c].step \in {"search", "apply"} =>
                  cycle[c].page.hwm < nextUsn[cycle[c].partner]
        BY <2>3, CycleNow, CycleParts, PageParts DEF CycleFits
      <3>2. Behind(db'[cycle[c].partner], c, cycle[c].last, cycle[c].utd, cycle[c].utd)
        BY <2>1, <2>3, <3>1, BehindStored DEF CoverCycle
      <3>3. cycle[c].step \in {"search", "apply"} =>
              Behind(db'[cycle[c].partner], c, cycle[c].page.hwm, cycle[c].utd,
                     cycle[c].page.utd)
        BY <2>1, <2>3, <3>1, BehindStored DEF CoverCycle
      <3> QED
        BY <2>1, <2>3, <3>2, <3>3 DEF AsFar, CoverCycle
    <2> QED
      BY <2>2, <2>3
  <1>3. ASSUME NEW p \in Server PROVE nextUsn'[p] >= 2 /\ Distinct(db'[p])
    <2>1. Grows /\ nextUsn[p] \in Nat /\ nextUsn'[p] \in Nat /\ nextUsn[p] >= 2
      BY StoredIs DEF CoverOK, Inv, TypesOK, UsnVector
    <2> QED
      BY <2>1, DistinctStored DEF CoverOK, Grows
  <1> QED
    BY <1>1, <1>2, <1>3 DEF CoverOK, HwmCovers

LEMMA CoverLocal ==
    ASSUME Inv, Inv', CoverOK, NEW s \in Server, NEW e \in Entry, NEW d, NEW w,
           LocalStep(s, e, d, w)
    PROVE  CoverOK'
  <1>1. \A c \in Server : AsFar(cycle'[c], cycle[c])
    BY DEF LocalStep, AsFar
  <1> QED
    BY <1>1, CoverStored DEF LocalStep

LEMMA CoverApplied ==
    ASSUME Inv, Inv', CoverOK, NEW c \in Server, NEW x \in AnyPageEntry, NEW d,
           AppliedStep(c, x, d), NEW k \in AnyCycle, cycle' = [cycle EXCEPT ![c] = k],
           AsFar(k, cycle[c]), UNCHANGED <<utd, hwm>>
    PROVE  CoverOK'
  <1>1. x.entry \in Entry
    BY DEF AnyPageEntry
  <1>2. \A b \in Server : AsFar(cycle'[b], cycle[b])
    BY CycleNow DEF AsFar
  <1> QED
    BY <1>1, <1>2, CoverStored DEF AppliedStep

\* A step that changes one cycle, and no entry or mark.
LEMMA CoverOne ==
    ASSUME Inv, CoverOK, UNCHANGED <<db, nextUsn, utd, hwm>>, NEW c \in Server, NEW k,
           cycle' = [cycle EXCEPT ![c] = k], CoverCycle(db, c, k, utd[c])
    PROVE  CoverOK'
  <1>1. ASSUME NEW b \in Server PROVE CoverCycle(db, b, cycle'[b], utd[b])
    BY CycleNow DEF CoverOK
  <1>2. HwmCovers' /\ \A s \in Server : nextUsn'[s] >= 2 /\ Distinct(db'[s])
    BY DEF CoverOK, HwmCovers
  <1>3. \A b \in Server : CoverCycle(db', b, cycle'[b], utd'[b])
    BY <1>1
  <1> QED
    BY <1>2, <1>3 DEF CoverOK

-----------------------------------------------------------------------------
(* The search and the marks *)

LEMMA HighestTop ==
    ASSUME NEW T \in SUBSET Nat, T # {}, NEW n \in Nat, \A b \in T : b < n
    PROVE  \A b \in T : b <= (CHOOSE u \in T : \A v \in T : v <= u)
  BY HighestExists

\* What the candidates are, and the order in which they are looked at.
LEMMA CandidateIs ==
    ASSUME NEW c \in Server, NEW p \in Server
    PROVE  /\ Candidate(c, p) \subseteq Entry
           /\ Sendable(c, p) \subseteq Candidate(c, p)
           /\ Examined(c, p) \subseteq Candidate(c, p)
           /\ IsFiniteSet(Sendable(c, p))
           /\ \A e \in Entry : IsFiniteSet(UpTo(p, Sendable(c, p), e))
  <1>1. /\ Candidate(c, p) \subseteq Entry /\ Sendable(c, p) \subseteq Candidate(c, p)
        /\ Examined(c, p) \subseteq Candidate(c, p)
        /\ \A e \in Entry : UpTo(p, Sendable(c, p), e) \subseteq Sendable(c, p)
    BY DEF Candidate, Sendable, Examined, UpTo
  <1>2. IsFiniteSet(Sendable(c, p))
    BY <1>1, EntryAssumption, FS_Subset
  <1>3. ASSUME NEW e \in Entry PROVE IsFiniteSet(UpTo(p, Sendable(c, p), e))
    BY <1>1, <1>2, FS_Subset
  <1> QED
    BY <1>1, <1>2, <1>3

LEMMA ExaminedInOrder ==
    ASSUME Inv, CoverOK, NEW c \in Server, NEW p \in Server, cycle[c].last >= 1,
           NEW f \in Examined(c, p), NEW e \in Candidate(c, p),
           db[p][e].usnChanged <= db[p][f].usnChanged
    PROVE  e \in Examined(c, p)
  <1>1. /\ e \in Entry /\ f \in Candidate(c, p) /\ f \in Entry
        /\ IsFiniteSet(UpTo(p, Sendable(c, p), f))
    BY CandidateIs
  <1>2. CASE e = f
    BY <1>2
  <1>3. CASE e # f
    <2>1. /\ db[p][e].usnChanged \in Nat /\ db[p][f].usnChanged \in Nat
          /\ db[p][e].usnChanged > cycle[c].last /\ cycle[c].last \in Nat
      BY <1>1, HeldIs, CycleNow, CycleParts DEF Candidate
    <2>2. db[p][e].usnChanged < db[p][f].usnChanged
      BY <1>1, <1>3, <2>1 DEF CoverOK, Distinct
    <2>3. UpTo(p, Sendable(c, p), e) \ {e} \subseteq UpTo(p, Sendable(c, p), f) \ {f}
      <3>1. ASSUME NEW h \in Sendable(c, p), db[p][h].usnChanged <= db[p][e].usnChanged
            PROVE  db[p][h].usnChanged <= db[p][f].usnChanged /\ h # f
        <4>1. h \in Entry
          BY CandidateIs
        <4>2. db[p][h].usnChanged \in Nat
          BY <4>1, HeldIs
        <4> QED
          BY <2>1, <2>2, <3>1, <4>2
      <3> QED
        BY <3>1 DEF UpTo
    <2>4. IsFiniteSet(UpTo(p, Sendable(c, p), f) \ {f})
      BY <1>1, FS_RemoveElement
    <2>5. /\ IsFiniteSet(UpTo(p, Sendable(c, p), e) \ {e})
          /\ Cardinality(UpTo(p, Sendable(c, p), e) \ {e})
               <= Cardinality(UpTo(p, Sendable(c, p), f) \ {f})
      BY <2>3, <2>4, FS_Subset
    <2>6. /\ Cardinality(UpTo(p, Sendable(c, p), e) \ {e}) \in Nat
          /\ Cardinality(UpTo(p, Sendable(c, p), f) \ {f}) \in Nat
      BY <2>4, <2>5, FS_CardinalityType
    <2>7. Cardinality(UpTo(p, Sendable(c, p), f) \ {f}) < PageSize
      BY DEF Examined
    <2>8. Cardinality(UpTo(p, Sendable(c, p), e) \ {e}) < PageSize
      BY <2>5, <2>6, <2>7, BoundAssumption
    <2> QED
      BY <2>8 DEF Examined
  <1> QED
    BY <1>2, <1>3

\* The page goes up to an entry that was looked at.
LEMMA PageHwmTop ==
    ASSUME Inv, NEW c \in Server, NEW p \in Server, cycle[c].last < nextUsn[p]
    PROVE  /\ PageHwm(c, p) >= cycle[c].last
           /\ \A e \in Examined(c, p) : db[p][e].usnChanged <= PageHwm(c, p)
           /\ \/ PageHwm(c, p) = cycle[c].last
              \/ \E e \in Examined(c, p) : PageHwm(c, p) = db[p][e].usnChanged
  <1>0. cycle[c].last \in Nat /\ nextUsn[p] \in Nat
    BY CycleNow, CycleParts DEF UsnVector
  <1>1. PICK T : T = {db[p][e].usnChanged : e \in Examined(c, p)} \cup {cycle[c].last}
    OBVIOUS
  <1>2. Examined(c, p) \subseteq Entry
    BY CandidateIs
  <1>3. T \in SUBSET Nat /\ T # {} /\ \A b \in T : b < nextUsn[p]
    BY <1>0, <1>1, <1>2, HeldIs
  <1>4. PICK h : h = CHOOSE u \in T : \A v \in T : v <= u
    OBVIOUS
  <1>5. h \in T /\ \A b \in T : b <= h
    <2>1. h \in T
      BY <1>0, <1>3, <1>4, HighestIs
    <2>2. \A b \in T : b <= h
      BY <1>0, <1>3, <1>4, HighestTop
    <2> QED
      BY <2>1, <2>2
  <1>6. PageHwm(c, p) = h
    BY <1>1, <1>4 DEF PageHwm
  <1>7. h \in Nat /\ h >= cycle[c].last
    BY <1>0, <1>1, <1>3, <1>5
  <1> QED
    BY <1>1, <1>5, <1>6, <1>7

\* The page's vector covers all that was looked at.
LEMMA PageUtdTop ==
    ASSUME Inv, NEW c \in Server, NEW p \in Server, NEW o \in Server
    PROVE  /\ PageUtd(c, p)[o] >= utd[c][o]
           /\ \A e \in Examined(c, p) : \A a \in AllAttr :
                 Uncovered(c, db[p][e].meta[a]) /\ db[p][e].meta[a].orig = o
                     => db[p][e].meta[a].usn <= PageUtd(c, p)[o]
           /\ \/ PageUtd(c, p)[o] = utd[c][o]
              \/ \E e \in Examined(c, p) : \E a \in AllAttr :
                    /\ Uncovered(c, db[p][e].meta[a]) /\ db[p][e].meta[a].orig = o
                    /\ PageUtd(c, p)[o] = db[p][e].meta[a].usn
  <1>1. PICK M : M = {db[p][x[1]].meta[x[2]] : x \in Examined(c, p) \X AllAttr}
    OBVIOUS
  <1>2. \A e \in Examined(c, p) : \A a \in AllAttr : db[p][e].meta[a] \in M
    <2>1. ASSUME NEW e \in Examined(c, p), NEW a \in AllAttr
          PROVE  db[p][e].meta[a] \in M
      <3>1. <<e, a>> \in Examined(c, p) \X AllAttr
        OBVIOUS
      <3> QED
        BY <1>1, <3>1
    <2> QED
      BY <2>1
  <1>3. ASSUME NEW m \in M
        PROVE  /\ m \in Meta /\ GivenOut(m, nextUsn)
               /\ \E e \in Examined(c, p) : \E a \in AllAttr : m = db[p][e].meta[a]
    <2>1. PICK x \in Examined(c, p) \X AllAttr : m = db[p][x[1]].meta[x[2]]
      BY <1>1
    <2>2. x[1] \in Examined(c, p) /\ x[1] \in Entry /\ x[2] \in AllAttr
      BY <2>1, CandidateIs
    <2> QED
      BY <2>1, <2>2, HeldIs
  <1>4. PICK T : T = {m.usn : m \in {k \in M : Uncovered(c, k) /\ k.orig = o}}
                        \cup {utd[c][o]}
    OBVIOUS
  <1>5. utd[c][o] \in Nat /\ utd[c][o] < nextUsn[o] /\ nextUsn[o] \in Nat
    BY DEF Inv, TypesOK, UsnVector, NotAhead
  <1>6. ASSUME NEW m \in M, m.orig = o PROVE m.usn \in Nat /\ m.usn < nextUsn[o]
    BY <1>3, <1>6 DEF Meta, GivenOut
  <1>7. T \in SUBSET Nat /\ T # {} /\ \A b \in T : b < nextUsn[o]
    BY <1>4, <1>5, <1>6
  <1>8. PICK h : h = CHOOSE u \in T : \A v \in T : v <= u
    OBVIOUS
  <1>9. h \in T /\ \A b \in T : b <= h
    <2>1. h \in T
      BY <1>5, <1>7, <1>8, HighestIs
    <2>2. \A b \in T : b <= h
      BY <1>5, <1>7, <1>8, HighestTop
    <2> QED
      BY <2>1, <2>2
  <1>10. PageUtd(c, p)[o] = h
    BY <1>1, <1>4, <1>8 DEF PageUtd
  <1>11. h \in Nat /\ h >= utd[c][o]
    BY <1>4, <1>5, <1>7, <1>9
  <1>12. ASSUME NEW e \in Examined(c, p), NEW a \in AllAttr,
                Uncovered(c, db[p][e].meta[a]), db[p][e].meta[a].orig = o
         PROVE  db[p][e].meta[a].usn <= h
    <2>1. db[p][e].meta[a].usn \in T
      BY <1>2, <1>4, <1>12
    <2> QED
      BY <1>9, <2>1
  <1>13. h = utd[c][o] \/ \E m \in M : Uncovered(c, m) /\ m.orig = o /\ h = m.usn
    BY <1>4, <1>9
  <1>14. h = utd[c][o] \/ \E e \in Examined(c, p) : \E a \in AllAttr :
                    /\ Uncovered(c, db[p][e].meta[a]) /\ db[p][e].meta[a].orig = o
                    /\ h = db[p][e].meta[a].usn
    BY <1>3, <1>13
  <1> QED
    BY <1>10, <1>11, <1>12, <1>14

LEMMA CoverSearch ==
    ASSUME Inv, KnownOK, CoverOK, NEW c \in Server, Search(c)
    PROVE  CoverOK'
  <1>1. PICK p \in Server, k \in AnyCycle :
             /\ cycle' = [cycle EXCEPT ![c] = k]
             /\ cycle[c].step = "request" /\ k.step = "search"
             /\ p = cycle[c].partner /\ k.partner = p /\ k.last = cycle[c].last
             /\ k.utd = cycle[c].utd
             /\ k.page.hwm = PageHwm(c, p) /\ k.page.utd = PageUtd(c, p)
    BY SearchIs
  <1>2. /\ cycle[c].last >= 1 /\ Behind(db[p], c, cycle[c].last, cycle[c].utd, cycle[c].utd)
        /\ \A o \in Server : utd[c][o] <= cycle[c].utd[o]
    BY <1>1 DEF CoverOK, CoverCycle
  <1>3. /\ cycle[c].last \in Nat /\ cycle[c].last < nextUsn[p]
        /\ cycle[c].utd \in UsnVector /\ utd[c] \in UsnVector
    BY <1>1, CycleNow, CycleParts DEF CycleFits, Inv, TypesOK
  <1>4. Behind(db[p], c, PageHwm(c, p), cycle[c].utd, PageUtd(c, p))
    <2>1. ASSUME NEW e \in Entry, NEW a \in AllAttr, db[p][e].usnChanged <= PageHwm(c, p)
          PROVE  \/ Covered(c, db[p][e].meta[a], cycle[c].utd)
                 \/ Covered(c, db[p][e].meta[a], PageUtd(c, p))
      <3>1. CASE db[p][e].usnChanged <= cycle[c].last
        BY <1>2, <3>1 DEF Behind
      <3>2. CASE ~(db[p][e].usnChanged <= cycle[c].last)
        <4>1. db[p][e].usnChanged > cycle[c].last /\ db[p][e].usnChanged \in Nat
          BY <1>3, <3>2, HeldIs
        <4>2. e \in Candidate(c, p)
          BY <4>1 DEF Candidate
        <4>3. e \in Examined(c, p)
          BY <1>2, <1>3, <2>1, <4>1, <4>2, PageHwmTop, ExaminedInOrder
        <4>4. db[p][e].meta[a] \in Meta
          BY HeldIs
        <4>5. PICK m \in Meta : m = db[p][e].meta[a]
          BY <4>4
        <4>6. m.version > 0 => m.orig \in Server
          BY <4>5 DEF KnownOK, KnownDb, Known
        <4>7. CASE Uncovered(c, m)
          <5>1. m.orig \in Server
            BY <4>6, <4>7 DEF Uncovered
          <5>2. m.usn <= PageUtd(c, p)[m.orig]
            BY <4>3, <4>5, <4>7, <5>1, PageUtdTop
          <5> QED
            BY <4>5, <5>2 DEF Covered
        <4>8. CASE ~Uncovered(c, m)
          <5>1. ASSUME m.version > 0, m.orig # c PROVE m.usn <= cycle[c].utd[m.orig]
            <6>1. m.orig \in Server /\ m.usn \in Nat
              BY <4>6, <5>1 DEF Meta
            <6>2. utd[c][m.orig] \in Nat /\ cycle[c].utd[m.orig] \in Nat
                  /\ utd[c][m.orig] <= cycle[c].utd[m.orig]
              BY <1>2, <1>3, <6>1 DEF UsnVector
            <6>3. m.usn <= utd[c][m.orig]
              BY <4>8, <5>1, <6>1, <6>2 DEF Uncovered
            <6> QED
              BY <6>1, <6>2, <6>3
          <5> QED
            BY <4>5, <5>1 DEF Covered
        <4> QED
          BY <4>7, <4>8
      <3> QED
        BY <3>1, <3>2
    <2> QED
      BY <2>1 DEF Behind
  <1>5. CoverCycle(db, c, k, utd[c])
    BY <1>1, <1>2, <1>4 DEF CoverCycle
  <1>6. UNCHANGED <<db, nextUsn, utd, hwm>>
    BY DEF Search
  <1> QED
    BY <1>1, <1>5, <1>6, CoverOne

LEMMA CoverEnd ==
    ASSUME Inv, CoverOK, UNCHANGED <<db, nextUsn, utd, hwm>>, NEW c \in Server, EndCycle(c)
    PROVE  CoverOK'
  <1>1. CoverCycle(db, c, NoCycle, utd[c])
    BY DEF CoverCycle, NoCycle
  <1> QED
    BY <1>1, CoverOne DEF EndCycle

LEMMA CoverBegin ==
    ASSUME Inv, CoverOK, NEW c \in Server, NEW p \in Server, BeginCycle(c, p)
    PROVE  CoverOK'
  <1>1. PICK k \in AnyCycle :
             /\ cycle' = [cycle EXCEPT ![c] = k] /\ k.step = "request"
             /\ k.partner = p /\ k.last = hwm[c][p] /\ k.utd = utd[c]
    BY BeginIs
  <1>2. utd[c] \in [Server -> Nat]
    BY DEF Inv, TypesOK, UsnVector
  <1>3. CoverCycle(db, c, k, utd[c])
    BY <1>1, <1>2 DEF CoverCycle, CoverOK, HwmCovers
  <1>4. UNCHANGED <<db, nextUsn, utd, hwm>>
    BY DEF BeginCycle
  <1> QED
    BY <1>1, <1>3, <1>4, CoverOne

LEMMA CoverReply ==
    ASSUME Inv, CoverOK, NEW c \in Server, Reply(c)
    PROVE  CoverOK'
  <1>1. PICK k \in AnyCycle :
             /\ cycle' = [cycle EXCEPT ![c] = k]
             /\ cycle[c].step = "search" /\ k.step = "apply"
             /\ k.partner = cycle[c].partner /\ k.last = cycle[c].last
             /\ k.utd = cycle[c].utd /\ k.page.hwm = cycle[c].page.hwm
             /\ k.page.utd = cycle[c].page.utd
    BY ReplyIs
  <1>2. CoverCycle(db, c, k, utd[c])
    BY <1>1 DEF CoverCycle, CoverOK
  <1>3. UNCHANGED <<db, nextUsn, utd, hwm>>
    BY DEF Reply
  <1> QED
    BY <1>1, <1>2, <1>3, CoverOne

\* A higher vector covers more.
LEMMA CoveredMore ==
    ASSUME NEW c \in Server, NEW m \in Meta, m.version > 0 => m.orig \in Server,
           NEW u \in UsnVector, NEW v \in UsnVector, \A o \in Server : u[o] <= v[o],
           Covered(c, m, u)
    PROVE  Covered(c, m, v)
  BY DEF Covered, UsnVector, Meta

LEMMA AfterMore ==
    ASSUME Inv, NEW c \in Server, cycle[c].step = "apply"
    PROVE  /\ cycle[c].utd \in UsnVector /\ cycle[c].page.utd \in UsnVector
           /\ UtdAfter(c) \in UsnVector
           /\ \A o \in Server : /\ cycle[c].utd[o] <= UtdAfter(c)[o]
                                /\ cycle[c].page.utd[o] <= UtdAfter(c)[o]
                                /\ \/ UtdAfter(c)[o] = cycle[c].utd[o]
                                   \/ UtdAfter(c)[o] = cycle[c].page.utd[o]
           /\ cycle[c].last \in Nat /\ cycle[c].page.hwm \in Nat
           /\ LastAfter(c) >= cycle[c].last /\ LastAfter(c) >= cycle[c].page.hwm
           /\ LastAfter(c) \in {cycle[c].last, cycle[c].page.hwm}
  <1>1. cycle[c].utd \in UsnVector /\ cycle[c].page.utd \in UsnVector
    BY CycleNow DEF CycleFits
  <1>2. UtdAfter(c) \in UsnVector
    BY AfterIs
  <1>3. cycle[c].last \in Nat /\ cycle[c].page.hwm \in Nat
    BY CycleNow, CycleParts, PageParts
  <1>4. /\ LastAfter(c) >= cycle[c].last /\ LastAfter(c) >= cycle[c].page.hwm
        /\ LastAfter(c) \in {cycle[c].last, cycle[c].page.hwm}
    BY <1>3 DEF LastAfter
  <1>5. ASSUME NEW o \in Server
        PROVE  /\ cycle[c].utd[o] <= UtdAfter(c)[o]
               /\ cycle[c].page.utd[o] <= UtdAfter(c)[o]
               /\ \/ UtdAfter(c)[o] = cycle[c].utd[o]
                  \/ UtdAfter(c)[o] = cycle[c].page.utd[o]
    <2>1. UtdAfter(c)[o] = IF cycle[c].page.utd[o] > cycle[c].utd[o]
                           THEN cycle[c].page.utd[o] ELSE cycle[c].utd[o]
      BY DEF UtdAfter
    <2>2. cycle[c].page.utd[o] \in Nat /\ cycle[c].utd[o] \in Nat
      BY <1>1 DEF UsnVector
    <2> QED
      BY <2>1, <2>2
  <1> QED
    BY <1>1, <1>2, <1>3, <1>4, <1>5

LEMMA CoverPageDone ==
    ASSUME Inv, KnownOK, CoverOK, NEW c \in Server, PageDone(c)
    PROVE  CoverOK'
  <1>1. UNCHANGED <<db, nextUsn, utd, hwm>> /\ cycle[c].step = "apply"
    BY DEF PageDone
  <1>2. CASE EndCycle(c)
    BY <1>1, <1>2, CoverEnd
  <1>3. ASSUME NEW k \in AnyCycle, cycle' = [cycle EXCEPT ![c] = k],
               k.step \in {"request", "saveUtd"}, k.partner = cycle[c].partner,
               k.last = LastAfter(c), k.utd = UtdAfter(c)
        PROVE  CoverOK'
    <2>1. PICK p \in Server : p = cycle[c].partner
      BY <1>1, CycleNow, CycleParts DEF CycleFits
    <2>2. /\ Behind(db[p], c, cycle[c].last, cycle[c].utd, cycle[c].utd)
          /\ Behind(db[p], c, cycle[c].page.hwm, cycle[c].utd, cycle[c].page.utd)
          /\ cycle[c].last >= 1 /\ \A o \in Server : utd[c][o] <= cycle[c].utd[o]
      BY <1>1, <2>1 DEF CoverOK, CoverCycle
    <2>3. Behind(db[p], c, LastAfter(c), UtdAfter(c), UtdAfter(c))
      <3>1. ASSUME NEW e \in Entry, NEW a \in AllAttr, db[p][e].usnChanged <= LastAfter(c)
            PROVE  Covered(c, db[p][e].meta[a], UtdAfter(c))
        <4>1. \/ Covered(c, db[p][e].meta[a], cycle[c].utd)
              \/ Covered(c, db[p][e].meta[a], cycle[c].page.utd)
          BY <1>1, <2>2, <3>1, AfterMore DEF Behind
        <4>2. PICK m \in Meta : m = db[p][e].meta[a]
          BY HeldIs
        <4>3. m.version > 0 => m.orig \in Server
          BY <4>2 DEF KnownOK, KnownDb, Known
        <4>4. Covered(c, m, cycle[c].utd) \/ Covered(c, m, cycle[c].page.utd)
          BY <4>1, <4>2
        <4>5. Covered(c, m, UtdAfter(c))
          BY <1>1, <4>3, <4>4, AfterMore, CoveredMore
        <4> QED
          BY <4>2, <4>5
      <3> QED
        BY <3>1 DEF Behind
    <2>4. \A o \in Server : utd[c][o] <= UtdAfter(c)[o]
      <3>1. ASSUME NEW o \in Server PROVE utd[c][o] <= UtdAfter(c)[o]
        <4>1. utd[c][o] \in Nat /\ cycle[c].utd[o] \in Nat /\ UtdAfter(c)[o] \in Nat
          BY <1>1, AfterMore DEF Inv, TypesOK, UsnVector
        <4> QED
          BY <1>1, <2>2, <4>1, AfterMore
      <3> QED
        BY <3>1
    <2>5. LastAfter(c) >= 1
      BY <1>1, <2>2, AfterMore
    <2>6. CoverCycle(db, c, k, utd[c])
      BY <1>3, <2>1, <2>3, <2>4, <2>5 DEF CoverCycle
    <2> QED
      BY <1>1, <1>3, <2>6, CoverOne
  <1> QED
    BY <1>2, <1>3, PageDoneIs

LEMMA CoverSaveUtd ==
    ASSUME Inv, KnownOK, CoverOK, NEW c \in Server, SaveUtd(c)
    PROVE  CoverOK'
  <1>1. PICK k \in AnyCycle :
             /\ cycle' = [cycle EXCEPT ![c] = k]
             /\ cycle[c].step = "saveUtd" /\ k.step = "saveHwm"
             /\ k.partner = cycle[c].partner /\ k.last = cycle[c].last
             /\ k.utd = cycle[c].utd
    BY SaveUtdIs
  <1>2. UNCHANGED <<db, nextUsn, hwm>> /\ utd' = [utd EXCEPT ![c] = cycle[c].utd]
    BY DEF SaveUtd
  <1>3. /\ cycle[c].utd \in UsnVector /\ utd \in [Server -> UsnVector]
        /\ \A o \in Server : utd[c][o] <= cycle[c].utd[o]
    BY <1>1, CycleNow DEF CycleFits, Inv, TypesOK, CoverOK, CoverCycle
  <1>4. utd'[c] = cycle[c].utd /\ \A b \in Server : b # c => utd'[b] = utd[b]
    BY <1>2, <1>3
  <1>5. CoverCycle(db, c, k, cycle[c].utd)
    <2>1. \A o \in Server : cycle[c].utd[o] <= cycle[c].utd[o]
      BY <1>3 DEF UsnVector
    <2> QED
      BY <1>1, <2>1 DEF CoverOK, CoverCycle
  <1>6. ASSUME NEW b \in Server PROVE CoverCycle(db', b, cycle'[b], utd'[b])
    BY <1>1, <1>2, <1>4, <1>5, CycleNow DEF CoverOK
  <1>7. ASSUME NEW b \in Server, NEW p \in Server
        PROVE  hwm[b][p] >= 1 /\ Behind(db[p], b, hwm[b][p], utd'[b], utd'[b])
    <2>1. hwm[b][p] >= 1 /\ Behind(db[p], b, hwm[b][p], utd[b], utd[b])
      BY DEF CoverOK, HwmCovers
    <2>2. CASE b # c
      BY <1>4, <2>1, <2>2
    <2>3. CASE b = c
      <3>1. ASSUME NEW e \in Entry, NEW a \in AllAttr, db[p][e].usnChanged <= hwm[c][p]
            PROVE  Covered(c, db[p][e].meta[a], cycle[c].utd)
        <4>1. PICK m \in Meta : m = db[p][e].meta[a]
          BY HeldIs
        <4>2. m.version > 0 => m.orig \in Server
          BY <4>1 DEF KnownOK, KnownDb, Known
        <4>3. Covered(c, m, utd[c]) /\ utd[c] \in UsnVector
          BY <1>3, <2>1, <2>3, <3>1, <4>1 DEF Behind
        <4>4. Covered(c, m, cycle[c].utd)
          BY <1>3, <4>2, <4>3, CoveredMore
        <4> QED
          BY <4>1, <4>4
      <3> QED
        BY <1>4, <2>1, <2>3, <3>1 DEF Behind
    <2> QED
      BY <2>2, <2>3
  <1>8. HwmCovers' /\ \A s \in Server : nextUsn'[s] >= 2 /\ Distinct(db'[s])
    BY <1>2, <1>7 DEF CoverOK, HwmCovers
  <1> QED
    BY <1>6, <1>8 DEF CoverOK

LEMMA CoverSaveHwm ==
    ASSUME Inv, CoverOK, NEW c \in Server, SaveHwm(c)
    PROVE  CoverOK'
  <1>1. PICK p \in Server : p = cycle[c].partner /\ cycle[c].last \in Nat
    BY CycleNow, CycleParts DEF SaveHwm, CycleFits
  <1>2. /\ cycle' = [cycle EXCEPT ![c] = NoCycle]
        /\ UNCHANGED <<db, nextUsn, utd>>
        /\ hwm' = [hwm EXCEPT ![c][p] = cycle[c].last]
    BY <1>1 DEF SaveHwm, EndCycle
  <1>3. /\ cycle[c].last >= 1 /\ Behind(db[p], c, cycle[c].last, utd[c], utd[c])
    BY <1>1 DEF SaveHwm, CoverOK, CoverCycle
  <1>4. CoverCycle(db, c, NoCycle, utd[c])
    BY DEF CoverCycle, NoCycle
  <1>5. ASSUME NEW b \in Server PROVE CoverCycle(db', b, cycle'[b], utd'[b])
    BY <1>2, <1>4, CycleNow DEF CoverOK
  <1>6. ASSUME NEW b \in Server, NEW q \in Server
        PROVE  hwm'[b][q] >= 1 /\ Behind(db[q], b, hwm'[b][q], utd[b], utd[b])
    <2>1. hwm[b][q] >= 1 /\ Behind(db[q], b, hwm[b][q], utd[b], utd[b])
      BY DEF CoverOK, HwmCovers
    <2>2. hwm'[b][q] = hwm[b][q] \/ (b = c /\ q = p /\ hwm'[b][q] = cycle[c].last)
      BY <1>2 DEF Inv, TypesOK, UsnVector
    <2> QED
      BY <1>3, <2>1, <2>2
  <1>7. HwmCovers' /\ \A s \in Server : nextUsn'[s] >= 2 /\ Distinct(db'[s])
    BY <1>2, <1>6 DEF CoverOK, HwmCovers
  <1> QED
    BY <1>5, <1>7 DEF CoverOK

-----------------------------------------------------------------------------
(* The high-water marks *)

LEMMA InitMark == Init => MarkInv
  <1> SUFFICES ASSUME Init PROVE MarkInv
    OBVIOUS
  <1>0. Inv
    BY InitInv
  <1>1. ASSUME NEW s \in Server, NEW e \in Entry
        PROVE  (e \in Initial /\ db[s][e] = Copied) \/ (e \notin Initial /\ db[s][e] = NoEntry)
    BY DEF Init
  <1>2. \A a \in AllAttr : NoEntry.meta[a].version = 0 /\ NoEntry.meta[a].orig = 0
    BY DEF NoEntry, NoMeta
  <1>3. /\ Copied.usnChanged = 1 /\ NoEntry.usnChanged = 0
        /\ \A a \in AllAttr : a # "usnCreated" =>
              Copied.meta[a].version = 0 /\ Copied.meta[a].orig = 0
        /\ Copied.meta["usnCreated"].version = 1 /\ Copied.meta["usnCreated"].orig = Founder
        /\ Copied.meta["usnCreated"].usn = 1
    BY DEF Copied, NoEntry, NoMeta, AllAttr
  <1>4. KnownOK
    <2>1. WritesOK
      BY DEF Init, WritesOK
    <2>2. KnownDb
      <3>1. ASSUME NEW s \in Server, NEW e \in Entry, NEW a \in AllAttr
            PROVE  Known(e, a, db[s][e].meta[a], writes)
        <4>1. Founder \in Server
          BY FounderIs
        <4>2. CASE db[s][e].meta[a].version = 0 /\ db[s][e].meta[a].orig = 0
          BY <4>2 DEF Known
        <4>3. CASE e \in Initial /\ db[s][e] = Copied /\ a = "usnCreated"
          BY <1>3, <4>1, <4>3 DEF Known, Made
        <4> QED
          BY <1>1, <1>2, <1>3, <4>2, <4>3
      <3> QED
        BY <3>1 DEF KnownDb
    <2>3. KnownPages
      BY DEF Init, KnownPages, NoCycle, NoPage
    <2>4. InitialHeld
      BY <1>1, <1>3, EntryAssumption DEF InitialHeld
    <2> QED
      BY <2>1, <2>2, <2>3, <2>4 DEF KnownOK
  <1>5. CoverOK
    <2>1. ASSUME NEW c \in Server, NEW p \in Server
          PROVE  hwm[c][p] >= 1 /\ Behind(db[p], c, hwm[c][p], utd[c], utd[c])
      <3>1. hwm[c][p] = 1 /\ \A o \in Server : utd[c][o] = 1
        BY DEF Init
      <3>2. Founder \in Server
        BY FounderIs
      <3>3. ASSUME NEW e \in Entry, NEW a \in AllAttr
            PROVE  Covered(c, db[p][e].meta[a], utd[c])
        BY <1>1, <1>2, <1>3, <3>1, <3>2 DEF Covered
      <3> QED
        BY <3>1, <3>3 DEF Behind
    <2>2. \A c \in Server : CoverCycle(db, c, cycle[c], utd[c])
      BY DEF Init, NoCycle, CoverCycle
    <2>3. \A s \in Server : nextUsn[s] >= 2 /\ Distinct(db[s])
      BY <1>1, <1>3 DEF Init, Distinct
    <2> QED
      BY <2>1, <2>2, <2>3 DEF CoverOK, HwmCovers
  <1> QED
    BY <1>0, <1>4, <1>5 DEF MarkInv

LEMMA MarkStep == MarkInv /\ [Next]_vars => MarkInv'
  <1> SUFFICES ASSUME MarkInv, [Next]_vars PROVE MarkInv'
    OBVIOUS
  <1>0. Inv /\ Inv' /\ KnownOK /\ CoverOK
    BY InvStep DEF MarkInv
  <1>1. ASSUME NEW s \in Server, NEW e \in Entry,
               Add(s, e) \/ Delete(s, e) \/ \E a \in Attr : Modify(s, e, a)
        PROVE  KnownOK' /\ CoverOK'
    <2>1. PICK d, w : LocalStep(s, e, d, w)
      BY <1>0, <1>1, AddIs, DeleteLocal, ModifyLocal
    <2> QED
      BY <1>0, <2>1, KnownLocal, CoverLocal
  <1>2. ASSUME NEW g \in Agreement, BeginCycle(g[1], g[2])
        PROVE  KnownOK' /\ CoverOK'
    <2>1. g[1] \in Server /\ g[2] \in Server
      BY AgreementAssumption
    <2> QED
      BY <1>0, <1>2, <2>1, KnownBegin, CoverBegin
  <1>3. ASSUME NEW c \in Server
        PROVE  /\ Search(c) => KnownOK' /\ CoverOK'
               /\ Reply(c) => KnownOK' /\ CoverOK'
               /\ PageDone(c) => KnownOK' /\ CoverOK'
               /\ SaveUtd(c) => KnownOK' /\ CoverOK'
    BY <1>0, KnownSearch, CoverSearch, KnownReply, CoverReply, KnownPageDone, CoverPageDone,
       KnownSaveUtd, CoverSaveUtd
  <1>4. ASSUME NEW c \in Server, SaveHwm(c)
        PROVE  KnownOK' /\ CoverOK'
    <2>1. KnownOK'
      BY <1>0, <1>4, KnownEnd DEF SaveHwm
    <2> QED
      BY <1>0, <1>4, <2>1, CoverSaveHwm
  <1>5. ASSUME NEW c \in Server, Fail(c)
        PROVE  KnownOK' /\ CoverOK'
    BY <1>0, <1>5, KnownEnd, CoverEnd DEF Fail
  <1>6. ASSUME NEW c \in Server, NEW x \in cycle[c].page.entries, Apply(c, x)
        PROVE  KnownOK' /\ CoverOK'
    <2>1. KnownOK'
      BY <1>0, <1>6, KnownApply
    <2>2. PICK k \in AnyCycle :
             /\ cycle' = [cycle EXCEPT ![c] = k]
             /\ cycle[c].step = "apply" /\ k.step = "apply"
             /\ k.partner = cycle[c].partner /\ k.last = cycle[c].last
             /\ k.utd = cycle[c].utd
             /\ k.page.hwm = cycle[c].page.hwm /\ k.page.utd = cycle[c].page.utd
      BY <1>0, <1>6, ApplyIs
    <2>3. AsFar(k, cycle[c])
      BY <2>2 DEF AsFar
    <2>4. x \in AnyPageEntry /\ Fits(x, nextUsn, Dead)
      BY <1>0, CycleNow, CycleParts, PageParts DEF CycleFits
    <2>5. PICK y \in AnyPageEntry : y = Received(c, x)
      BY <1>0, <2>4, ReceivedIs
    <2>6. UNCHANGED <<utd, hwm>>
      BY <1>6 DEF Apply
    <2>7. CASE Applicable(c, y)
      <3>1. ApplyEntry(c, y)
        BY <1>6, <2>5, <2>7 DEF Apply
      <3>2. PICK d : AppliedStep(c, y, d)
        BY <1>0, <3>1, AppliedIs
      <3> QED
        BY <1>0, <2>1, <2>2, <2>3, <2>6, <3>2, CoverApplied
    <2>8. CASE ~Applicable(c, y)
      <3>1. UNCHANGED <<db, nextUsn>>
        BY <1>6, <2>5, <2>8 DEF Apply
      <3>2. CoverCycle(db, c, k, utd[c])
        BY <1>0, <2>3 DEF CoverOK, CoverCycle, AsFar
      <3> QED
        BY <1>0, <2>1, <2>2, <2>6, <3>1, <3>2, CoverOne
    <2> QED
      BY <2>7, <2>8
  <1>7. ASSUME NEW c \in Server, NEW x \in cycle[c].failed, Reapply(c, x)
        PROVE  KnownOK' /\ CoverOK'
    <2>1. KnownOK'
      BY <1>0, <1>7, KnownReapply
    <2>2. PICK k \in AnyCycle :
             /\ cycle' = [cycle EXCEPT ![c] = k]
             /\ cycle[c].step = "apply" /\ k.step = "apply"
             /\ k.partner = cycle[c].partner /\ k.last = cycle[c].last
             /\ k.utd = cycle[c].utd /\ k.page = cycle[c].page
      BY <1>0, <1>7, ReapplyIs
    <2>3. AsFar(k, cycle[c])
      BY <2>2 DEF AsFar
    <2>4. x \in AnyPageEntry
      BY <1>0, CycleNow, CycleParts
    <2>5. PICK d : AppliedStep(c, x, d)
      BY <1>0, <1>7, <2>4, AppliedIs DEF Reapply
    <2>6. UNCHANGED <<utd, hwm>>
      BY <1>7 DEF Reapply
    <2> QED
      BY <1>0, <2>1, <2>2, <2>3, <2>4, <2>5, <2>6, CoverApplied
  <1>8. ASSUME UNCHANGED vars PROVE KnownOK' /\ CoverOK'
    <2>1. KnownOK'
      BY <1>0, <1>8 DEF vars, KnownOK, WritesOK, KnownDb, KnownPages, InitialHeld
    <2>2. CoverOK'
      BY <1>0, <1>8 DEF vars, CoverOK, HwmCovers
    <2> QED
      BY <2>1, <2>2
  <1>9. KnownOK' /\ CoverOK'
    BY <1>1, <1>2, <1>3, <1>4, <1>5, <1>6, <1>7, <1>8 DEF Next
  <1> QED
    BY <1>0, <1>9 DEF MarkInv

LEMMA MarkHolds == Spec => []MarkInv
  BY InitMark, MarkStep, PTL DEF Spec

\* The mark follows the vector.
LEMMA VectorGivesMark ==
    ASSUME MarkInv, VectorIsTrue
    PROVE  HighWaterIsTrue
  <1>1. SUFFICES ASSUME NEW g \in Agreement, NEW e \in Entry, NEW a \in AllAttr,
                        db[g[2]][e].usnChanged <= hwm[g[1]][g[2]],
                        db[g[2]][e].meta[a].orig # g[1]
                 PROVE  Gone(g[1], e)
                        \/ Supersedes(db[g[1]][e].meta[a], db[g[2]][e].meta[a])
    BY DEF HighWaterIsTrue
  <1>2. PICK c \in Server, p \in Server : c = g[1] /\ p = g[2]
    BY AgreementAssumption
  <1>3. Inv /\ KnownOK /\ CoverOK
    BY DEF MarkInv
  <1>4. PICK m \in Meta : m = db[p][e].meta[a]
    BY <1>3, HeldIs
  <1>5. PICK n \in Meta : n = db[c][e].meta[a]
    BY <1>3, HeldIs
  <1>6. Known(e, a, m, writes) /\ Covered(c, m, utd[c]) /\ m.orig # c
    BY <1>1, <1>2, <1>3, <1>4 DEF KnownOK, KnownDb, CoverOK, HwmCovers, Behind
  <1>7. m.version \in Nat /\ n.version \in Nat /\ n.orig \in Nat
    <2>1. n.orig \in Server \cup {0} /\ m.version \in Nat /\ n.version \in Nat
      BY DEF Meta
    <2>2. Server \subseteq Nat
      BY ServerAssumption
    <2>3. \A x \in Server \cup {0} : x \in Nat
      BY <2>2
    <2> QED
      BY <2>1, <2>3
  <1>8. CASE m.version = 0
    <2>1. m.orig = 0
      BY <1>6, <1>8 DEF Known
    <2>2. Supersedes(n, m)
      BY <1>7, <1>8, <2>1 DEF Supersedes
    <2> QED
      BY <1>2, <1>4, <1>5, <2>2
  <1>9. CASE m.version > 0
    <2>1. m.orig \in Server /\ m.usn <= utd[c][m.orig] /\ Made(e, a, m, writes)
      BY <1>6, <1>9 DEF Known, Covered
    <2>2. ASSUME NEW w \in writes, w.entry = e, w.orig = m.orig, w.usn = m.usn
          PROVE  Gone(c, e) \/ Supersedes(db[c][e].meta[w.attr], w)
      BY <1>6, <2>1, <2>2 DEF VectorIsTrue
    <2>3. ASSUME NEW w \in writes, w.entry = e, w.orig = m.orig, w.usn = m.usn,
                 w.attr = a, w.version = m.version
          PROVE  Gone(c, e) \/ Supersedes(n, m)
      BY <1>5, <2>2, <2>3 DEF Supersedes
    <2>4. ASSUME NEW w \in writes, w.entry = e, w.orig = m.orig, w.usn = m.usn,
                 w.attr = "isDeleted"
          PROVE  Gone(c, e)
      <3>1. w.version \in Nat /\ w.version > 0 /\ w.orig \in Server
        BY <1>3 DEF KnownOK, WritesOK, IsWrite
      <3>2. db[c][e].meta["isDeleted"] \in Meta
        BY <1>3, HeldIs DEF AllAttr
      <3>3. Supersedes(db[c][e].meta["isDeleted"], w) => Deleted(c, e)
        BY <3>1, <3>2 DEF Supersedes, Deleted, Meta
      <3> QED
        BY <2>2, <2>4, <3>3 DEF Gone, Live
    <2>5. ASSUME e \in Initial, a = "usnCreated", m.version = 1, m.orig = Founder
          PROVE  Supersedes(n, m)
      <3>1. n.version > 0
        BY <1>3, <1>5, <2>5 DEF KnownOK, InitialHeld
      <3>2. Made(e, a, n, writes)
        BY <1>3, <1>5, <3>1 DEF KnownOK, KnownDb, Known
      <3>3. \A w \in writes : w.entry = e => w.attr # "usnCreated"
        BY <1>3, <2>5 DEF KnownOK, WritesOK, IsWrite
      <3>4. n.version = 1 /\ n.orig = Founder
        BY <2>5, <3>2, <3>3 DEF Made
      <3> QED
        BY <1>7, <2>5, <3>4 DEF Supersedes
    <2> QED
      BY <1>2, <1>4, <1>5, <2>1, <2>3, <2>4, <2>5 DEF Made
  <1> QED
    BY <1>7, <1>8, <1>9

\* A high-water mark leaves out nothing that the up-to-date vector does not: for all
\* constants, with cycles cut off anywhere and requests at any moment, as long as the
\* vectors are true the marks are true.  What the filter of _VmDirFetchReplicationPage
\* passes over was covered by the vector when VmDirReplCookieUpdate saved the two, and
\* the vector is saved first.
THEOREM HighWaterFollowsVector == Spec => [](VectorIsTrue => HighWaterIsTrue)
  <1>1. MarkInv => (VectorIsTrue => HighWaterIsTrue)
    BY VectorGivesMark
  <1> QED
    BY <1>1, MarkHolds, PTL

-----------------------------------------------------------------------------
(* What a server has, it keeps *)

\* Changes can be compared.
Ordered(m) == m.version \in Nat /\ m.orig \in Nat

LEMMA MetaOrdered ==
    ASSUME NEW m \in Meta
    PROVE  Ordered(m)
  <1>1. Server \cup {0} \subseteq Nat
    BY ServerAssumption
  <1> QED
    BY <1>1 DEF Meta, Ordered

LEMMA WriteOrdered ==
    ASSUME KnownOK, NEW w \in writes
    PROVE  /\ Ordered(w) /\ w.version > 0 /\ w.entry \in Entry /\ w.attr \in AllAttr
           /\ w.orig \in Server /\ w.usn \in Nat /\ w.usn < nextUsn[w.orig]
  <1>1. Server \subseteq Nat
    BY ServerAssumption
  <1> QED
    BY <1>1 DEF KnownOK, WritesOK, IsWrite, Ordered

LEMMA SupersedesTrans ==
    ASSUME NEW l, NEW m, NEW n, Ordered(l), Ordered(m), Ordered(n),
           Supersedes(l, m), Supersedes(m, n)
    PROVE  Supersedes(l, n)
  BY DEF Supersedes, Ordered

LEMMA NotBeaten ==
    ASSUME NEW m, NEW n, Ordered(m), Ordered(n), ~Beats(m, n)
    PROVE  Supersedes(n, m)
  BY DEF Supersedes, Ordered, Beats

LEMMA BeatsWins ==
    ASSUME NEW m, NEW n, Ordered(m), Ordered(n), Beats(m, n)
    PROVE  Supersedes(m, n)
  BY DEF Supersedes, Ordered, Beats

\* What the server holds of the entry gets no less.
Advances(d, f) ==
    /\ Held(d) => Held(f)
    /\ Tomb(d) => Tomb(f)
    /\ \A a \in AllAttr : Tomb(f) \/ Supersedes(f.meta[a], d.meta[a])

LEMMA AdvancesSelf ==
    ASSUME NEW d \in DbEntry
    PROVE  Advances(d, d)
  BY SupersedesSelf DEF Advances, DbEntry

LEMMA SettledStays ==
    ASSUME NEW d \in DbEntry, NEW f \in DbEntry, Advances(d, f), NEW a \in AllAttr,
           NEW m, Ordered(m), Settled(d, a, m)
    PROVE  Settled(f, a, m)
  <1>1. Ordered(d.meta[a]) /\ Ordered(f.meta[a])
    BY MetaOrdered DEF DbEntry
  <1>2. CASE Tomb(d)
    BY <1>2 DEF Advances, Settled
  <1>3. CASE Supersedes(d.meta[a], m)
    BY <1>1, <1>3, SupersedesTrans DEF Advances, Settled
  <1> QED
    BY <1>2, <1>3 DEF Settled

\* A server that has the deletion of an entry has its tombstone.
LEMMA DeletionSettles ==
    ASSUME NEW d \in DbEntry, NEW m, Ordered(m), m.version > 0, Settled(d, "isDeleted", m)
    PROVE  Tomb(d)
  <1>1. d.meta["isDeleted"] \in Meta
    BY DEF DbEntry, AllAttr
  <1> QED
    BY <1>1 DEF Settled, Supersedes, Tomb, Ordered, Meta

LEMMA HeldEntry ==
    ASSUME Inv, NEW s \in Server, NEW e \in Entry
    PROVE  /\ db[s][e] \in DbEntry
           /\ Held(db[s][e]) <=> Exists(s, e)
           /\ Tomb(db[s][e]) <=> Deleted(s, e)
           /\ Tomb(db[s][e]) => Held(db[s][e])
           /\ \A a \in AllAttr : ~Held(db[s][e]) => Unset(db[s][e].meta[a])
           /\ \A a \in AllAttr : db[s][e].meta[a] \in Meta
           /\ \A a \in AllAttr : Ordered(db[s][e].meta[a])
  <1>1. db[s][e] \in DbEntry
    BY DEF Inv, TypesOK
  <1>2. \A a \in AllAttr : ~Held(db[s][e]) => Unset(db[s][e].meta[a])
    BY HeldIs DEF Held, Exists
  <1>3. \A a \in AllAttr : db[s][e].meta[a] \in Meta
    BY HeldIs
  <1>4. Tomb(db[s][e]) => Held(db[s][e])
    BY <1>2 DEF Tomb, Unset, AllAttr
  <1>5. \A a \in AllAttr : Ordered(db[s][e].meta[a])
    BY <1>3, MetaOrdered
  <1> QED
    BY <1>1, <1>2, <1>3, <1>4, <1>5 DEF Held, Tomb, Exists, Deleted

\* A change that is known, and that the vector u of c covers.
LEMMA KnownSettled ==
    ASSUME Inv, KnownOK, NEW c \in Server, NEW u, HasAll(db, c, u, writes),
           NEW e \in Entry, NEW a \in AllAttr, NEW m \in Meta, Known(e, a, m, writes),
           Covered(c, m, u)
    PROVE  Settled(db[c][e], a, m)
  <1>1. PICK n \in Meta : n = db[c][e].meta[a]
    BY HeldIs
  <1>2. Ordered(m) /\ Ordered(n)
    BY MetaOrdered
  <1>3. CASE m.version = 0
    <2>1. m.orig = 0
      BY <1>3 DEF Known
    <2>2. Supersedes(n, m)
      BY <1>2, <1>3, <2>1 DEF Supersedes, Ordered
    <2> QED
      BY <1>1, <2>2 DEF Settled
  <1>4. CASE m.version > 0
    <2>1. m.orig \in Server /\ Made(e, a, m, writes) /\ (m.orig = c \/ m.usn <= u[m.orig])
      BY <1>4 DEF Known, Covered
    <2>2. ASSUME NEW w \in writes, w.entry = e, w.orig = m.orig, w.usn = m.usn
          PROVE  Settled(db[c][e], w.attr, w)
      BY <2>1, <2>2 DEF HasAll
    <2>3. ASSUME NEW w \in writes, w.entry = e, w.orig = m.orig, w.usn = m.usn,
                 w.attr = a, w.version = m.version
          PROVE  Settled(db[c][e], a, m)
      BY <2>2, <2>3 DEF Settled, Supersedes
    <2>4. ASSUME NEW w \in writes, w.entry = e, w.orig = m.orig, w.usn = m.usn,
                 w.attr = "isDeleted"
          PROVE  Settled(db[c][e], a, m)
      <3>1. Settled(db[c][e], "isDeleted", w)
        BY <2>2, <2>4
      <3>2. Tomb(db[c][e])
        BY <3>1, WriteOrdered, HeldEntry, DeletionSettles
      <3> QED
        BY <3>2 DEF Settled
    <2>5. ASSUME e \in Initial, a = "usnCreated", m.version = 1, m.orig = Founder
          PROVE  Settled(db[c][e], a, m)
      <3>1. n.version > 0
        BY <1>1, <2>5 DEF KnownOK, InitialHeld
      <3>2. Made(e, a, n, writes)
        BY <1>1, <3>1 DEF KnownOK, KnownDb, Known
      <3>3. \A w \in writes : w.entry = e => w.attr # "usnCreated"
        BY <2>5 DEF KnownOK, WritesOK, IsWrite
      <3>4. n.version = 1 /\ n.orig = Founder
        BY <2>5, <3>2, <3>3 DEF Made
      <3>5. Supersedes(n, m)
        BY <1>2, <2>5, <3>4 DEF Supersedes, Ordered
      <3> QED
        BY <1>1, <3>5 DEF Settled
    <2> QED
      BY <2>1, <2>3, <2>4, <2>5 DEF Made
  <1> QED
    BY <1>2, <1>3, <1>4 DEF Ordered

-----------------------------------------------------------------------------
(* Entries that arrive *)

\* An entry of a page can be applied, or is of no more use.
Usable(d, x) ==
    \/ x.state = "add" /\ ~Held(d) /\ (x.deleted => "isDeleted" \in DOMAIN x.meta)
    \/ x.state = "modify" /\ Held(d) /\ ~x.deleted /\ "isDeleted" \notin DOMAIN x.meta
    \/ x.state = "delete" /\ Held(d) /\ "isDeleted" \in DOMAIN x.meta
Useless(d, x) == Tomb(d) /\ x.state # "add" /\ (x.state = "modify" => x.deleted)

LEMMA FlatApplicable ==
    ASSUME Calm, Inv, NEW c \in Server, NEW x \in AnyPageEntry
    PROVE  Applicable(c, x) <=>
              \/ x.state = "add" /\ ~Held(db[c][x.entry])
              \/ x.state = "modify" /\ Held(db[c][x.entry]) /\ ~x.deleted
              \/ x.state = "delete" /\ Held(db[c][x.entry]) /\ ~Tomb(db[c][x.entry])
  <1>1. PICK e \in Entry : e = x.entry
    BY DEF AnyPageEntry
  <1>2. HasParent(c, e)
    BY DEF Calm, HasParent
  <1>3. Leaf(c, e)
    BY NameAssumption DEF Calm, Leaf, Children
  <1>4. x.state \in {"add", "modify", "delete"}
    BY DEF AnyPageEntry
  <1>5. (Held(db[c][e]) <=> Exists(c, e)) /\ (Tomb(db[c][e]) <=> Deleted(c, e))
    BY HeldEntry
  <1>6. CASE x.state = "add"
    BY <1>1, <1>2, <1>5, <1>6 DEF Applicable
  <1>7. CASE x.state = "modify"
    BY <1>1, <1>5, <1>7 DEF Applicable
  <1>8. CASE x.state = "delete"
    BY <1>1, <1>3, <1>5, <1>8 DEF Applicable, Live
  <1> QED
    BY <1>4, <1>6, <1>7, <1>8

LEMMA ApplyFlat ==
    ASSUME Calm, Inv, NEW c \in Server, PageOK(db, c, cycle[c]),
           NEW x \in cycle[c].page.entries, Apply(c, x)
    PROVE  \E k \in AnyCycle :
             /\ cycle' = [cycle EXCEPT ![c] = k]
             /\ cycle[c].step = "apply" /\ k.step = "apply"
             /\ k.partner = cycle[c].partner /\ k.last = cycle[c].last
             /\ k.utd = cycle[c].utd /\ k.added = cycle[c].added
             /\ k.page.entries = cycle[c].page.entries \ {x}
             /\ k.page.hwm = cycle[c].page.hwm /\ k.page.utd = cycle[c].page.utd
             /\ k.page.more = cycle[c].page.more /\ k.page.vector = cycle[c].page.vector
             /\ k.page.sent = cycle[c].page.sent
             /\ \/ /\ Usable(db[c][x.entry], x) /\ \E d : AppliedStep(c, x, d)
                   /\ k.failed = cycle[c].failed
                \/ /\ Useless(db[c][x.entry], x) /\ UNCHANGED <<db, nextUsn>>
                   /\ k.failed = cycle[c].failed \cup {x}

  <1>1. x \in AnyPageEntry /\ Fits(x, nextUsn, Dead)
        /\ (x.state = "delete" => "isDeleted" \in DOMAIN x.meta)
    BY CycleNow, CycleParts, PageParts DEF CycleFits
  <1>2. PICK e \in Entry : e = x.entry
    BY <1>1 DEF AnyPageEntry
  <1>3. PageEntryOK(db, c, cycle[c], x)
    BY DEF PageOK
  <1>4. Held(db[c][e]) <=> Exists(c, e)
    BY HeldEntry
  <1>5. Received(c, x) = x
    BY <1>2, <1>3, <1>4 DEF Received, PageEntryOK
  <1>6. PICK k \in AnyCycle :
             /\ cycle' = [cycle EXCEPT ![c] = k]
             /\ cycle[c].step = "apply" /\ k.step = "apply"
             /\ k.partner = cycle[c].partner /\ k.last = cycle[c].last
             /\ k.utd = cycle[c].utd /\ k.added = cycle[c].added
             /\ \/ /\ Applicable(c, Received(c, x)) /\ k.failed = cycle[c].failed
                \/ /\ ~Applicable(c, Received(c, x))
                   /\ k.failed = cycle[c].failed \cup {Received(c, x)}
             /\ k.page.entries = cycle[c].page.entries \ {x}
             /\ k.page.hwm = cycle[c].page.hwm /\ k.page.utd = cycle[c].page.utd
             /\ k.page.more = cycle[c].page.more /\ k.page.vector = cycle[c].page.vector
             /\ k.page.sent = cycle[c].page.sent
    BY ApplyIs
  <1>7. x.state \in {"add", "modify", "delete"}
    BY <1>1 DEF AnyPageEntry
  <1>8. CASE Applicable(c, x)
    <2>1. ApplyEntry(c, x)
      BY <1>5, <1>8 DEF Apply
    <2>2. \E d : AppliedStep(c, x, d)
      BY <1>1, <2>1, AppliedIs
    <2>3. Tomb(db[c][e]) => Held(db[c][e])
      BY HeldEntry
    <2>4. Usable(db[c][e], x)
      BY <1>1, <1>2, <1>3, <1>8, <2>3, FlatApplicable DEF Usable, PageEntryOK
    <2> QED
      BY <1>2, <1>5, <1>6, <1>8, <2>2, <2>4
  <1>9. CASE ~Applicable(c, x)
    <2>1. UNCHANGED <<db, nextUsn>>
      BY <1>5, <1>9 DEF Apply
    <2>2. Useless(db[c][e], x)
      BY <1>1, <1>2, <1>3, <1>7, <1>9, FlatApplicable DEF Useless, PageEntryOK
    <2> QED
      BY <1>2, <1>5, <1>6, <1>9, <2>1, <2>2
  <1> QED
    BY <1>8, <1>9

\* What has failed stays so.
LEMMA NoReapply ==
    ASSUME Calm, Inv, NEW c \in Server, FailedOK(db, c, cycle[c]), NEW x \in cycle[c].failed
    PROVE  ~Reapply(c, x)
  <1>1. x \in AnyPageEntry
    BY CycleNow, CycleParts
  <1>2. ~Applicable(c, x)
    BY <1>1, FlatApplicable DEF FailedOK
  <1> QED
    BY <1>2 DEF Reapply, Retryable

\* What the server holds after it has applied the entry.
LEMMA AppliedHas ==
    ASSUME Inv, Inv', NEW c \in Server, NEW x \in AnyPageEntry, Fits(x, nextUsn, Dead),
           Usable(db[c][x.entry], x), NEW d, AppliedStep(c, x, d)
    PROVE  /\ d \in DbEntry /\ db'[c][x.entry] = d /\ Held(d)
           /\ Advances(db[c][x.entry], d)
           /\ \A a \in AllAttr : \A m :
                 Ordered(m) /\ Brings(x, a, m) => Settled(d, a, m)
  <1>1. PICK e \in Entry : e = x.entry
    BY DEF AnyPageEntry
  <1>2. /\ Stored(c, e, d) /\ db'[c][e] = d /\ d \in DbEntry /\ Held(d)
        /\ \A a \in AllAttr : Ordered(d.meta[a])
    <2>1. Stored(c, e, d)
      BY <1>1 DEF AppliedStep
    <2>2. /\ db'[c][e] = d /\ d.usnChanged = nextUsn[c] /\ nextUsn[c] \in Nat
          /\ db[c][e].usnChanged \in Nat /\ db[c][e].usnChanged < nextUsn[c]
      BY <2>1, StoredIs, HeldIs
    <2>3. d \in DbEntry
      BY <2>2 DEF Inv, TypesOK
    <2>4. \A a \in AllAttr : d.meta[a] \in Meta
      BY <2>3 DEF DbEntry
    <2> QED
      BY <2>1, <2>2, <2>3, <2>4, MetaOrdered DEF Held
  <1>3. \A a \in DOMAIN x.meta : Ordered(x.meta[a]) /\ x.meta[a].version > 0 /\ a \in AllAttr
    BY PageMetaType, MetaOrdered DEF Fits
  <1>4. \A a \in AllAttr : Ordered(db[c][e].meta[a])
    BY HeldEntry
  <1>5. ASSUME "isDeleted" \in DOMAIN x.meta, x.state # "modify" PROVE Tomb(d)
    BY <1>1, <1>3, <1>5 DEF AppliedStep, Taken, Tomb, AllAttr
  <1>6. Tomb(db[c][e]) => Tomb(d)
    <2>1. "isDeleted" \in AllAttr
      BY DEF AllAttr
    <2>2. CASE Taken(x, "isDeleted", db[c][e].meta["isDeleted"])
      BY <1>1, <1>3, <2>1, <2>2 DEF AppliedStep, Taken, Tomb
    <2>3. CASE ~Taken(x, "isDeleted", db[c][e].meta["isDeleted"])
      BY <1>1, <2>1, <2>3 DEF AppliedStep, Tomb
    <2> QED
      BY <2>2, <2>3
  <1>7. ASSUME NEW a \in AllAttr
        PROVE  Tomb(d) \/ Supersedes(d.meta[a], db[c][e].meta[a])
    <2>1. CASE ~Taken(x, a, db[c][e].meta[a])
      <3>1. d.meta[a] = db[c][e].meta[a] /\ d.meta[a] \in Meta
        BY <1>1, <1>2, <2>1 DEF AppliedStep, DbEntry
      <3> QED
        BY <3>1, SupersedesSelf
    <2>2. CASE Taken(x, a, db[c][e].meta[a])
      <3>1. /\ a \in DOMAIN x.meta /\ d.meta[a].version = x.meta[a].version
            /\ d.meta[a].orig = x.meta[a].orig
        BY <1>1, <2>2 DEF AppliedStep, Taken
      <3>2. CASE x.state = "add"
        <4>1. Unset(db[c][e].meta[a])
          BY <1>1, <3>2, HeldEntry DEF Usable
        <4> QED
          BY <1>2, <1>3, <1>4, <3>1, <4>1 DEF Unset, Supersedes, Ordered
      <3>3. CASE x.state = "modify"
        <4>1. Beats(x.meta[a], db[c][e].meta[a])
          BY <2>2, <3>3 DEF Taken
        <4>2. Supersedes(x.meta[a], db[c][e].meta[a])
          BY <1>3, <1>4, <3>1, <4>1, BeatsWins
        <4> QED
          BY <3>1, <4>2 DEF Supersedes
      <3>4. CASE x.state = "delete"
        BY <1>1, <1>5, <3>4 DEF Usable
      <3> QED
        BY <3>2, <3>3, <3>4 DEF AnyPageEntry
    <2> QED
      BY <2>1, <2>2
  <1>8. ASSUME NEW a \in AllAttr, NEW m, Ordered(m), Brings(x, a, m)
        PROVE  Settled(d, a, m)
    <2>1. CASE x.deleted
      <3>1. Tomb(d)
        BY <1>1, <1>5, <2>1 DEF Usable
      <3> QED
        BY <3>1 DEF Settled
    <2>2. CASE a \in DOMAIN x.meta /\ Supersedes(x.meta[a], m)
      <3>1. CASE Taken(x, a, db[c][e].meta[a])
        BY <1>1, <2>2, <3>1 DEF AppliedStep, Settled, Supersedes
      <3>2. CASE ~Taken(x, a, db[c][e].meta[a])
        <4>1. ~Beats(x.meta[a], db[c][e].meta[a]) /\ d.meta[a] = db[c][e].meta[a]
          BY <1>1, <2>2, <3>2 DEF Taken, AppliedStep
        <4>2. Supersedes(d.meta[a], x.meta[a])
          BY <1>3, <1>4, <2>2, <4>1, NotBeaten
        <4>3. Supersedes(d.meta[a], m)
          BY <1>2, <1>3, <1>8, <2>2, <4>2, SupersedesTrans
        <4> QED
          BY <4>3 DEF Settled
      <3> QED
        BY <3>1, <3>2
    <2> QED
      BY <1>8, <2>1, <2>2 DEF Brings
  <1>9. Advances(db[c][e], d)
    BY <1>2, <1>6, <1>7 DEF Advances
  <1> QED
    BY <1>1, <1>2, <1>8, <1>9

LEMMA LocalHas ==
    ASSUME Inv, Inv', NEW s \in Server, NEW e \in Entry, NEW d, NEW w, LocalStep(s, e, d, w)
    PROVE  /\ d \in DbEntry /\ db'[s][e] = d /\ Held(d)
           /\ Advances(db[s][e], d) /\ Settled(d, w.attr, w)
  <1>1. Stored(s, e, d)
    BY DEF LocalStep
  <1>2. /\ db'[s][e] = d /\ d.usnChanged = nextUsn[s] /\ nextUsn[s] \in Nat
        /\ db[s][e].usnChanged \in Nat /\ db[s][e].usnChanged < nextUsn[s]
    BY <1>1, StoredIs, HeldIs
  <1>3. d \in DbEntry
    BY <1>2 DEF Inv, TypesOK
  <1>4. \A a \in AllAttr : d.meta[a] \in Meta /\ Ordered(d.meta[a])
    BY <1>3, MetaOrdered DEF DbEntry
  <1>5. \A a \in AllAttr : db[s][e].meta[a] \in Meta /\ Ordered(db[s][e].meta[a])
    BY HeldEntry
  <1>6. ASSUME NEW a \in AllAttr PROVE Supersedes(d.meta[a], db[s][e].meta[a])
    <2>1. CASE d.meta[a] = db[s][e].meta[a]
      BY <1>4, <2>1, SupersedesSelf
    <2>2. CASE Unset(d.meta[a]) /\ Unset(db[s][e].meta[a])
      BY <2>2 DEF Unset, Supersedes
    <2>3. CASE db[s][e].meta[a].version < d.meta[a].version
      BY <1>4, <1>5, <2>3 DEF Supersedes, Ordered
    <2> QED
      BY <2>1, <2>2, <2>3 DEF LocalStep
  <1>7. Tomb(db[s][e]) => Tomb(d)
    BY <1>4, <1>5, <1>6 DEF Tomb, Supersedes, AllAttr, Ordered
  <1>8. Supersedes(d.meta[w.attr], w)
    <2>1. w.attr \in AllAttr /\ d.meta[w.attr].orig = s /\ w.orig = s
          /\ w.version <= d.meta[w.attr].version /\ w.version \in Nat /\ s \in Nat
      BY ServerAssumption DEF LocalStep, Own
    <2> QED
      BY <1>4, <2>1 DEF Supersedes, Ordered
  <1>9. Held(d)
    BY <1>2 DEF Held
  <1> QED
    BY <1>2, <1>3, <1>6, <1>7, <1>8, <1>9 DEF Advances, Settled

-----------------------------------------------------------------------------
(* A server stores an entry *)

\* The server s stores d for e: its own change, or what it has received.
DataStep(s, e, d) ==
    /\ Stored(s, e, d) /\ d \in DbEntry /\ Held(d) /\ Advances(db[s][e], d)
    /\ Held(db[s][e]) => d.meta["usnCreated"] = db[s][e].meta["usnCreated"]
    /\ ~Held(db[s][e]) =>
          /\ d.meta["usnCreated"].version > 0
          /\ d.meta["usnCreated"].orig = s \/ e \in cycle[s].added
          /\ \A t \in Server : Held(db[t][e])
                => SameChange(d.meta["usnCreated"], db[t][e].meta["usnCreated"])
    /\ \A a \in AllAttr :
          \/ d.meta[a] = db[s][e].meta[a]
          \/ Unset(d.meta[a])
          \/ /\ d.meta[a].localUsn = nextUsn[s]
             /\ \/ d.meta[a].orig = s
                \/ /\ cycle[s].step = "apply"
                   /\ d.meta[a].usn <= cycle[s].page.utd[d.meta[a].orig]

\* The cycle k of c becomes j: an entry that leaves the page is applied, or of no use.
Keeps(c, k, j) ==
    /\ j.step = k.step /\ j.partner = k.partner /\ j.last = k.last /\ j.utd = k.utd
    /\ j.added = k.added /\ j.page.hwm = k.page.hwm /\ j.page.utd = k.page.utd
    /\ j.page.entries \subseteq k.page.entries
    /\ \A y \in k.page.entries :
          \/ y \in j.page.entries
          \/ \A a \in AllAttr : \A m :
                Ordered(m) /\ Brings(y, a, m) => Settled(db'[c][y.entry], a, m)

LEMMA PendingStays ==
    ASSUME NEW c, NEW k, NEW j, Keeps(c, k, j), NEW e, NEW a \in AllAttr, NEW m, Ordered(m),
           Pending(k.page.entries, e, a, m)
    PROVE  Pending(j.page.entries, e, a, m) \/ Settled(db'[c][e], a, m)
  BY DEF Pending, Keeps

LEMMA DataIs ==
    ASSUME Inv, NEW s \in Server, NEW e \in Entry, NEW d, DataStep(s, e, d)
    PROVE  /\ db'[s][e] = d /\ d.usnChanged = nextUsn[s]
           /\ \A t \in Server : \A f \in Entry : (t # s \/ f # e) => db'[t][f] = db[t][f]
           /\ \A t \in Server : \A f \in Entry :
                 /\ db[t][f] \in DbEntry /\ db'[t][f] \in DbEntry
                 /\ Advances(db[t][f], db'[t][f])
                 /\ Held(db[t][f]) => Held(db'[t][f]) /\ db'[t][f].meta["usnCreated"]
                                                           = db[t][f].meta["usnCreated"]
  <1>1. Stored(s, e, d)
    BY DEF DataStep
  <1>2. /\ db'[s][e] = d /\ d.usnChanged = nextUsn[s]
        /\ \A t \in Server : \A f \in Entry : (t # s \/ f # e) => db'[t][f] = db[t][f]
    BY <1>1, StoredIs
  <1>3. ASSUME NEW t \in Server, NEW f \in Entry
        PROVE  /\ db[t][f] \in DbEntry /\ db'[t][f] \in DbEntry
               /\ Advances(db[t][f], db'[t][f])
               /\ Held(db[t][f]) => Held(db'[t][f]) /\ db'[t][f].meta["usnCreated"]
                                                         = db[t][f].meta["usnCreated"]
    <2>1. db[t][f] \in DbEntry
      BY HeldEntry
    <2>2. CASE t # s \/ f # e
      BY <1>2, <2>1, <2>2, AdvancesSelf
    <2>3. CASE t = s /\ f = e
      BY <1>2, <2>1, <2>3 DEF DataStep
    <2> QED
      BY <2>2, <2>3
  <1> QED
    BY <1>2, <1>3

\* An entry of a server is what it was, or is what the step stores.
LEMMA DataCases ==
    ASSUME Inv, NEW s \in Server, NEW e \in Entry, NEW d, DataStep(s, e, d),
           NEW t \in Server, NEW f \in Entry
    PROVE  db'[t][f] = db[t][f] \/ (t = s /\ f = e /\ db'[t][f] = d)
  BY DataIs

\* ... and an attribute of it stays, is removed for want of a value, or gets a new number.
LEMMA DataMeta ==
    ASSUME Inv, NEW s \in Server, NEW e \in Entry, NEW d, DataStep(s, e, d),
           NEW t \in Server, NEW f \in Entry, NEW a \in AllAttr
    PROVE  \/ db'[t][f].meta[a] = db[t][f].meta[a]
           \/ Unset(db'[t][f].meta[a])
           \/ t = s /\ f = e /\ db'[t][f] = d /\ db'[t][f].meta[a].localUsn = nextUsn[t]
  <1>1. CASE db'[t][f] = db[t][f]
    BY <1>1
  <1>2. CASE t = s /\ f = e /\ db'[t][f] = d
    BY <1>2 DEF DataStep
  <1> QED
    BY <1>1, <1>2, DataCases

LEMMA TransferData ==
    ASSUME Inv, NEW s \in Server, NEW e \in Entry, NEW d, DataStep(s, e, d),
           NEW c \in Server, Transfer(db, c, cycle[c]), NEW j, Keeps(c, cycle[c], j)
    PROVE  Transfer(db', c, j)
  <1> SUFFICES ASSUME Busy(j), NEW f \in Entry, NEW a \in AllAttr
               PROVE  \/ Beyond(db'[j.partner][f], j)
                      \/ Settled(db'[c][f], a, db'[j.partner][f].meta[a])
                      \/ Pending(j.page.entries, f, a, db'[j.partner][f].meta[a])
    BY DEF Transfer
  <1>1. Busy(cycle[c]) /\ (InPage(j) <=> InPage(cycle[c]))
    BY DEF Keeps, Busy, InPage
  <1>2. PICK p \in Server :
           /\ p = cycle[c].partner /\ p = j.partner
           /\ cycle[c].last < nextUsn[p] /\ cycle[c].last \in Nat
           /\ cycle[c].page.hwm \in Nat /\ (InPage(cycle[c]) => cycle[c].page.hwm < nextUsn[p])
    BY <1>1, CycleNow, CycleParts, PageParts DEF CycleFits, Keeps, Busy, InPage
  <1>3. CASE p = s /\ f = e
    <2>1. db'[p][f].usnChanged = nextUsn[p]
      BY <1>3, DataIs
    <2>2. Beyond(db'[p][f], j)
      BY <1>1, <1>2, <2>1 DEF Beyond, Keeps
    <2> QED
      BY <1>2, <2>2
  <1>4. CASE ~(p = s /\ f = e)
    <2>1. db'[p][f] = db[p][f]
      BY <1>4, DataIs
    <2>2. Ordered(db[p][f].meta[a])
      BY HeldEntry
    <2>3. CASE Beyond(db[p][f], cycle[c])
      BY <1>1, <1>2, <2>1, <2>3 DEF Beyond, Keeps
    <2>4. CASE Settled(db[c][f], a, db[p][f].meta[a])
      BY <1>2, <2>1, <2>2, <2>4, DataIs, SettledStays
    <2>5. CASE Pending(cycle[c].page.entries, f, a, db[p][f].meta[a])
      BY <1>2, <2>1, <2>2, <2>5, PendingStays
    <2> QED
      BY <1>1, <1>2, <2>3, <2>4, <2>5 DEF Transfer
  <1> QED
    BY <1>3, <1>4

LEMMA AddedData ==
    ASSUME Inv, LocalOK, NEW s \in Server, NEW e \in Entry, NEW d, DataStep(s, e, d),
           CreatedKnown(db, s, cycle[s], utd[s]),
           NEW c \in Server, AddedHas(db, c, cycle[c]), NEW j, Keeps(c, cycle[c], j)
    PROVE  AddedHas(db', c, j)
  <1> SUFFICES ASSUME Busy(j), NEW f \in j.added
               PROVE  /\ Held(db'[j.partner][f])
                      /\ \A a \in AllAttr :
                            db'[j.partner][f].meta[a].localUsn
                              <= db'[j.partner][f].meta["usnCreated"].localUsn
                            => \/ Settled(db'[c][f], a, db'[j.partner][f].meta[a])
                               \/ Pending(j.page.entries, f, a, db'[j.partner][f].meta[a])
    BY DEF AddedHas
  <1>1. Busy(cycle[c]) /\ f \in cycle[c].added /\ f \in Entry
    BY CycleNow, CycleParts DEF Keeps, Busy
  <1>2. PICK p \in Server : p = cycle[c].partner /\ p = j.partner
    BY <1>1, CycleNow, CycleParts DEF CycleFits, Keeps, Busy
  <1>3. Held(db[p][f]) /\ Held(db'[p][f])
        /\ db'[p][f].meta["usnCreated"] = db[p][f].meta["usnCreated"]
    BY <1>1, <1>2, DataIs DEF AddedHas
  <1>4. ASSUME NEW a \in AllAttr,
               db'[p][f].meta[a].localUsn <= db'[p][f].meta["usnCreated"].localUsn
        PROVE  \/ Settled(db'[c][f], a, db'[p][f].meta[a])
               \/ Pending(j.page.entries, f, a, db'[p][f].meta[a])
    <2>1. CASE db'[p][f].meta[a] = db[p][f].meta[a]
      <3>1. Ordered(db[p][f].meta[a])
        BY <1>1, HeldEntry
      <3>2. \/ Settled(db[c][f], a, db[p][f].meta[a])
            \/ Pending(cycle[c].page.entries, f, a, db[p][f].meta[a])
        BY <1>1, <1>2, <1>3, <1>4, <2>1 DEF AddedHas
      <3>3. CASE Settled(db[c][f], a, db[p][f].meta[a])
        BY <1>1, <2>1, <3>1, <3>3, DataIs, SettledStays
      <3>4. CASE Pending(cycle[c].page.entries, f, a, db[p][f].meta[a])
        BY <2>1, <3>1, <3>4, PendingStays
      <3> QED
        BY <3>2, <3>3, <3>4
    <2>2. CASE Unset(db'[p][f].meta[a])
      <3>1. db'[c][f].meta[a] \in Meta
        BY <1>1, DataIs DEF DbEntry
      <3>2. Ordered(db'[c][f].meta[a])
        BY <3>1, MetaOrdered
      <3>3. Supersedes(db'[c][f].meta[a], db'[p][f].meta[a])
        BY <2>2, <3>2 DEF Unset, Supersedes, Ordered
      <3> QED
        BY <3>3 DEF Settled
    <2>3. CASE p = s /\ f = e /\ db'[p][f].meta[a].localUsn = nextUsn[p]
      <3>1. db[p][f].meta["usnCreated"].version > 0
        BY <1>1, <1>3, <2>3 DEF CreatedKnown
      <3>2. "usnCreated" \in AllAttr
        BY DEF AllAttr
      <3>3. /\ db[p][f].meta["usnCreated"].localUsn < nextUsn[p] /\ nextUsn[p] \in Nat
            /\ db[p][f].meta["usnCreated"] \in Meta
        BY <1>1, <3>1, <3>2, HeldIs DEF LocalOK
      <3>4. db[p][f].meta["usnCreated"].localUsn \in Nat
        BY <3>3 DEF Meta
      <3> QED
        BY <1>3, <1>4, <2>3, <3>3, <3>4
    <2> QED
      BY <1>1, <2>1, <2>2, <2>3, DataMeta
  <1> QED
    BY <1>2, <1>3, <1>4

LEMMA PageData ==
    ASSUME Inv, NEW s \in Server, NEW e \in Entry, NEW d, DataStep(s, e, d),
           NEW c \in Server, PageOK(db, c, cycle[c]), NEW j, Keeps(c, cycle[c], j),
           \A y \in j.page.entries : c = s /\ y.entry = e => Held(db[s][e])
    PROVE  PageOK(db', c, j)
  <1> SUFFICES ASSUME NEW y \in j.page.entries
               PROVE  PageEntryOK(db', c, j, y)
    BY DEF PageOK
  <1>1. y \in cycle[c].page.entries /\ PageEntryOK(db, c, cycle[c], y)
    BY DEF Keeps, PageOK
  <1>2. PICK f \in Entry : f = y.entry
    BY <1>1, CycleNow, CycleParts, PageParts DEF AnyPageEntry
  <1>3. PICK p \in Server : p = cycle[c].partner /\ p = j.partner
    BY <1>1, CycleNow, CycleParts DEF CycleFits, Keeps
  <1>4. Held(db'[c][f]) <=> Held(db[c][f])
    BY <1>2, DataIs
  <1>5. Tomb(db[c][f]) => Tomb(db'[c][f])
    BY DataIs DEF Advances
  <1>6. Held(db'[p][f]) /\ db'[p][f].meta["usnCreated"] = db[p][f].meta["usnCreated"]
    BY <1>1, <1>2, <1>3, DataIs DEF PageEntryOK
  <1>7. /\ j.added = cycle[c].added /\ j.page.utd = cycle[c].page.utd
        /\ j.page.entries \subseteq cycle[c].page.entries
    BY DEF Keeps
  <1> QED
    BY <1>1, <1>2, <1>3, <1>4, <1>5, <1>6, <1>7 DEF PageEntryOK

LEMMA FailedData ==
    ASSUME Inv, NEW s \in Server, NEW e \in Entry, NEW d, DataStep(s, e, d),
           NEW c \in Server, FailedOK(db, c, cycle[c]), NEW j, j.failed = cycle[c].failed
    PROVE  FailedOK(db', c, j)
  <1>1. \A y \in cycle[c].failed : y.entry \in Entry
    BY CycleNow, CycleParts DEF AnyPageEntry
  <1> QED
    BY <1>1, DataIs DEF FailedOK, Advances

LEMMA IdleData ==
    ASSUME NEW c, NEW k, NEW j, Keeps(c, k, j), NEW u, NEW h, IdleOK(k, u, h)
    PROVE  IdleOK(j, u, h)
  BY DEF Keeps, IdleOK, Busy, InPage

LEMMA HeldData ==
    ASSUME Inv, NEW s \in Server, NEW e \in Entry, NEW d, DataStep(s, e, d),
           NEW c \in Server, HeldCovered(db, c, cycle[c], utd[c]), NEW j,
           Keeps(c, cycle[c], j)
    PROVE  HeldCovered(db', c, j, utd[c])
  <1> SUFFICES ASSUME NEW f \in Entry, NEW a \in AllAttr, db'[c][f].meta[a].version > 0
               PROVE  \/ db'[c][f].meta[a].orig = c
                      \/ db'[c][f].meta[a].usn <= utd[c][db'[c][f].meta[a].orig]
                      \/ /\ j.step # "none"
                         /\ db'[c][f].meta[a].usn <= j.utd[db'[c][f].meta[a].orig]
                      \/ /\ j.step = "apply"
                         /\ db'[c][f].meta[a].usn <= j.page.utd[db'[c][f].meta[a].orig]
    BY DEF HeldCovered
  <1>1. CASE db'[c][f].meta[a] = db[c][f].meta[a]
    BY <1>1 DEF HeldCovered, Keeps
  <1>2. CASE c = s /\ f = e /\ db'[c][f].meta[a] # db[c][f].meta[a]
    <2>1. d.meta[a] # db[s][e].meta[a] /\ db'[c][f] = d /\ ~Unset(d.meta[a])
      BY <1>2, DataIs DEF Unset
    <2>2. \/ d.meta[a].orig = s
          \/ cycle[s].step = "apply" /\ d.meta[a].usn <= cycle[s].page.utd[d.meta[a].orig]
      BY <2>1 DEF DataStep
    <2> QED
      BY <1>2, <2>1, <2>2 DEF Keeps
  <1>3. db'[c][f] = db[c][f] \/ (c = s /\ f = e)
    BY DataCases
  <1>4. db'[c][f].meta[a] = db[c][f].meta[a] \/ (c = s /\ f = e)
    BY <1>3
  <1> QED
    BY <1>1, <1>2, <1>4

LEMMA CreatedData ==
    ASSUME Inv, NEW s \in Server, NEW e \in Entry, NEW d, DataStep(s, e, d),
           NEW c \in Server, CreatedKnown(db, c, cycle[c], utd[c]), NEW j,
           Keeps(c, cycle[c], j)
    PROVE  CreatedKnown(db', c, j, utd[c])
  <1> SUFFICES ASSUME NEW f \in Entry, Held(db'[c][f])
               PROVE  /\ db'[c][f].meta["usnCreated"].version > 0
                      /\ \/ db'[c][f].meta["usnCreated"].orig = c
                         \/ db'[c][f].meta["usnCreated"].usn
                              <= utd[c][db'[c][f].meta["usnCreated"].orig]
                         \/ f \in j.added
    BY DEF CreatedKnown
  <1>1. CASE Held(db[c][f])
    BY <1>1, DataIs DEF CreatedKnown, Keeps
  <1>2. CASE ~Held(db[c][f])
    <2>1. c = s /\ f = e /\ db'[c][f] = d /\ ~Held(db[s][e])
      BY <1>2, DataCases
    <2>2. /\ d.meta["usnCreated"].version > 0
          /\ d.meta["usnCreated"].orig = s \/ e \in cycle[s].added
      BY <2>1 DEF DataStep
    <2>3. j.added = cycle[c].added
      BY DEF Keeps
    <2> QED
      BY <2>1, <2>2, <2>3
  <1> QED
    BY <1>1, <1>2

LEMMA HasData ==
    ASSUME Inv, KnownOK, NEW s \in Server, NEW e \in Entry, NEW d, DataStep(s, e, d),
           NEW c \in Server, NEW u, HasAll(db, c, u, writes)
    PROVE  HasAll(db', c, u, writes)
  <1> SUFFICES ASSUME NEW w \in writes, w.orig = c \/ w.usn <= u[w.orig]
               PROVE  Settled(db'[c][w.entry], w.attr, w)
    BY DEF HasAll
  <1>1. Settled(db[c][w.entry], w.attr, w)
    BY DEF HasAll
  <1>2. w.entry \in Entry /\ w.attr \in AllAttr /\ Ordered(w)
    BY WriteOrdered
  <1> QED
    BY <1>1, <1>2, DataIs, SettledStays

LEMMA OnceData ==
    ASSUME Inv, CreatedOnce, NEW s \in Server, NEW e \in Entry, NEW d, DataStep(s, e, d)
    PROVE  CreatedOnce'
  <1> SUFFICES ASSUME NEW t \in Server, NEW v \in Server, NEW f \in Entry,
                      Held(db'[t][f]), Held(db'[v][f])
               PROVE  SameChange(db'[t][f].meta["usnCreated"], db'[v][f].meta["usnCreated"])
    BY DEF CreatedOnce
  <1>1. CASE Held(db[t][f]) /\ Held(db[v][f])
    BY <1>1, DataIs DEF CreatedOnce
  <1>2. CASE t = v
    BY <1>2 DEF SameChange
  <1>3. CASE t # v /\ ~Held(db[t][f])
    <2>1. t = s /\ f = e /\ v # s /\ db'[v][f] = db[v][f] /\ db'[t][f] = d
      BY <1>3, DataIs
    <2> QED
      BY <1>3, <2>1 DEF DataStep
  <1>4. CASE t # v /\ ~Held(db[v][f])
    <2>1. v = s /\ f = e /\ t # s /\ db'[t][f] = db[t][f] /\ db'[v][f] = d
      BY <1>4, DataIs
    <2>2. SameChange(d.meta["usnCreated"], db[t][f].meta["usnCreated"])
      BY <1>4, <2>1 DEF DataStep
    <2> QED
      BY <2>1, <2>2 DEF SameChange
  <1> QED
    BY <1>1, <1>2, <1>3, <1>4

LEMMA LocalUsnData ==
    ASSUME Inv, Inv', CoverOK, LocalOK, NEW s \in Server, NEW e \in Entry, NEW d,
           DataStep(s, e, d)
    PROVE  LocalOK'
  <1> SUFFICES ASSUME NEW t \in Server, NEW f \in Entry, NEW a \in AllAttr,
                      db'[t][f].meta[a].version > 0
               PROVE  /\ db'[t][f].meta[a].localUsn >= 1
                      /\ db'[t][f].meta[a].localUsn < nextUsn'[t]
    BY DEF LocalOK
  <1>1. Stored(s, e, d)
    BY DEF DataStep
  <1>2. /\ nextUsn[t] \in Nat /\ nextUsn'[t] \in Nat /\ nextUsn[t] >= 2
        /\ nextUsn'[t] >= nextUsn[t] /\ (t = s => nextUsn'[t] = nextUsn[t] + 1)
    BY <1>1, StoredIs DEF Inv, TypesOK, UsnVector, CoverOK, Grows
  <1>3. CASE db'[t][f].meta[a] = db[t][f].meta[a]
    <2>1. db[t][f].meta[a].localUsn \in Nat
      BY HeldIs DEF Meta
    <2> QED
      BY <1>2, <1>3, <2>1 DEF LocalOK
  <1>4. CASE t = s /\ f = e /\ d.meta[a].localUsn = nextUsn[s]
    BY <1>2, <1>4, DataIs
  <1>5. ~Unset(db'[t][f].meta[a])
    BY DEF Unset
  <1> QED
    BY <1>3, <1>4, <1>5, DataMeta

LEMMA SyncData ==
    ASSUME Inv, Inv', KnownOK, CoverOK, SyncOK, NEW s \in Server, NEW e \in Entry, NEW d,
           DataStep(s, e, d), NEW c \in Server, NEW j, Keeps(c, cycle[c], j),
           \A y \in j.page.entries : c = s /\ y.entry = e => Held(db[s][e]),
           j.failed = cycle[c].failed
    PROVE  SyncCycle(db', c, j, utd[c], hwm[c], writes)
  <1>1. /\ SyncCycle(db, c, cycle[c], utd[c], hwm[c], writes) /\ LocalOK
        /\ CreatedKnown(db, s, cycle[s], utd[s])
    BY DEF SyncOK, SyncCycle
  <1>2. Transfer(db', c, j) /\ AddedHas(db', c, j)
    BY <1>1, TransferData, AddedData DEF SyncCycle
  <1>3. PageOK(db', c, j) /\ FailedOK(db', c, j) /\ IdleOK(j, utd[c], hwm[c])
    BY <1>1, PageData, FailedData, IdleData DEF SyncCycle
  <1>4. HeldCovered(db', c, j, utd[c]) /\ CreatedKnown(db', c, j, utd[c])
    BY <1>1, HeldData, CreatedData DEF SyncCycle
  <1>5. HasAll(db', c, utd[c], writes)
    BY <1>1, HasData DEF SyncCycle
  <1>6. Clean(db', c, j, writes)
    BY <1>1, HasData DEF SyncCycle, Clean, Keeps
  <1> QED
    BY <1>2, <1>3, <1>4, <1>5, <1>6 DEF SyncCycle

LEMMA KeepsSelf ==
    ASSUME NEW c, NEW k
    PROVE  Keeps(c, k, k)
  BY DEF Keeps

LEMMA LocalData ==
    ASSUME Inv, Inv', SyncOK, NEW s \in Server, NEW e \in Entry, NEW d, NEW w,
           LocalStep(s, e, d, w)
    PROVE  DataStep(s, e, d)
  <1>1. /\ Stored(s, e, d) /\ d \in DbEntry /\ Held(d) /\ Advances(db[s][e], d)
    BY LocalHas DEF LocalStep
  <1>2. \A t \in Server : Held(db[t][e]) <=> Exists(t, e)
    BY HeldEntry
  <1>3. \A a \in AllAttr :
          \/ d.meta[a] = db[s][e].meta[a]
          \/ Unset(d.meta[a])
          \/ d.meta[a].localUsn = nextUsn[s] /\ d.meta[a].orig = s
    BY DEF LocalStep, Own
  <1>4. CASE /\ \A t \in Server : ~Exists(t, e)
             /\ w.attr = "usnCreated"
    <2>1. d.meta["usnCreated"].version > 0 /\ d.meta["usnCreated"].orig = s
      BY <1>4 DEF LocalStep, Own
    <2> QED
      BY <1>1, <1>2, <1>3, <1>4, <2>1 DEF DataStep
  <1>5. CASE Live(s, e) /\ d.meta["usnCreated"] = db[s][e].meta["usnCreated"]
    <2>1. Held(db[s][e])
      BY <1>2, <1>5 DEF Live
    <2> QED
      BY <1>1, <1>3, <1>5, <2>1 DEF DataStep
  <1> QED
    BY <1>4, <1>5 DEF LocalStep

\* The other constants of the state.
LEMMA SyncLocal ==
    ASSUME Inv, Inv', KnownOK, CoverOK, SyncOK, NEW s \in Server, NEW e \in Entry, NEW d,
           NEW w, LocalStep(s, e, d, w)
    PROVE  SyncOK'
  <1>1. DataStep(s, e, d)
    BY LocalData
  <1>2. /\ UNCHANGED <<utd, hwm, cycle, fails>> /\ writes' = writes \cup {w}
        /\ w.entry = e /\ w.orig = s /\ w.usn = nextUsn[s]
    BY DEF LocalStep
  <1>3. CreatedOnce' /\ LocalOK' /\ fails' \in Nat
    BY <1>1, <1>2, OnceData, LocalUsnData DEF SyncOK
  <1>4. Settled(db'[s][e], w.attr, w)
    BY LocalHas
  <1>5. ASSUME NEW c \in Server
        PROVE  SyncCycle(db', c, cycle[c], utd[c], hwm[c], writes')
    <2>1. \A y \in cycle[c].page.entries : c = s /\ y.entry = e => Held(db[s][e])
      <3>1. ASSUME NEW y \in cycle[c].page.entries, c = s, y.entry = e
            PROVE  Held(db[s][e])
        <4>1. cycle[c].partner \in Server
          BY <3>1, CycleNow, CycleParts DEF CycleFits
        <4>2. Held(db[cycle[c].partner][e])
          BY <3>1 DEF SyncOK, SyncCycle, PageOK, PageEntryOK
        <4>3. Exists(cycle[c].partner, e)
          BY <4>1, <4>2, HeldEntry
        <4>4. Live(s, e)
          BY <4>1, <4>3 DEF LocalStep
        <4> QED
          BY <4>4, HeldEntry DEF Live
      <3> QED
        BY <3>1
    <2>2. SyncCycle(db', c, cycle[c], utd[c], hwm[c], writes)
      BY <1>1, <2>1, KeepsSelf, SyncData
    <2>3. HasAll(db', c, utd[c], writes')
      <3>1. w.usn <= utd[c][w.orig] => FALSE
        BY <1>2 DEF Inv, TypesOK, UsnVector, NotAhead
      <3>2. w.orig = c => Settled(db'[c][w.entry], w.attr, w)
        BY <1>2, <1>4
      <3> QED
        BY <1>2, <2>2, <3>1, <3>2 DEF SyncCycle, HasAll
    <2>4. Clean(db', c, cycle[c], writes')
      <3>1. SUFFICES ASSUME cycle[c].step \in {"saveUtd", "saveHwm"}
                     PROVE  HasAll(db', c, cycle[c].utd, writes')
        BY DEF Clean
      <3>2. cycle[c].utd \in UsnVector /\ \A o \in Server : cycle[c].utd[o] < nextUsn[o]
        BY <3>1, CycleNow DEF CycleFits
      <3>3. w.usn <= cycle[c].utd[w.orig] => FALSE
        BY <1>2, <3>2 DEF Inv, TypesOK, UsnVector
      <3>4. w.orig = c => Settled(db'[c][w.entry], w.attr, w)
        BY <1>2, <1>4
      <3>5. HasAll(db', c, cycle[c].utd, writes)
        BY <2>2, <3>1 DEF SyncCycle, Clean
      <3> QED
        BY <1>2, <3>3, <3>4, <3>5 DEF HasAll
    <2> QED
      BY <2>2, <2>3, <2>4 DEF SyncCycle
  <1>6. \A c \in Server : SyncCycle(db', c, cycle'[c], utd'[c], hwm'[c], writes')
    BY <1>2, <1>5
  <1> QED
    BY <1>3, <1>6 DEF SyncOK

LEMMA AppliedData ==
    ASSUME Inv, Inv', KnownOK, SyncOK, NEW c \in Server, NEW x \in cycle[c].page.entries,
           cycle[c].step = "apply", Usable(db[c][x.entry], x), NEW d, AppliedStep(c, x, d)
    PROVE  x.entry \in Entry /\ DataStep(c, x.entry, d)
  <1>1. x \in AnyPageEntry /\ Fits(x, nextUsn, Dead)
    BY CycleNow, CycleParts, PageParts DEF CycleFits
  <1>2. PICK e \in Entry : e = x.entry
    BY <1>1 DEF AnyPageEntry
  <1>3. PageEntryOK(db, c, cycle[c], x)
    BY DEF SyncOK, SyncCycle, PageOK
  <1>4. Stored(c, e, d) /\ d \in DbEntry /\ Held(d) /\ Advances(db[c][e], d)
    BY <1>1, <1>2, AppliedHas DEF AppliedStep
  <1>5. PICK p \in Server : p = cycle[c].partner
    BY CycleNow, CycleParts DEF CycleFits
  <1>6. "usnCreated" \in AllAttr
    BY DEF AllAttr
  <1>7. ASSUME Held(db[c][e])
        PROVE  d.meta["usnCreated"] = db[c][e].meta["usnCreated"]
    BY <1>2, <1>3, <1>6, <1>7 DEF PageEntryOK, AppliedStep, Taken
  <1>8. ASSUME ~Held(db[c][e])
        PROVE  /\ d.meta["usnCreated"].version > 0 /\ e \in cycle[c].added
               /\ \A t \in Server : Held(db[t][e])
                     => SameChange(d.meta["usnCreated"], db[t][e].meta["usnCreated"])
    <2>1. /\ x.state = "add" /\ "usnCreated" \in DOMAIN x.meta /\ e \in cycle[c].added
          /\ SameChange(x.meta["usnCreated"], db[p][e].meta["usnCreated"])
          /\ Held(db[p][e])
      BY <1>2, <1>3, <1>5, <1>8 DEF PageEntryOK
    <2>2. SameChange(d.meta["usnCreated"], x.meta["usnCreated"])
      BY <1>2, <1>6, <2>1 DEF AppliedStep, Taken, SameChange
    <2>3. x.meta["usnCreated"].version > 0
      BY <1>1, <2>1 DEF Fits
    <2>4. ASSUME NEW t \in Server, Held(db[t][e])
          PROVE  SameChange(db[p][e].meta["usnCreated"], db[t][e].meta["usnCreated"])
      BY <2>1, <2>4 DEF SyncOK, CreatedOnce
    <2> QED
      BY <2>1, <2>2, <2>3, <2>4 DEF SameChange
  <1>9. ASSUME NEW a \in AllAttr
        PROVE  \/ d.meta[a] = db[c][e].meta[a]
               \/ /\ d.meta[a].localUsn = nextUsn[c]
                  /\ d.meta[a].usn <= cycle[c].page.utd[d.meta[a].orig]
    <2>1. CASE ~Taken(x, a, db[c][e].meta[a])
      BY <1>2, <2>1 DEF AppliedStep
    <2>2. CASE Taken(x, a, db[c][e].meta[a])
      BY <1>2, <1>3, <2>2 DEF AppliedStep, Taken, PageEntryOK
    <2> QED
      BY <2>1, <2>2
  <1> QED
    BY <1>2, <1>4, <1>7, <1>8, <1>9 DEF DataStep

LEMMA SyncApply ==
    ASSUME Calm, Inv, Inv', KnownOK, CoverOK, SyncOK, NEW c \in Server,
           NEW x \in cycle[c].page.entries, Apply(c, x)
    PROVE  SyncOK'
  <1>0. PageOK(db, c, cycle[c]) /\ PageEntryOK(db, c, cycle[c], x)
    BY DEF SyncOK, SyncCycle, PageOK
  <1>1. PICK k \in AnyCycle :
             /\ cycle' = [cycle EXCEPT ![c] = k]
             /\ cycle[c].step = "apply" /\ k.step = "apply"
             /\ k.partner = cycle[c].partner /\ k.last = cycle[c].last
             /\ k.utd = cycle[c].utd /\ k.added = cycle[c].added
             /\ k.page.entries = cycle[c].page.entries \ {x}
             /\ k.page.hwm = cycle[c].page.hwm /\ k.page.utd = cycle[c].page.utd
             /\ \/ /\ Usable(db[c][x.entry], x) /\ \E d : AppliedStep(c, x, d)
                   /\ k.failed = cycle[c].failed
                \/ /\ Useless(db[c][x.entry], x) /\ UNCHANGED <<db, nextUsn>>
                   /\ k.failed = cycle[c].failed \cup {x}
    BY <1>0, ApplyFlat
  <1>2. UNCHANGED <<utd, hwm, writes, fails>>
    BY DEF Apply
  <1>3. x \in AnyPageEntry /\ Fits(x, nextUsn, Dead) /\ x.entry \in Entry
    BY CycleNow, CycleParts, PageParts DEF CycleFits, AnyPageEntry
  <1>4. cycle'[c] = k /\ \A b \in Server : b # c => cycle'[b] = cycle[b]
    BY <1>1, CycleNow
  <1>5. ASSUME NEW d, Usable(db[c][x.entry], x), AppliedStep(c, x, d),
               k.failed = cycle[c].failed
        PROVE  SyncOK'
    <2>1. DataStep(c, x.entry, d)
      BY <1>1, <1>5, AppliedData
    <2>2. CreatedOnce' /\ LocalOK' /\ fails' \in Nat
      BY <1>2, <1>3, <2>1, OnceData, LocalUsnData DEF SyncOK
    <2>3. Keeps(c, cycle[c], k)
      <3>1. \A a \in AllAttr : \A m :
               Ordered(m) /\ Brings(x, a, m) => Settled(db'[c][x.entry], a, m)
        BY <1>3, <1>5, AppliedHas
      <3> QED
        BY <1>1, <3>1 DEF Keeps
    <2>4. \A y \in k.page.entries : y.entry # x.entry
      BY <1>0, <1>1 DEF PageEntryOK
    <2>5. SyncCycle(db', c, k, utd[c], hwm[c], writes)
      BY <1>3, <1>5, <2>1, <2>3, <2>4, SyncData
    <2>6. ASSUME NEW b \in Server, b # c
          PROVE  SyncCycle(db', b, cycle[b], utd[b], hwm[b], writes)
      BY <1>3, <2>1, <2>6, KeepsSelf, SyncData
    <2>7. \A b \in Server : SyncCycle(db', b, cycle'[b], utd'[b], hwm'[b], writes')
      BY <1>2, <1>4, <2>5, <2>6
    <2> QED
      BY <2>2, <2>7 DEF SyncOK
  <1>6. ASSUME Useless(db[c][x.entry], x), UNCHANGED <<db, nextUsn>>,
               k.failed = cycle[c].failed \cup {x}
        PROVE  SyncOK'
    <2>1. SyncCycle(db, c, cycle[c], utd[c], hwm[c], writes)
      BY DEF SyncOK
    <2>2. Tomb(db[c][x.entry])
      BY <1>6 DEF Useless
    <2>3. \A f : \A a : \A m : Pending(cycle[c].page.entries, f, a, m)
             => Pending(k.page.entries, f, a, m) \/ Settled(db[c][f], a, m)
      BY <1>1, <2>2 DEF Pending, Settled
    <2>4. Transfer(db, c, k)
      BY <1>1, <2>1, <2>3 DEF SyncCycle, Transfer, Busy, InPage, Beyond
    <2>5. AddedHas(db, c, k)
      BY <1>1, <2>1, <2>3 DEF SyncCycle, AddedHas, Busy
    <2>6. PageOK(db, c, k)
      BY <1>1, <2>1 DEF SyncCycle, PageOK, PageEntryOK
    <2>7. FailedOK(db, c, k)
      BY <1>1, <1>6, <2>1 DEF SyncCycle, FailedOK, Useless
    <2>8. /\ IdleOK(k, utd[c], hwm[c]) /\ HeldCovered(db, c, k, utd[c])
          /\ CreatedKnown(db, c, k, utd[c])
      BY <1>1, <2>1 DEF SyncCycle, IdleOK, Busy, InPage, HeldCovered, CreatedKnown
    <2>9. HasAll(db, c, utd[c], writes) /\ Clean(db, c, k, writes)
      BY <1>1, <2>1 DEF SyncCycle, Clean
    <2>10. SyncCycle(db, c, k, utd[c], hwm[c], writes)
      BY <2>4, <2>5, <2>6, <2>7, <2>8, <2>9 DEF SyncCycle
    <2>11. \A b \in Server : SyncCycle(db', b, cycle'[b], utd'[b], hwm'[b], writes')
      BY <1>2, <1>4, <1>6, <2>10 DEF SyncOK
    <2>12. CreatedOnce' /\ LocalOK' /\ fails' \in Nat
      BY <1>2, <1>6 DEF SyncOK, CreatedOnce, LocalOK
    <2> QED
      BY <2>11, <2>12 DEF SyncOK
  <1> QED
    BY <1>1, <1>5, <1>6

-----------------------------------------------------------------------------
(* The steps of a cycle *)

\* A step that changes one cycle and its marks, and no entry.
LEMMA SyncOne ==
    ASSUME Inv, SyncOK, UNCHANGED <<db, nextUsn, writes>>, fails' \in Nat,
           NEW c \in Server, NEW k, cycle' = [cycle EXCEPT ![c] = k],
           \A b \in Server : b # c => utd'[b] = utd[b] /\ hwm'[b] = hwm[b],
           SyncCycle(db, c, k, utd'[c], hwm'[c], writes)
    PROVE  SyncOK'
  <1>1. cycle'[c] = k /\ \A b \in Server : b # c => cycle'[b] = cycle[b]
    BY CycleNow
  <1>2. \A b \in Server : SyncCycle(db', b, cycle'[b], utd'[b], hwm'[b], writes')
    BY <1>1 DEF SyncOK
  <1>3. CreatedOnce' /\ LocalOK'
    BY DEF SyncOK, CreatedOnce, LocalOK
  <1> QED
    BY <1>2, <1>3 DEF SyncOK

LEMMA SyncBegin ==
    ASSUME Inv, KnownOK, CoverOK, SyncOK, NEW c \in Server, NEW p \in Server,
           BeginCycle(c, p)
    PROVE  SyncOK'
  <1>1. PICK k \in AnyCycle :
             /\ cycle' = [cycle EXCEPT ![c] = k]
             /\ cycle[c].step = "none" /\ k.step = "request"
             /\ k.partner = p /\ k.last = hwm[c][p] /\ k.utd = utd[c]
             /\ k.added = {} /\ k.page = NoPage /\ k.failed = {}
    BY BeginIs
  <1>2. NoPage.entries = {} /\ hwm[c][p] \in Nat
    BY DEF NoPage, Inv, TypesOK, UsnVector
  <1>3. SyncCycle(db, c, cycle[c], utd[c], hwm[c], writes)
    BY DEF SyncOK
  <1>4. Transfer(db, c, k)
    <2>1. ASSUME NEW e \in Entry, NEW a \in AllAttr, db[p][e].usnChanged <= hwm[c][p]
          PROVE  Settled(db[c][e], a, db[p][e].meta[a])
      <3>1. PICK m \in Meta : m = db[p][e].meta[a]
        BY HeldIs
      <3>2. Known(e, a, m, writes) /\ Covered(c, m, utd[c])
        BY <2>1, <3>1 DEF KnownOK, KnownDb, CoverOK, HwmCovers, Behind
      <3>3. Settled(db[c][e], a, m)
        BY <1>3, <3>2, KnownSettled DEF SyncCycle
      <3> QED
        BY <3>1, <3>3
    <2>2. ASSUME NEW e \in Entry, ~(db[p][e].usnChanged <= hwm[c][p])
          PROVE  Beyond(db[p][e], k)
      BY <1>1, <1>2, <2>2, HeldIs DEF Beyond, InPage
    <2> QED
      BY <1>1, <2>1, <2>2 DEF Transfer
  <1>5. AddedHas(db, c, k) /\ PageOK(db, c, k) /\ FailedOK(db, c, k)
    BY <1>1, <1>2 DEF AddedHas, PageOK, FailedOK
  <1>6. IdleOK(k, utd[c], hwm[c])
    BY <1>1, <1>2 DEF IdleOK, InPage
  <1>7. HeldCovered(db, c, k, utd[c])
    BY <1>1, <1>3 DEF SyncCycle, HeldCovered
  <1>8. CreatedKnown(db, c, k, utd[c])
    BY <1>1, <1>3 DEF SyncCycle, HeldCovered, CreatedKnown, AllAttr
  <1>9. HasAll(db, c, utd[c], writes) /\ Clean(db, c, k, writes)
    BY <1>1, <1>3 DEF SyncCycle, Clean
  <1>10. SyncCycle(db, c, k, utd[c], hwm[c], writes)
    BY <1>4, <1>5, <1>6, <1>7, <1>8, <1>9 DEF SyncCycle
  <1>11. UNCHANGED <<db, nextUsn, writes, utd, hwm, fails>>
    BY DEF BeginCycle
  <1> QED
    BY <1>1, <1>10, <1>11, SyncOne DEF SyncOK

LEMMA SyncReply ==
    ASSUME Inv, SyncOK, NEW c \in Server, Reply(c)
    PROVE  SyncOK'
  <1>1. PICK k \in AnyCycle :
             /\ cycle' = [cycle EXCEPT ![c] = k]
             /\ cycle[c].step = "search" /\ k.step = "apply"
             /\ k.partner = cycle[c].partner /\ k.last = cycle[c].last
             /\ k.utd = cycle[c].utd /\ k.failed = cycle[c].failed
             /\ k.added = cycle[c].added
             /\ k.page.entries = cycle[c].page.entries /\ k.page.hwm = cycle[c].page.hwm
             /\ k.page.utd = cycle[c].page.utd
    BY ReplyIs
  <1>2. SyncCycle(db, c, cycle[c], utd[c], hwm[c], writes)
    BY DEF SyncOK
  <1>3. Transfer(db, c, k)
    BY <1>1, <1>2 DEF SyncCycle, Transfer, Busy, InPage, Beyond
  <1>4. AddedHas(db, c, k)
    BY <1>1, <1>2 DEF SyncCycle, AddedHas, Busy
  <1>5. PageOK(db, c, k)
    BY <1>1, <1>2 DEF SyncCycle, PageOK, PageEntryOK
  <1>6. FailedOK(db, c, k)
    BY <1>1, <1>2 DEF SyncCycle, FailedOK
  <1>7. IdleOK(k, utd[c], hwm[c])
    BY <1>1, <1>2 DEF SyncCycle, IdleOK, Busy, InPage
  <1>8. HeldCovered(db, c, k, utd[c]) /\ CreatedKnown(db, c, k, utd[c])
    BY <1>1, <1>2 DEF SyncCycle, HeldCovered, CreatedKnown
  <1>9. HasAll(db, c, utd[c], writes) /\ Clean(db, c, k, writes)
    BY <1>1, <1>2 DEF SyncCycle, Clean
  <1>10. SyncCycle(db, c, k, utd[c], hwm[c], writes)
    BY <1>3, <1>4, <1>5, <1>6, <1>7, <1>8, <1>9 DEF SyncCycle
  <1>11. UNCHANGED <<db, nextUsn, writes, utd, hwm, fails>>
    BY DEF Reply
  <1> QED
    BY <1>1, <1>10, <1>11, SyncOne DEF SyncOK

LEMMA NoCycleSync ==
    ASSUME NEW D, NEW c, NEW u, NEW h, NEW W, HeldCovered(D, c, NoCycle, u),
           CreatedKnown(D, c, NoCycle, u), HasAll(D, c, u, W)
    PROVE  SyncCycle(D, c, NoCycle, u, h, W)
  <1>1. NoCycle.step = "none" /\ NoCycle.page.entries = {} /\ NoCycle.failed = {}
    BY DEF NoCycle, NoPage
  <1>2. Transfer(D, c, NoCycle) /\ AddedHas(D, c, NoCycle) /\ IdleOK(NoCycle, u, h)
    BY <1>1 DEF Transfer, AddedHas, IdleOK, Busy
  <1>3. PageOK(D, c, NoCycle) /\ FailedOK(D, c, NoCycle) /\ Clean(D, c, NoCycle, W)
    BY <1>1 DEF PageOK, FailedOK, Clean
  <1> QED
    BY <1>2, <1>3 DEF SyncCycle

\* What a server holds was made by a server.
LEMMA HeldOrig ==
    ASSUME Inv, KnownOK, NEW s \in Server, NEW e \in Entry, NEW a \in AllAttr,
           db[s][e].meta[a].version > 0
    PROVE  db[s][e].meta[a].orig \in Server /\ db[s][e].meta[a].usn \in Nat
  <1>1. db[s][e].meta[a] \in Meta
    BY HeldIs
  <1> QED
    BY <1>1 DEF KnownOK, KnownDb, Known, Meta

LEMMA SyncSaveUtd ==
    ASSUME Inv, KnownOK, CoverOK, SyncOK, NEW c \in Server, SaveUtd(c)
    PROVE  SyncOK'
  <1>1. PICK k \in AnyCycle :
             /\ cycle' = [cycle EXCEPT ![c] = k]
             /\ cycle[c].step = "saveUtd" /\ k.step = "saveHwm"
             /\ k.partner = cycle[c].partner /\ k.last = cycle[c].last
             /\ k.utd = cycle[c].utd /\ k.failed = cycle[c].failed
             /\ k.added = cycle[c].added /\ k.page = cycle[c].page
    BY SaveUtdIs
  <1>2. SyncCycle(db, c, cycle[c], utd[c], hwm[c], writes)
    BY DEF SyncOK
  <1>3. PICK u \in UsnVector : u = cycle[c].utd /\ \A o \in Server : utd[c][o] <= u[o]
    BY <1>1, CycleNow DEF CycleFits, CoverOK, CoverCycle
  <1>4. utd[c] \in UsnVector
    BY DEF Inv, TypesOK
  <1>5. HasAll(db, c, u, writes) /\ Clean(db, c, k, writes)
    BY <1>1, <1>2, <1>3 DEF SyncCycle, Clean
  <1>6. HeldCovered(db, c, k, u)
    <2>1. ASSUME NEW e \in Entry, NEW a \in AllAttr, db[c][e].meta[a].version > 0
          PROVE  db[c][e].meta[a].orig = c \/ db[c][e].meta[a].usn <= u[db[c][e].meta[a].orig]
      <3>1. PICK o \in Server, n \in Nat : o = db[c][e].meta[a].orig /\ n = db[c][e].meta[a].usn
        BY <2>1, HeldOrig
      <3>2. o = c \/ n <= utd[c][o] \/ n <= u[o]
        BY <1>1, <1>2, <1>3, <2>1, <3>1 DEF SyncCycle, HeldCovered
      <3>3. utd[c][o] \in Nat /\ u[o] \in Nat /\ utd[c][o] <= u[o]
        BY <1>3, <1>4 DEF UsnVector
      <3>4. o = c \/ n <= u[o]
        BY <3>2, <3>3
      <3> QED
        BY <3>1, <3>4
    <2> QED
      BY <2>1 DEF HeldCovered
  <1>7. CreatedKnown(db, c, k, u)
    BY <1>1, <1>2, <1>3, <1>6 DEF SyncCycle, CreatedKnown, HeldCovered, AllAttr
  <1>8. Transfer(db, c, k) /\ AddedHas(db, c, k) /\ IdleOK(k, u, hwm[c])
    BY <1>1 DEF Transfer, AddedHas, IdleOK, Busy
  <1>9. PageOK(db, c, k) /\ FailedOK(db, c, k)
    BY <1>1, <1>2 DEF SyncCycle, PageOK, PageEntryOK, FailedOK
  <1>10. SyncCycle(db, c, k, u, hwm[c], writes)
    BY <1>5, <1>6, <1>7, <1>8, <1>9 DEF SyncCycle
  <1>11. UNCHANGED <<db, nextUsn, writes, hwm, fails>> /\ utd' = [utd EXCEPT ![c] = u]
    BY <1>3 DEF SaveUtd
  <1>12. utd'[c] = u /\ \A b \in Server : b # c => utd'[b] = utd[b]
    BY <1>11 DEF Inv, TypesOK
  <1> QED
    BY <1>1, <1>10, <1>11, <1>12, SyncOne DEF SyncOK

LEMMA SyncSaveHwm ==
    ASSUME Inv, KnownOK, CoverOK, SyncOK, NEW c \in Server, SaveHwm(c)
    PROVE  SyncOK'
  <1>1. PICK p \in Server : p = cycle[c].partner /\ cycle[c].last \in Nat
    BY CycleNow, CycleParts DEF SaveHwm, CycleFits
  <1>2. /\ cycle' = [cycle EXCEPT ![c] = NoCycle]
        /\ UNCHANGED <<db, nextUsn, utd, writes, fails>>
        /\ hwm' = [hwm EXCEPT ![c][p] = cycle[c].last] /\ cycle[c].step = "saveHwm"
    BY <1>1 DEF SaveHwm, EndCycle
  <1>3. SyncCycle(db, c, cycle[c], utd[c], hwm[c], writes) /\ cycle[c].utd = utd[c]
    BY <1>2 DEF SyncOK, CoverOK, CoverCycle
  <1>4. \A b \in Server : b # c => hwm'[b] = hwm[b]
    BY <1>2 DEF Inv, TypesOK
  <1>5. HeldCovered(db, c, NoCycle, utd[c])
    BY <1>2, <1>3 DEF SyncCycle, HeldCovered
  <1>6. CreatedKnown(db, c, NoCycle, utd[c])
    <2>1. NoCycle.step = "none"
      BY DEF NoCycle
    <2> QED
      BY <1>3, <1>5, <2>1 DEF SyncCycle, CreatedKnown, HeldCovered, AllAttr
  <1>7. SyncCycle(db, c, NoCycle, utd'[c], hwm'[c], writes)
    BY <1>2, <1>3, <1>5, <1>6, NoCycleSync DEF SyncCycle
  <1> QED
    BY <1>2, <1>4, <1>7, SyncOne DEF SyncOK

-----------------------------------------------------------------------------
(* The search *)

LEMMA PageEntryFields ==
    ASSUME NEW c, NEW p, NEW e
    PROVE  /\ PageEntry(c, p, e).entry = e
           /\ PageEntry(c, p, e).deleted = Deleted(p, e)
           /\ PageEntry(c, p, e).state = SyncState(InScope(c, p, e))
           /\ DOMAIN PageEntry(c, p, e).meta = InScope(c, p, e)
           /\ \A a \in InScope(c, p, e) : PageEntry(c, p, e).meta[a] = db[p][e].meta[a]
  BY DEF PageEntry

\* The consumer c asks p for a page.
Asks(c, p) == cycle[c].step = "request" /\ p = cycle[c].partner

LEMMA AsksIs ==
    ASSUME Inv, CoverOK, NEW c \in Server, NEW p \in Server, Asks(c, p)
    PROVE  /\ cycle[c].page.entries = {} /\ Busy(cycle[c]) /\ ~InPage(cycle[c])
           /\ cycle[c].last \in Nat /\ cycle[c].last < nextUsn[p] /\ cycle[c].last >= 1
           /\ cycle[c].utd \in UsnVector /\ utd[c] \in UsnVector
           /\ \A o \in Server : utd[c][o] <= cycle[c].utd[o]
  <1>1. /\ cycle[c].page.entries = {} /\ cycle[c].last \in Nat /\ cycle[c].last < nextUsn[p]
        /\ cycle[c].utd \in UsnVector
    BY CycleNow, CycleParts DEF CycleFits, Asks
  <1>2. Busy(cycle[c]) /\ ~InPage(cycle[c])
    BY DEF Asks, Busy, InPage
  <1>3. cycle[c].last >= 1 /\ \A o \in Server : utd[c][o] <= cycle[c].utd[o]
    BY DEF Asks, CoverOK, CoverCycle
  <1> QED
    BY <1>1, <1>2, <1>3 DEF Inv, TypesOK

\* What is not in scope, the consumer has.
LEMMA SearchSettles ==
    ASSUME Inv, KnownOK, CoverOK, SyncOK, NEW c \in Server, NEW p \in Server, Asks(c, p),
           NEW e \in Entry, NEW a \in AllAttr, a \notin InScope(c, p, e)
    PROVE  Settled(db[c][e], a, db[p][e].meta[a])
  <1>1. PICK m \in Meta : m = db[p][e].meta[a]
    BY HeldIs
  <1>2. Known(e, a, m, writes)
    BY <1>1 DEF KnownOK, KnownDb
  <1>3. SyncCycle(db, c, cycle[c], utd[c], hwm[c], writes)
    BY DEF SyncOK
  <1>4. CASE ~Uncovered(c, m)
    <2>1. Covered(c, m, utd[c])
      <3>1. SUFFICES ASSUME m.version > 0, m.orig # c PROVE m.usn <= utd[c][m.orig]
        BY DEF Covered
      <3>2. m.orig \in Server /\ m.usn \in Nat /\ m.version \in Nat
        BY <1>2, <3>1 DEF Known, Meta
      <3>3. utd[c][m.orig] \in Nat
        BY <3>2 DEF Inv, TypesOK, UsnVector
      <3> QED
        BY <1>4, <3>1, <3>2, <3>3 DEF Uncovered
    <2>2. Settled(db[c][e], a, m)
      BY <1>2, <1>3, <2>1, KnownSettled DEF SyncCycle
    <2> QED
      BY <1>1, <2>2
  <1>5. CASE Uncovered(c, m)
    <2>1. m.version > 0 /\ ~(m.localUsn > PriorUsnCreated(c, p, e))
      BY <1>1, <1>5 DEF InScope, Uncovered
    <2>2. m.localUsn \in Nat /\ m.localUsn >= 1
      BY <1>1, <2>1 DEF SyncOK, LocalOK, Meta
    <2>3. e \in cycle[c].added /\ ~(m.localUsn > db[p][e].meta["usnCreated"].localUsn)
      BY <2>1, <2>2 DEF PriorUsnCreated
    <2>4. db[p][e].meta["usnCreated"].localUsn \in Nat
      BY HeldIs DEF AllAttr, Meta
    <2>5. m.localUsn <= db[p][e].meta["usnCreated"].localUsn
      BY <2>2, <2>3, <2>4
    <2>6. cycle[c].page.entries = {} /\ Busy(cycle[c])
      BY AsksIs
    <2>7. ~Pending(cycle[c].page.entries, e, a, m)
      BY <2>6 DEF Pending
    <2> QED
      BY <1>1, <1>3, <2>3, <2>5, <2>6, <2>7 DEF SyncCycle, AddedHas, Asks
  <1> QED
    BY <1>4, <1>5

\* What has not changed since the last page, the consumer has.
LEMMA SettledBefore ==
    ASSUME Inv, CoverOK, SyncOK, NEW c \in Server, NEW p \in Server, Asks(c, p),
           NEW e \in Entry, NEW a \in AllAttr, db[p][e].usnChanged <= cycle[c].last
    PROVE  Settled(db[c][e], a, db[p][e].meta[a])
  <1>1. Transfer(db, c, cycle[c])
    BY DEF SyncOK, SyncCycle
  <1>2. cycle[c].page.entries = {} /\ Busy(cycle[c]) /\ cycle[c].last \in Nat
    BY AsksIs
  <1>3. db[p][e].usnChanged \in Nat
    BY HeldIs
  <1>4. ~Beyond(db[p][e], cycle[c])
    BY <1>2, <1>3 DEF Beyond
  <1>5. ~Pending(cycle[c].page.entries, e, a, db[p][e].meta[a])
    BY <1>2 DEF Pending
  <1> QED
    BY <1>1, <1>2, <1>4, <1>5 DEF Transfer, Asks

\* What the page has gone past, the consumer has, or it is in the page.
LEMMA SearchBrings ==
    ASSUME Inv, KnownOK, CoverOK, SyncOK, NEW c \in Server, NEW p \in Server, Asks(c, p),
           NEW E, E = {PageEntry(c, p, f) : f \in Examined(c, p) \cap Sendable(c, p)},
           NEW e \in Examined(c, p), NEW a \in AllAttr
    PROVE  \/ Settled(db[c][e], a, db[p][e].meta[a])
           \/ Pending(E, e, a, db[p][e].meta[a])
  <1>1. e \in Candidate(c, p) /\ e \in Entry
    BY CandidateIs
  <1>2. CASE a \notin InScope(c, p, e)
    BY <1>1, <1>2, SearchSettles
  <1>3. CASE a \in InScope(c, p, e)
    <2>1. e \in Sendable(c, p)
      BY <1>1, <1>3 DEF Sendable
    <2>2. PICK y \in E : y = PageEntry(c, p, e)
      BY <2>1
    <2>3. db[p][e].meta[a] \in Meta
      BY <1>1, HeldIs
    <2>4. Brings(y, a, db[p][e].meta[a]) /\ y.entry = e
      BY <1>3, <2>2, <2>3, PageEntryFields, SupersedesSelf DEF Brings
    <2> QED
      BY <2>4 DEF Pending
  <1> QED
    BY <1>2, <1>3

\* A candidate up to the mark of the page has been looked at.
LEMMA SearchExamined ==
    ASSUME Inv, CoverOK, NEW c \in Server, NEW p \in Server, Asks(c, p), NEW e \in Entry,
           db[p][e].usnChanged > cycle[c].last, db[p][e].usnChanged <= PageHwm(c, p)
    PROVE  e \in Examined(c, p)
  <1>1. /\ cycle[c].last \in Nat /\ cycle[c].last < nextUsn[p] /\ cycle[c].last >= 1
        /\ db[p][e].usnChanged \in Nat
    BY AsksIs, HeldIs
  <1>2. e \in Candidate(c, p)
    BY DEF Candidate
  <1>3. PICK f \in Examined(c, p) : PageHwm(c, p) = db[p][f].usnChanged
    BY <1>1, PageHwmTop
  <1> QED
    BY <1>1, <1>2, <1>3, ExaminedInOrder

\* An entry is sent as an addition exactly if the consumer does not have it.
LEMMA SearchAdds ==
    ASSUME Inv, KnownOK, CoverOK, SyncOK, NEW c \in Server, NEW p \in Server, Asks(c, p),
           NEW e \in Entry, Held(db[p][e])
    PROVE  "usnCreated" \in InScope(c, p, e) <=> ~Held(db[c][e])
  <1>0. "usnCreated" \in AllAttr
    BY DEF AllAttr
  <1>1. PICK m \in Meta : m = db[p][e].meta["usnCreated"]
    BY <1>0, HeldIs
  <1>2. m.version > 0 /\ m.localUsn \in Nat /\ m.version \in Nat /\ m.usn \in Nat
    BY <1>1 DEF SyncOK, SyncCycle, CreatedKnown, Meta
  <1>3. ASSUME Held(db[c][e]), "usnCreated" \in InScope(c, p, e) PROVE FALSE
    <2>1. SameChange(db[c][e].meta["usnCreated"], m)
      BY <1>1, <1>3 DEF SyncOK, CreatedOnce
    <2>2. m.orig = c \/ m.usn <= utd[c][m.orig] \/ e \in cycle[c].added
      BY <1>3, <2>1 DEF SyncOK, SyncCycle, CreatedKnown, SameChange
    <2>3. Uncovered(c, m) /\ m.localUsn > PriorUsnCreated(c, p, e)
      BY <1>1, <1>3 DEF InScope
    <2>4. e \notin cycle[c].added
      BY <1>1, <1>2, <2>3 DEF PriorUsnCreated
    <2>5. m.orig \in Server
      BY <1>0, <1>1, <1>2, HeldOrig
    <2>6. utd[c][m.orig] \in Nat
      BY <2>5 DEF Inv, TypesOK, UsnVector
    <2> QED
      BY <1>2, <2>2, <2>3, <2>4, <2>6 DEF Uncovered
  <1>4. ASSUME ~Held(db[c][e]), "usnCreated" \notin InScope(c, p, e) PROVE FALSE
    <2>1. Settled(db[c][e], "usnCreated", m)
      BY <1>0, <1>1, <1>4, SearchSettles
    <2>2. ~Tomb(db[c][e]) /\ Unset(db[c][e].meta["usnCreated"])
      BY <1>0, <1>4, HeldEntry
    <2> QED
      BY <1>2, <2>1, <2>2 DEF Settled, Supersedes, Unset
  <1> QED
    BY <1>3, <1>4

LEMMA SearchPage ==
    ASSUME Inv, KnownOK, CoverOK, SyncOK, NEW c \in Server, NEW p \in Server, Asks(c, p),
           NEW k, k.partner = p, k.page.utd = PageUtd(c, p),
           k.page.entries = {PageEntry(c, p, f) : f \in Examined(c, p) \cap Sendable(c, p)},
           \A y \in k.page.entries : y.state = "add" => y.entry \in k.added
    PROVE  PageOK(db, c, k)
  <1> SUFFICES ASSUME NEW y \in k.page.entries
               PROVE  PageEntryOK(db, c, k, y)
    BY DEF PageOK
  <1>1. PICK e \in Examined(c, p) \cap Sendable(c, p) : y = PageEntry(c, p, e)
    OBVIOUS
  <1>2. e \in Entry
    BY CandidateIs
  <1>3. PICK A : A = InScope(c, p, e)
    OBVIOUS
  <1>4. A \subseteq AllAttr /\ A # {} /\ \A a \in A : Uncovered(c, db[p][e].meta[a])
    BY <1>1, <1>3 DEF InScope, Sendable
  <1>5. /\ y.entry = e /\ y.deleted = Deleted(p, e) /\ y.state = SyncState(A)
        /\ DOMAIN y.meta = A /\ \A a \in A : y.meta[a] = db[p][e].meta[a]
    BY <1>1, <1>3, PageEntryFields
  <1>6. Held(db[p][e])
    <2>1. PICK a \in AllAttr : db[p][e].meta[a].version > 0
      BY <1>4 DEF Uncovered
    <2>2. ~Unset(db[p][e].meta[a])
      BY <2>1 DEF Unset
    <2> QED
      BY <1>2, <2>2, HeldEntry
  <1>7. /\ y.state = "add" <=> "usnCreated" \in A
        /\ y.state = "modify" => "isDeleted" \notin A
    BY <1>5 DEF SyncState
  <1>8. "usnCreated" \in A <=> ~Held(db[c][e])
    BY <1>2, <1>3, <1>6, SearchAdds
  <1>9. "isDeleted" \in A => y.deleted
    BY <1>4, <1>5 DEF Uncovered, Deleted
  <1>10. y.deleted => "isDeleted" \in A \/ Tomb(db[c][e])
    <2>1. SUFFICES ASSUME Deleted(p, e), "isDeleted" \notin A PROVE Tomb(db[c][e])
      BY <1>5
    <2>2. "isDeleted" \in AllAttr
      BY DEF AllAttr
    <2>3. Settled(db[c][e], "isDeleted", db[p][e].meta["isDeleted"])
      BY <1>2, <1>3, <2>1, <2>2, SearchSettles
    <2>4. Ordered(db[p][e].meta["isDeleted"]) /\ db[c][e] \in DbEntry
      BY <1>2, <2>2, HeldEntry
    <2> QED
      BY <2>1, <2>3, <2>4, DeletionSettles DEF Deleted
  <1>11. ASSUME NEW a \in A PROVE y.meta[a].usn <= k.page.utd[y.meta[a].orig]
    <2>1. Uncovered(c, db[p][e].meta[a]) /\ a \in AllAttr
      BY <1>4
    <2>2. db[p][e].meta[a].orig \in Server
      BY <1>2, <2>1, HeldOrig DEF Uncovered
    <2> QED
      BY <1>5, <2>1, <2>2, PageUtdTop
  <1>12. ASSUME NEW z \in k.page.entries, z.entry = y.entry PROVE z = y
    <2>1. PICK f \in Examined(c, p) \cap Sendable(c, p) : z = PageEntry(c, p, f)
      OBVIOUS
    <2> QED
      BY <1>1, <1>5, <1>12, <2>1, PageEntryFields
  <1>13. y.state = "add" =>
            SameChange(y.meta["usnCreated"], db[p][e].meta["usnCreated"])
    BY <1>5, <1>7 DEF SameChange
  <1> QED
    BY <1>5, <1>6, <1>7, <1>8, <1>9, <1>10, <1>11, <1>12, <1>13 DEF PageEntryOK

LEMMA SyncSearch ==
    ASSUME Inv, KnownOK, CoverOK, SyncOK, NEW c \in Server, Search(c)
    PROVE  SyncOK'
  <1>1. PICK p \in Server, k \in AnyCycle :
             /\ cycle' = [cycle EXCEPT ![c] = k]
             /\ cycle[c].step = "request" /\ k.step = "search"
             /\ p = cycle[c].partner /\ k.partner = p /\ k.last = cycle[c].last
             /\ k.utd = cycle[c].utd /\ k.failed = cycle[c].failed
             /\ k.page.entries =
                  {PageEntry(c, p, e) : e \in Examined(c, p) \cap Sendable(c, p)}
             /\ k.page.hwm = PageHwm(c, p) /\ k.page.utd = PageUtd(c, p)
             /\ k.added = cycle[c].added
                            \cup {x.entry : x \in {y \in k.page.entries : y.state = "add"}}
    BY SearchIs
  <1>2. Asks(c, p) /\ SyncCycle(db, c, cycle[c], utd[c], hwm[c], writes)
    BY <1>1 DEF Asks, SyncOK
  <1>3. /\ cycle[c].page.entries = {} /\ Busy(cycle[c]) /\ ~InPage(cycle[c])
        /\ cycle[c].last \in Nat /\ cycle[c].last < nextUsn[p] /\ cycle[c].last >= 1
    BY <1>2, AsksIs
  <1>4. Busy(k) /\ InPage(k) /\ PageHwm(c, p) \in Nat
    BY <1>1, <1>3, PageHwmIs DEF Busy, InPage
  <1>5. Transfer(db, c, k)
    <2>1. SUFFICES ASSUME NEW e \in Entry, NEW a \in AllAttr, ~Beyond(db[p][e], k)
                   PROVE  \/ Settled(db[c][e], a, db[p][e].meta[a])
                          \/ Pending(k.page.entries, e, a, db[p][e].meta[a])
      BY <1>1 DEF Transfer
    <2>2. db[p][e].usnChanged \in Nat
      BY HeldIs
    <2>3. \/ db[p][e].usnChanged <= cycle[c].last
          \/ /\ db[p][e].usnChanged > cycle[c].last
             /\ db[p][e].usnChanged <= PageHwm(c, p)
      BY <1>1, <1>3, <1>4, <2>1, <2>2 DEF Beyond
    <2>4. CASE db[p][e].usnChanged <= cycle[c].last
      BY <1>2, <2>4, SettledBefore
    <2>5. CASE /\ db[p][e].usnChanged > cycle[c].last
               /\ db[p][e].usnChanged <= PageHwm(c, p)
      <3>1. e \in Examined(c, p)
        BY <1>2, <2>5, SearchExamined
      <3> QED
        BY <1>1, <1>2, <3>1, SearchBrings
    <2> QED
      BY <2>3, <2>4, <2>5
  <1>6. AddedHas(db, c, k)
    <2>1. SUFFICES ASSUME NEW e \in k.added
                   PROVE  /\ Held(db[p][e])
                          /\ \A a \in AllAttr :
                                db[p][e].meta[a].localUsn
                                  <= db[p][e].meta["usnCreated"].localUsn
                                => \/ Settled(db[c][e], a, db[p][e].meta[a])
                                   \/ Pending(k.page.entries, e, a, db[p][e].meta[a])
      BY <1>1 DEF AddedHas
    <2>2. CASE e \in cycle[c].added
      <3>1. \A a : ~Pending(cycle[c].page.entries, e, a, db[p][e].meta[a])
        BY <1>3 DEF Pending
      <3> QED
        BY <1>1, <1>2, <1>3, <2>2, <3>1 DEF SyncCycle, AddedHas
    <2>3. CASE e \notin cycle[c].added
      <3>1. PICK y \in k.page.entries : y.entry = e
        BY <1>1, <2>3
      <3>2. e \in Examined(c, p)
        BY <1>1, <3>1, PageEntryFields
      <3>3. \A a \in AllAttr : \/ Settled(db[c][e], a, db[p][e].meta[a])
                               \/ Pending(k.page.entries, e, a, db[p][e].meta[a])
        BY <1>1, <1>2, <3>2, SearchBrings
      <3>4. e \in Entry /\ e \in Candidate(c, p)
        BY <3>2, CandidateIs
      <3>5. Held(db[p][e])
        BY <1>3, <3>4 DEF Candidate, Held
      <3> QED
        BY <3>3, <3>5
    <2> QED
      BY <2>2, <2>3
  <1>7. PageOK(db, c, k)
    <2>1. \A y \in k.page.entries : y.state = "add" => y.entry \in k.added
      BY <1>1
    <2> QED
      BY <1>1, <1>2, <2>1, SearchPage
  <1>8. FailedOK(db, c, k)
    BY <1>1, <1>2 DEF SyncCycle, FailedOK
  <1>9. IdleOK(k, utd[c], hwm[c])
    <2>1. IdleOK(cycle[c], utd[c], hwm[c])
      BY <1>2 DEF SyncCycle
    <2>2. ASSUME PageHwm(c, p) <= cycle[c].last, cycle[c].last = hwm[c][p]
          PROVE  PageUtd(c, p) = utd[c] /\ k.added = {}
      <3>1. ASSUME NEW e \in Examined(c, p) PROVE FALSE
        <4>1. e \in Entry /\ e \in Candidate(c, p)
          BY CandidateIs
        <4>2. db[p][e].usnChanged \in Nat /\ db[p][e].usnChanged <= PageHwm(c, p)
          BY <1>3, <4>1, HeldIs, PageHwmTop
        <4> QED
          BY <1>3, <1>4, <2>2, <4>1, <4>2 DEF Candidate
      <3>2. Examined(c, p) = {}
        BY <3>1
      <3>3. \A o \in Server : PageUtd(c, p)[o] = utd[c][o]
        BY <3>2, PageUtdTop
      <3>4. PageUtd(c, p) \in UsnVector /\ utd[c] \in UsnVector
        BY PageUtdIs DEF Inv, TypesOK
      <3>5. k.page.entries = {}
        BY <1>1, <3>2
      <3>6. cycle[c].added = {}
        BY <1>1, <1>3, <2>1, <2>2 DEF IdleOK
      <3> QED
        BY <1>1, <3>3, <3>4, <3>5, <3>6 DEF UsnVector
    <2> QED
      BY <1>1, <1>3, <1>4, <2>1, <2>2 DEF IdleOK
  <1>10. HeldCovered(db, c, k, utd[c]) /\ CreatedKnown(db, c, k, utd[c])
    BY <1>1, <1>2 DEF SyncCycle, HeldCovered, CreatedKnown
  <1>11. HasAll(db, c, utd[c], writes) /\ Clean(db, c, k, writes)
    BY <1>1, <1>2 DEF SyncCycle, Clean
  <1>12. SyncCycle(db, c, k, utd[c], hwm[c], writes)
    BY <1>5, <1>6, <1>7, <1>8, <1>9, <1>10, <1>11 DEF SyncCycle
  <1>13. UNCHANGED <<db, nextUsn, writes, utd, hwm, fails>>
    BY DEF Search
  <1> QED
    BY <1>1, <1>12, <1>13, SyncOne DEF SyncOK

-----------------------------------------------------------------------------
(* The order of those who wait *)

\* The server t gets no further from the write, and s does not begin to owe it; q are
\* the ranks after the step.
Moves(t, w, r, q) ==
    /\ Has(t, w) => Has(t, w)'
    /\ Owes(t, w) => Has(t, w)' \/ (Owes(t, w)' /\ q[t] = r[t])
Stays(s, w, r, q) == Owes(s, w)' => Owes(s, w) /\ q[s] = r[s]

LEMMA SourceMoves ==
    ASSUME NEW s, NEW t, NEW w, NEW r, NEW q, Moves(t, w, r, q), Stays(s, w, r, q),
           Source(s, t, w, r)
    PROVE  Source(s, t, w, q)'
  BY DEF Moves, Stays, Source

LEMMA VectorServers ==
    ASSUME NEW v \in EmptyPageVector
    PROVE  \A t \in DOMAIN v : t \in Server
  BY DEF EmptyPageVector

LEMMA MarkedMoves ==
    ASSUME NEW s, NEW w, NEW r, NEW q, \A t \in Server : Moves(t, w, r, q),
           Stays(s, w, r, q), NEW v \in EmptyPageVector, Marked(s, v, w, r)
    PROVE  Marked(s, v, w, q)'
  <1>1. PICK t \in DOMAIN v : t # s /\ v[t] < EmptyPageCnt /\ Source(s, t, w, r)
    BY DEF Marked
  <1>2. t \in Server
    BY VectorServers
  <1>3. Source(s, t, w, q)'
    BY <1>1, <1>2, SourceMoves
  <1> QED
    BY <1>1, <1>3 DEF Marked

\* The partner and the vector of a server that is not concerned stay.
LEMMA RankPartnerStays ==
    ASSUME Inv, NEW s \in Server, NEW w, NEW r, NEW q, \A t \in Server : Moves(t, w, r, q),
           Stays(s, w, r, q), cycle'[s].partner = cycle[s].partner, RankPartner(s, w, r)
    PROVE  RankPartner(s, w, q)'
  <1> SUFFICES ASSUME Owes(s, w)' PROVE Source(s, cycle[s].partner, w, q)'
    BY DEF RankPartner
  <1>1. Owes(s, w)
    BY DEF Stays
  <1>2. PICK p \in Server : p = cycle[s].partner
    BY <1>1, CycleNow, CycleParts DEF Owes, Busy, CycleFits
  <1>3. Source(s, p, w, r)
    BY <1>1, <1>2 DEF RankPartner
  <1>4. Source(s, p, w, q)'
    BY <1>3, SourceMoves
  <1> QED
    BY <1>2, <1>4 DEF Source, Has, Owes

LEMMA RankVectorStays ==
    ASSUME Inv, NEW s \in Server, NEW w, NEW r, NEW q, \A t \in Server : Moves(t, w, r, q),
           Stays(s, w, r, q), vector'[s] = vector[s], RankVector(s, w, r)
    PROVE  RankVector(s, w, q)'
  <1> SUFFICES ASSUME Owes(s, w)'
               PROVE  \E t \in DOMAIN vector'[s] :
                         /\ vector'[s][t] < EmptyPageCnt
                         /\ Has(t, w)' \/ (Owes(t, w)' /\ q[t] <= q[s])
    BY DEF RankVector
  <1>1. Owes(s, w) /\ q[s] = r[s]
    BY DEF Stays
  <1>2. PICK t \in DOMAIN vector[s] :
           /\ vector[s][t] < EmptyPageCnt
           /\ Has(t, w) \/ (Owes(t, w) /\ r[t] <= r[s])
    BY <1>1 DEF RankVector
  <1>3. t \in Server
    BY CycleNow, VectorServers
  <1>4. Has(t, w)' \/ (Owes(t, w)' /\ q[t] <= q[s])
    BY <1>1, <1>2, <1>3 DEF Moves
  <1> QED
    BY <1>2, <1>4

\* A supplier that is searched goes on with what it is doing.
GoesOn(s) ==
    cycle[s].step = "search" =>
       \A p \in Server : p = cycle[s].partner /\ Busy(cycle[p])
           => Busy(cycle'[p]) /\ VectorFor(s, p)' = VectorFor(s, p)

LEMMA RankPageStays ==
    ASSUME Inv, NEW s \in Server, NEW w, NEW r, NEW q, \A t \in Server : Moves(t, w, r, q),
           Stays(s, w, r, q), Misses(s, w)' => Misses(s, w), GoesOn(s),
           cycle'[s].partner = cycle[s].partner, cycle'[s].step = cycle[s].step,
           cycle'[s].page.sent = cycle[s].page.sent,
           cycle'[s].page.more = cycle[s].page.more,
           cycle'[s].page.vector = cycle[s].page.vector, RankPage(s, w, r)
    PROVE  RankPage(s, w, q)'
  <1>1. SUFFICES ASSUME Misses(s, w)'
                 PROVE  (/\ Has(cycle[s].partner, w) \/ Owes(cycle[s].partner, w)
                         /\ cycle[s].step = "search" =>
                              \/ cycle[s].page.sent = PageSize
                              \/ /\ Busy(cycle[cycle[s].partner])
                                 /\ cycle[s].page.sent = 0 =>
                                       Marked(s, VectorFor(s, cycle[s].partner), w, q)
                         /\ cycle[s].step = "apply" =>
                              /\ cycle[s].page.more
                              /\ \/ cycle[s].page.vector = NoVector
                                 \/ Marked(s, cycle[s].page.vector, w, q))'
    BY DEF RankPage
  <1>2. Misses(s, w) /\ InPage(cycle[s])
    BY <1>1 DEF Misses
  <1>3. PICK p \in Server : p = cycle[s].partner /\ p = cycle'[s].partner
    BY <1>2, CycleNow, CycleParts DEF InPage, CycleFits
  <1>4. Has(p, w)' \/ Owes(p, w)'
    BY <1>2, <1>3 DEF RankPage, Moves
  <1>5. ASSUME cycle[s].step = "search", cycle[s].page.sent # PageSize
        PROVE  /\ Busy(cycle'[p])
               /\ cycle[s].page.sent = 0 => Marked(s, VectorFor(s, p), w, q)'
    <2>1. /\ Busy(cycle[p])
          /\ cycle[s].page.sent = 0 => Marked(s, VectorFor(s, p), w, r)
      BY <1>2, <1>3, <1>5 DEF RankPage
    <2>2. Busy(cycle'[p]) /\ VectorFor(s, p)' = VectorFor(s, p)
      BY <1>3, <1>5, <2>1 DEF GoesOn
    <2>3. PICK v \in EmptyPageVector : v = VectorFor(s, p)
      BY VectorForType
    <2>4. ASSUME cycle[s].page.sent = 0 PROVE Marked(s, v, w, q)'
      BY <2>1, <2>3, <2>4, MarkedMoves
    <2>5. Marked(s, v, w, q)' => Marked(s, VectorFor(s, p), w, q)'
      BY <2>2, <2>3 DEF Marked
    <2> QED
      BY <2>2, <2>4, <2>5
  <1>6. ASSUME cycle[s].step = "apply"
        PROVE  /\ cycle[s].page.more
               /\ cycle[s].page.vector = NoVector \/ Marked(s, cycle[s].page.vector, w, q)'
    <2>1. PICK v \in EmptyPageVector : v = cycle[s].page.vector
      BY CycleNow, CycleParts, PageParts
    <2>2. cycle[s].page.more /\ (v = NoVector \/ Marked(s, v, w, r))
      BY <1>2, <1>6, <2>1 DEF RankPage
    <2>3. v = NoVector \/ Marked(s, v, w, q)'
      BY <2>2, MarkedMoves
    <2>4. Marked(s, v, w, q)' => Marked(s, cycle[s].page.vector, w, q)'
      BY <2>1 DEF Marked
    <2> QED
      BY <2>1, <2>2, <2>3, <2>4
  <1> QED
    BY <1>3, <1>4, <1>5, <1>6

\* The ranks of the server s, for the write.
RankOne(s, w, r) == RankPartner(s, w, r) /\ RankVector(s, w, r) /\ RankPage(s, w, r)

\* A server whose cycle does not change.
LEMMA RankOther ==
    ASSUME Inv, NEW s \in Server, NEW w, NEW r, NEW q, \A t \in Server : Moves(t, w, r, q),
           Stays(s, w, r, q), cycle'[s] = cycle[s], vector'[s] = vector[s], GoesOn(s),
           RankOne(s, w, r)
    PROVE  RankOne(s, w, q)'
  <1>1. Misses(s, w)' => Misses(s, w)
    BY DEF Misses, Moves
  <1> QED
    BY <1>1, RankPartnerStays, RankVectorStays, RankPageStays DEF RankOne

\* The step of a server c that goes on with its cycle does not concern the others.
LEMMA OthersGoOn ==
    ASSUME Inv, NEW c \in Server, NEW k, cycle' = [cycle EXCEPT ![c] = k],
           \A s \in Server : s # c => vector'[s] = vector[s],
           Busy(cycle[c]) => Busy(k) /\ k.partner = cycle[c].partner /\ vector'[c] = vector[c]
    PROVE  \A s \in Server : s # c => cycle'[s] = cycle[s] /\ GoesOn(s)
  <1>1. cycle'[c] = k /\ \A b \in Server : b # c => cycle'[b] = cycle[b]
    BY CycleNow
  <1>2. ASSUME NEW s \in Server, NEW p \in Server, Busy(cycle[p])
        PROVE  Busy(cycle'[p]) /\ VectorFor(s, p)' = VectorFor(s, p)
    BY <1>1, <1>2 DEF VectorFor
  <1> QED
    BY <1>1, <1>2 DEF GoesOn

\* A step that changes no entry changes what a server owes only with its cycle.
LEMMA MovesSame ==
    ASSUME UNCHANGED db, NEW t, NEW w, NEW r, cycle'[t] = cycle[t]
    PROVE  Moves(t, w, r, r) /\ Stays(t, w, r, r)
  BY DEF Moves, Stays, Has, Owes

LEMMA MovesCycle ==
    ASSUME UNCHANGED db, NEW t, NEW w, NEW r, Owes(t, w) <=> Owes(t, w)'
    PROVE  Moves(t, w, r, r) /\ Stays(t, w, r, r)
  BY DEF Moves, Stays, Has

\* The ranks stay for a step of c, when those of c do.
LEMMA RankStep ==
    ASSUME Inv, Ranked, UNCHANGED <<db, writes>>, NEW c \in Server, NEW k,
           cycle' = [cycle EXCEPT ![c] = k],
           \A s \in Server : s # c => vector'[s] = vector[s] /\ GoesOn(s),
           \A w \in writes : Owes(c, w) <=> Owes(c, w)',
           \A w \in writes : \A r \in [Server -> Nat] : RankOK(r, w) => RankOne(c, w, r)'
    PROVE  Ranked'
  <1> SUFFICES ASSUME NEW w \in writes
               PROVE  \E r \in [Server -> Nat] : RankOK(r, w)'
    BY DEF Ranked
  <1>1. PICK r \in [Server -> Nat] : RankOK(r, w)
    BY DEF Ranked
  <1>2. \A b \in Server : b # c => cycle'[b] = cycle[b]
    BY CycleNow
  <1>3. \A t \in Server : Moves(t, w, r, r) /\ Stays(t, w, r, r)
    BY <1>2, MovesSame, MovesCycle
  <1>4. ASSUME NEW s \in Server, s # c PROVE RankOne(s, w, r)'
    BY <1>1, <1>2, <1>3, <1>4, RankOther DEF RankOK, RankOne
  <1>5. \A s \in Server : RankOne(s, w, r)'
    BY <1>1, <1>4
  <1>6. RankOK(r, w)'
    BY <1>5 DEF RankOK, RankOne
  <1> QED
    BY <1>6

\* Steps before and after the pages.
LEMMA RankIdle ==
    ASSUME Inv, Ranked, UNCHANGED <<db, writes>>, NEW c \in Server, NEW k,
           cycle' = [cycle EXCEPT ![c] = k],
           \A s \in Server : s # c => vector'[s] = vector[s],
           ~Busy(cycle[c]), ~InPage(k), \A w \in writes : ~Owes(c, w)'
    PROVE  Ranked'
  <1>1. \A s \in Server : s # c => GoesOn(s)
    BY OthersGoOn
  <1>2. \A w \in writes : Owes(c, w) <=> Owes(c, w)'
    BY DEF Owes
  <1>3. cycle'[c] = k
    BY CycleNow
  <1>4. ASSUME NEW w \in writes, NEW r PROVE RankOne(c, w, r)'
    BY <1>3 DEF RankOne, RankPartner, RankVector, RankPage, Misses
  <1> QED
    BY <1>1, <1>2, <1>4, RankStep

LEMMA RankBegin ==
    ASSUME Inv, Ranked, SyncOK, NEW c \in Server, NEW p \in Server, BeginCycle(c, p)
    PROVE  Ranked'
  <1>1. PICK k \in AnyCycle :
             /\ cycle' = [cycle EXCEPT ![c] = k]
             /\ cycle[c].step = "none" /\ k.step = "request" /\ k.utd = utd[c]
    BY BeginIs
  <1>2. UNCHANGED <<db, writes>> /\ vector' = [vector EXCEPT ![c] = [s \in {c} |-> 0]]
    BY DEF BeginCycle
  <1>3. \A s \in Server : s # c => vector'[s] = vector[s]
    BY <1>2, CycleNow
  <1>4. cycle'[c] = k /\ ~Busy(cycle[c]) /\ ~InPage(k)
    BY <1>1, CycleNow DEF Busy, InPage
  <1>5. ASSUME NEW w \in writes PROVE ~Owes(c, w)'
    <2>1. HasAll(db, c, utd[c], writes)
      BY DEF SyncOK, SyncCycle
    <2> QED
      BY <1>1, <1>2, <1>4, <2>1 DEF Owes, Has, HasAll
  <1> QED
    BY <1>1, <1>2, <1>3, <1>4, <1>5, RankIdle

LEMMA RankSaveUtd ==
    ASSUME Inv, Ranked, NEW c \in Server, SaveUtd(c)
    PROVE  Ranked'
  <1>1. PICK k \in AnyCycle : /\ cycle' = [cycle EXCEPT ![c] = k]
                              /\ cycle[c].step = "saveUtd" /\ k.step = "saveHwm"
    BY SaveUtdIs
  <1>2. UNCHANGED <<db, writes, vector>>
    BY DEF SaveUtd
  <1>3. ~Busy(cycle[c]) /\ ~InPage(k) /\ \A w \in writes : ~Owes(c, w)'
    BY <1>1, CycleNow DEF Owes, Busy, InPage
  <1> QED
    BY <1>1, <1>2, <1>3, RankIdle

LEMMA RankSaveHwm ==
    ASSUME Inv, Ranked, NEW c \in Server, SaveHwm(c)
    PROVE  Ranked'
  <1>1. /\ UNCHANGED <<db, writes>> /\ cycle' = [cycle EXCEPT ![c] = NoCycle]
        /\ vector' = [vector EXCEPT ![c] = NoVector] /\ cycle[c].step = "saveHwm"
    BY DEF SaveHwm, EndCycle
  <1>2. \A s \in Server : s # c => vector'[s] = vector[s]
    BY <1>1, CycleNow
  <1>3. NoCycle.step = "none"
    BY DEF NoCycle
  <1>4. ~Busy(cycle[c]) /\ ~InPage(NoCycle) /\ \A w \in writes : ~Owes(c, w)'
    BY <1>1, <1>3, CycleNow DEF Owes, Busy, InPage
  <1> QED
    BY <1>1, <1>2, <1>4, RankIdle

LEMMA RankReply ==
    ASSUME Inv, Ranked, NEW c \in Server, Reply(c)
    PROVE  Ranked'
  <1>1. PICK k \in AnyCycle :
             /\ cycle' = [cycle EXCEPT ![c] = k]
             /\ cycle[c].step = "search" /\ k.step = "apply"
             /\ k.partner = cycle[c].partner /\ k.utd = cycle[c].utd
             /\ k.page.entries = cycle[c].page.entries
             /\ k.page.utd = cycle[c].page.utd
             /\ k.page.more = MoreExpected(k.partner, cycle[c].page.sent)
             /\ k.page.vector =
                  IF ConsumerRoleActive(k.partner) /\ cycle[c].page.sent = 0
                  THEN VectorFor(c, k.partner) ELSE NoVector
    BY ReplyIs
  <1>2. UNCHANGED <<db, writes, vector>> /\ cycle'[c] = k
    BY <1>1, CycleNow DEF Reply
  <1>3. \A s \in Server : s # c => GoesOn(s)
    <2>1. Busy(k)
      BY <1>1 DEF Busy
    <2> QED
      BY <1>1, <1>2, <2>1, OthersGoOn
  <1>4. \A w \in writes : Owes(c, w) <=> Owes(c, w)'
    BY <1>1, <1>2 DEF Owes, Has, Busy
  <1>5. ASSUME NEW w \in writes, NEW r \in [Server -> Nat], RankOK(r, w)
        PROVE  RankOne(c, w, r)'
    <2>1. RankPartner(c, w, r) /\ RankVector(c, w, r) /\ RankPage(c, w, r)
      BY <1>5 DEF RankOK
    <2>2. ASSUME NEW t \in Server PROVE Moves(t, w, r, r) /\ Stays(t, w, r, r)
      BY <1>1, <1>2, <1>4, CycleNow, MovesSame, MovesCycle
    <2>3. RankPartner(c, w, r)'
      BY <1>1, <1>2, <2>1, <2>2, RankPartnerStays
    <2>4. RankVector(c, w, r)'
      BY <1>2, <2>1, <2>2, RankVectorStays
    <2>5. RankPage(c, w, r)'
      <3>1. SUFFICES ASSUME Misses(c, w)'
                     PROVE  (/\ Has(cycle[c].partner, w) \/ Owes(cycle[c].partner, w)
                             /\ cycle[c].step # "search"
                             /\ cycle[c].page.more
                             /\ \/ cycle[c].page.vector = NoVector
                                \/ Marked(c, cycle[c].page.vector, w, r))'
        BY DEF RankPage
      <3>2. Misses(c, w)
        BY <1>1, <1>2, <3>1 DEF Misses, Has, InPage
      <3>3. PICK p \in Server : p = cycle[c].partner
        BY <1>1, CycleNow, CycleParts DEF CycleFits
      <3>4. /\ Has(p, w) \/ Owes(p, w)
            /\ \/ cycle[c].page.sent = PageSize
               \/ /\ Busy(cycle[p])
                  /\ cycle[c].page.sent = 0 => Marked(c, VectorFor(c, p), w, r)
        BY <1>1, <2>1, <3>2, <3>3 DEF RankPage
      <3>5. Has(p, w)' \/ Owes(p, w)'
        BY <2>2, <3>4 DEF Moves
      <3>6. Busy(cycle[p]) => ConsumerRoleActive(p)
        BY CycleNow DEF CycleFits, ConsumerRoleActive, Busy
      <3>7. k.page.more
        BY <1>1, <3>3, <3>4, <3>6 DEF MoreExpected
      <3>8. ASSUME k.page.vector # NoVector PROVE Marked(c, k.page.vector, w, r)
        <4>1. /\ ConsumerRoleActive(p) /\ cycle[c].page.sent = 0
              /\ k.page.vector = VectorFor(c, p)
          BY <1>1, <3>3, <3>8
        <4> QED
          BY <3>4, <4>1, BoundAssumption
      <3>9. PICK v \in EmptyPageVector : v = k.page.vector
        BY CycleParts, PageParts
      <3>10. v = NoVector \/ Marked(c, v, w, r)'
        BY <2>2, <3>8, <3>9, MarkedMoves
      <3>11. Marked(c, v, w, r)' => Marked(c, cycle[c].page.vector, w, r)'
        BY <1>2, <3>9 DEF Marked
      <3> QED
        BY <1>1, <1>2, <3>3, <3>5, <3>7, <3>9, <3>10, <3>11
    <2> QED
      BY <2>3, <2>4, <2>5 DEF RankOne
  <1> QED
    BY <1>1, <1>2, <1>3, <1>4, <1>5, RankStep

-----------------------------------------------------------------------------
(* Ranks and entries *)

\* No server loses anything.
NothingLost ==
    \A t \in Server : \A f \in Entry :
        db[t][f] \in DbEntry /\ db'[t][f] \in DbEntry /\ Advances(db[t][f], db'[t][f])

LEMMA DataKept ==
    ASSUME Inv, NEW s \in Server, NEW e \in Entry, NEW d, DataStep(s, e, d)
    PROVE  NothingLost
  BY DataIs DEF NothingLost

LEMMA MovesData ==
    ASSUME KnownOK, NothingLost, NEW w \in writes, NEW r, NEW t \in Server,
           cycle'[t].step = cycle[t].step, cycle'[t].utd = cycle[t].utd
    PROVE  Moves(t, w, r, r) /\ Stays(t, w, r, r)
  <1>1. w.entry \in Entry /\ w.attr \in AllAttr /\ Ordered(w)
    BY WriteOrdered
  <1>2. Has(t, w) => Has(t, w)'
    BY <1>1, SettledStays DEF Has, NothingLost
  <1>3. Busy(cycle'[t]) <=> Busy(cycle[t])
    BY DEF Busy
  <1> QED
    BY <1>2, <1>3 DEF Moves, Stays, Owes

LEMMA ApplyKeeps ==
    ASSUME Calm, Inv, Inv', KnownOK, SyncOK, NEW c \in Server,
           NEW x \in cycle[c].page.entries, Apply(c, x)
    PROVE  /\ NothingLost
           /\ \E k \in AnyCycle :
                 /\ cycle' = [cycle EXCEPT ![c] = k] /\ Keeps(c, cycle[c], k)
                 /\ k.step = "apply" /\ cycle[c].step = "apply"
                 /\ k.page.more = cycle[c].page.more /\ k.page.vector = cycle[c].page.vector
                 /\ k.page.sent = cycle[c].page.sent
  <1>0. PageOK(db, c, cycle[c])
    BY DEF SyncOK, SyncCycle
  <1>1. PICK k \in AnyCycle :
             /\ cycle' = [cycle EXCEPT ![c] = k]
             /\ cycle[c].step = "apply" /\ k.step = "apply"
             /\ k.partner = cycle[c].partner /\ k.last = cycle[c].last
             /\ k.utd = cycle[c].utd /\ k.added = cycle[c].added
             /\ k.page.entries = cycle[c].page.entries \ {x}
             /\ k.page.hwm = cycle[c].page.hwm /\ k.page.utd = cycle[c].page.utd
             /\ k.page.more = cycle[c].page.more /\ k.page.vector = cycle[c].page.vector
             /\ k.page.sent = cycle[c].page.sent
             /\ \/ /\ Usable(db[c][x.entry], x) /\ \E d : AppliedStep(c, x, d)
                   /\ k.failed = cycle[c].failed
                \/ /\ Useless(db[c][x.entry], x) /\ UNCHANGED <<db, nextUsn>>
                   /\ k.failed = cycle[c].failed \cup {x}
    BY <1>0, ApplyFlat
  <1>2. x \in AnyPageEntry /\ Fits(x, nextUsn, Dead) /\ x.entry \in Entry
    BY CycleNow, CycleParts, PageParts DEF CycleFits, AnyPageEntry
  <1>3. ASSUME NEW d, Usable(db[c][x.entry], x), AppliedStep(c, x, d)
        PROVE  NothingLost /\ \A a \in AllAttr : \A m :
                  Ordered(m) /\ Brings(x, a, m) => Settled(db'[c][x.entry], a, m)
    <2>1. DataStep(c, x.entry, d)
      BY <1>1, <1>3, AppliedData
    <2>2. \A a \in AllAttr : \A m :
             Ordered(m) /\ Brings(x, a, m) => Settled(db'[c][x.entry], a, m)
      BY <1>2, <1>3, AppliedHas
    <2> QED
      BY <1>2, <2>1, <2>2, DataKept
  <1>4. ASSUME Useless(db[c][x.entry], x), UNCHANGED <<db, nextUsn>>
        PROVE  NothingLost /\ \A a \in AllAttr : \A m :
                  Ordered(m) /\ Brings(x, a, m) => Settled(db'[c][x.entry], a, m)
    <2>1. NothingLost
      BY <1>4, HeldEntry, AdvancesSelf DEF NothingLost
    <2> QED
      BY <1>4, <2>1 DEF Useless, Settled
  <1>5. NothingLost /\ Keeps(c, cycle[c], k)
    BY <1>1, <1>3, <1>4 DEF Keeps
  <1> QED
    BY <1>1, <1>5

\* The page of c, when nothing but the entries and what it holds changes.
LEMMA MissesStays ==
    ASSUME KnownOK, NothingLost, NEW w \in writes, NEW c \in Server,
           Keeps(c, cycle[c], cycle'[c])
    PROVE  Misses(c, w)' => Misses(c, w)
  <1> SUFFICES ASSUME Misses(c, w)' PROVE Misses(c, w)
    OBVIOUS
  <1>1. w.entry \in Entry /\ w.attr \in AllAttr /\ Ordered(w)
    BY WriteOrdered
  <1>2. Has(c, w) => Has(c, w)'
    BY <1>1, SettledStays DEF Has, NothingLost
  <1>3. /\ cycle'[c].step = cycle[c].step /\ cycle'[c].utd = cycle[c].utd
        /\ cycle'[c].page.utd = cycle[c].page.utd
    BY DEF Keeps
  <1>4. ~Pending(cycle[c].page.entries, w.entry, w.attr, w)
    <2>1. ~Pending(cycle'[c].page.entries, w.entry, w.attr, w)
          /\ ~Settled(db'[c][w.entry], w.attr, w)
      BY DEF Misses, Has
    <2> QED
      BY <1>1, <2>1, PendingStays
  <1> QED
    BY <1>2, <1>3, <1>4 DEF Misses, InPage

LEMMA RankApply ==
    ASSUME Calm, Inv, Inv', KnownOK, SyncOK, Ranked, NEW c \in Server,
           NEW x \in cycle[c].page.entries, Apply(c, x)
    PROVE  Ranked'
  <1>1. NothingLost
    BY ApplyKeeps
  <1>2. PICK k \in AnyCycle :
                 /\ cycle' = [cycle EXCEPT ![c] = k] /\ Keeps(c, cycle[c], k)
                 /\ k.step = "apply" /\ cycle[c].step = "apply"
                 /\ k.page.more = cycle[c].page.more /\ k.page.vector = cycle[c].page.vector
                 /\ k.page.sent = cycle[c].page.sent
    BY ApplyKeeps
  <1>3. UNCHANGED <<writes, vector>>
    BY DEF Apply
  <1>4. cycle'[c] = k /\ \A b \in Server : b # c => cycle'[b] = cycle[b]
    BY <1>2, CycleNow
  <1>5. k.partner = cycle[c].partner /\ k.utd = cycle[c].utd
    BY <1>2 DEF Keeps
  <1>6. \A s \in Server : s # c => GoesOn(s)
    <2>1. Busy(k)
      BY <1>2 DEF Busy
    <2> QED
      BY <1>2, <1>3, <1>5, <2>1, OthersGoOn
  <1> SUFFICES ASSUME NEW w \in writes
               PROVE  \E r \in [Server -> Nat] : RankOK(r, w)'
    BY <1>3 DEF Ranked
  <1>7. PICK r \in [Server -> Nat] : RankOK(r, w)
    BY DEF Ranked
  <1>8. ASSUME NEW t \in Server PROVE Moves(t, w, r, r) /\ Stays(t, w, r, r)
    <2>1. cycle'[t].step = cycle[t].step /\ cycle'[t].utd = cycle[t].utd
      BY <1>2, <1>4, <1>5
    <2> QED
      BY <1>1, <2>1, MovesData
  <1>9. ASSUME NEW s \in Server, s # c PROVE RankOne(s, w, r)'
    BY <1>3, <1>4, <1>6, <1>7, <1>8, <1>9, RankOther DEF RankOK, RankOne
  <1>10. RankOne(c, w, r)'
    <2>1. RankPartner(c, w, r) /\ RankVector(c, w, r) /\ RankPage(c, w, r)
      BY <1>7 DEF RankOK
    <2>2. Misses(c, w)' => Misses(c, w)
      BY <1>1, <1>2, <1>4, MissesStays
    <2>3. GoesOn(c)
      BY <1>2 DEF GoesOn
    <2>4. RankPage(c, w, r)'
      BY <1>2, <1>4, <1>5, <1>8, <2>1, <2>2, <2>3, RankPageStays
    <2>5. RankPartner(c, w, r)' /\ RankVector(c, w, r)'
      BY <1>3, <1>4, <1>5, <1>8, <2>1, RankPartnerStays, RankVectorStays
    <2> QED
      BY <2>4, <2>5 DEF RankOne
  <1>11. RankOK(r, w)'
    BY <1>9, <1>10 DEF RankOK, RankOne
  <1> QED
    BY <1>11

\* No mark covers a change that is still to be made.
LEMMA RankLocal ==
    ASSUME Inv, Inv', KnownOK, SyncOK, Ranked, NEW s \in Server, NEW e \in Entry, NEW d,
           NEW n, LocalStep(s, e, d, n)
    PROVE  Ranked'
  <1>1. NothingLost
    BY LocalData, DataKept
  <1>2. UNCHANGED <<cycle, vector>> /\ writes' = writes \cup {n}
        /\ n.orig = s /\ n.usn = nextUsn[s]
    BY DEF LocalStep
  <1>3. ASSUME NEW w \in writes PROVE \E r \in [Server -> Nat] : RankOK(r, w)'
    <2>1. PICK r \in [Server -> Nat] : RankOK(r, w)
      BY DEF Ranked
    <2>2. ASSUME NEW t \in Server PROVE Moves(t, w, r, r) /\ Stays(t, w, r, r)
      BY <1>1, <1>2, MovesData
    <2>3. ASSUME NEW t \in Server PROVE RankOne(t, w, r)'
      <3>1. GoesOn(t)
        BY <1>2 DEF GoesOn, VectorFor
      <3> QED
        BY <1>2, <2>1, <2>2, <3>1, RankOther DEF RankOK, RankOne
    <2>4. RankOK(r, w)'
      BY <2>3 DEF RankOK, RankOne
    <2> QED
      BY <2>4
  <1>4. \E r \in [Server -> Nat] : RankOK(r, n)'
    <2>1. PICK r \in [Server -> Nat] : r = [t \in Server |-> 0]
      OBVIOUS
    <2>2. nextUsn[s] \in Nat
      BY DEF Inv, TypesOK, UsnVector
    <2>3. ASSUME NEW t \in Server PROVE ~Owes(t, n)' /\ ~Misses(t, n)'
      <3>1. ASSUME cycle[t].step # "none"
            PROVE  cycle[t].utd[s] < nextUsn[s] /\ cycle[t].utd[s] \in Nat
        BY <3>1, CycleNow DEF CycleFits, UsnVector
      <3>2. ASSUME InPage(cycle[t])
            PROVE  cycle[t].page.utd[s] < nextUsn[s] /\ cycle[t].page.utd[s] \in Nat
        BY <3>2, CycleNow DEF CycleFits, UsnVector, InPage
      <3> QED
        BY <1>2, <2>2, <3>1, <3>2 DEF Owes, Misses, Busy, InPage
    <2>4. ASSUME NEW t \in Server PROVE RankOne(t, n, r)'
      BY <2>3 DEF RankOne, RankPartner, RankVector, RankPage
    <2>5. RankOK(r, n)'
      BY <2>4 DEF RankOK, RankOne
    <2> QED
      BY <2>5
  <1>5. \A w \in writes' : \E r \in [Server -> Nat] : RankOK(r, w)'
    BY <1>2, <1>3, <1>4
  <1> QED
    BY <1>5 DEF Ranked

-----------------------------------------------------------------------------
(* A page that leaves a candidate out is full *)

LEMMA CandidateNumbers ==
    ASSUME Inv, CoverOK, NEW c \in Server, NEW p \in Server, Asks(c, p),
           NEW f \in Candidate(c, p)
    PROVE  /\ db[p][f].usnChanged \in Nat /\ db[p][f].usnChanged < nextUsn[p]
           /\ \A g \in Candidate(c, p) : g # f => db[p][g].usnChanged # db[p][f].usnChanged
  <1>1. f \in Entry /\ cycle[c].last \in Nat /\ cycle[c].last >= 1
    BY CandidateIs, AsksIs
  <1>2. db[p][f].usnChanged \in Nat /\ db[p][f].usnChanged < nextUsn[p]
    BY <1>1, HeldIs
  <1>3. db[p][f].usnChanged > 1
    BY <1>1, <1>2 DEF Candidate
  <1>4. \A g \in Candidate(c, p) : g \in Entry
    BY CandidateIs
  <1> QED
    BY <1>1, <1>2, <1>3, <1>4 DEF CoverOK, Distinct

LEMMA FullPage ==
    ASSUME Inv, CoverOK, NEW c \in Server, NEW p \in Server, Asks(c, p),
           NEW e \in Candidate(c, p), e \notin Examined(c, p)
    PROVE  /\ IsFiniteSet(Examined(c, p) \cap Sendable(c, p))
           /\ Cardinality(Examined(c, p) \cap Sendable(c, p)) = PageSize
  <1>1. PICK S : S = Sendable(c, p)
    OBVIOUS
  <1>2. PICK X : X = Examined(c, p) \cap S
    OBVIOUS
  <1>3. /\ S \subseteq Candidate(c, p) /\ Candidate(c, p) \subseteq Entry
        /\ IsFiniteSet(S) /\ X \subseteq S
    BY <1>1, <1>2, CandidateIs
  <1>4. IsFiniteSet(X) /\ Cardinality(X) \in Nat /\ Cardinality(S) \in Nat
    BY <1>3, FS_Subset, FS_CardinalityType
  <1>5. ASSUME NEW f \in Entry
        PROVE  /\ UpTo(p, S, f) \ {f} \subseteq S /\ IsFiniteSet(UpTo(p, S, f) \ {f})
               /\ Cardinality(UpTo(p, S, f) \ {f}) \in Nat
    <2>1. UpTo(p, S, f) \ {f} \subseteq S
      BY DEF UpTo
    <2> QED
      BY <1>3, <2>1, FS_Subset, FS_CardinalityType
  <1>6. \A f \in Candidate(c, p) :
           f \in Examined(c, p) <=> Cardinality(UpTo(p, S, f) \ {f}) < PageSize
    BY <1>1 DEF Examined
  <1>7. PageSize \in Nat /\ PageSize >= 1
    BY BoundAssumption
  <1>8. Cardinality(S) >= PageSize
    <2>1. ~(Cardinality(UpTo(p, S, e) \ {e}) < PageSize) /\ e \in Entry
      BY <1>3, <1>6
    <2>2. Cardinality(UpTo(p, S, e) \ {e}) <= Cardinality(S)
      BY <1>3, <1>5, <2>1, FS_Subset
    <2> QED
      BY <1>4, <1>5, <1>7, <2>1, <2>2
  <1>9. Cardinality(X) >= PageSize
    <2> SUFFICES ASSUME Cardinality(X) < PageSize PROVE FALSE
      BY <1>4, <1>7
    <2>1. S \ X # {}
      <3>1. S \ X = {} => S = X
        BY <1>3
      <3> QED
        BY <1>4, <1>7, <1>8, <3>1
    <2>2. PICK T : T = {db[p][f].usnChanged : f \in S \ X}
      OBVIOUS
    <2>3. T \in SUBSET Nat /\ T # {}
      BY <1>3, <2>1, <2>2, CandidateNumbers
    <2>4. PICK d \in T : \A b \in T : d <= b
      BY <2>3, LowestExists
    <2>5. PICK h \in S \ X : d = db[p][h].usnChanged
      BY <2>2
    <2>6. h \in Candidate(c, p) /\ h \in Entry
      BY <1>3
    <2>7. ASSUME NEW g \in S, g # h, db[p][g].usnChanged <= db[p][h].usnChanged
          PROVE  g \in X
      <3> SUFFICES ASSUME g \notin X PROVE FALSE
        OBVIOUS
      <3>1. db[p][g].usnChanged \in T
        BY <2>2
      <3>2. d <= db[p][g].usnChanged
        BY <2>4, <3>1
      <3>3. /\ db[p][g].usnChanged \in Nat /\ db[p][h].usnChanged \in Nat
            /\ db[p][g].usnChanged # db[p][h].usnChanged
        BY <1>3, <2>6, <2>7, CandidateNumbers
      <3> QED
        BY <2>5, <2>7, <3>2, <3>3
    <2>8. UpTo(p, S, h) \ {h} \subseteq X
      BY <2>7 DEF UpTo
    <2>9. Cardinality(UpTo(p, S, h) \ {h}) <= Cardinality(X)
      BY <1>4, <2>8, FS_Subset
    <2>10. Cardinality(UpTo(p, S, h) \ {h}) \in Nat
      BY <1>5, <2>6
    <2>11. Cardinality(UpTo(p, S, h) \ {h}) < PageSize
      BY <1>4, <1>7, <2>9, <2>10
    <2>12. h \in X
      BY <1>2, <1>6, <2>6, <2>11
    <2> QED
      BY <2>12
  <1>10. Cardinality(X) <= PageSize
    <2>1. X # {}
      BY <1>4, <1>7, <1>9, FS_EmptySet
    <2>2. PICK T : T = {db[p][f].usnChanged : f \in X}
      OBVIOUS
    <2>3. T \in SUBSET Nat /\ T # {} /\ nextUsn[p] \in Nat /\ \A b \in T : b < nextUsn[p]
      BY <1>3, <2>1, <2>2, CandidateNumbers, CycleNow DEF UsnVector
    <2>4. PICK d \in T : \A b \in T : b <= d
      BY <2>3, HighestExists
    <2>5. PICK h \in X : d = db[p][h].usnChanged
      BY <2>2
    <2>6. h \in Candidate(c, p) /\ h \in Entry
      BY <1>3
    <2>7. X \ {h} \subseteq UpTo(p, S, h) \ {h}
      <3>1. \A g \in X : db[p][g].usnChanged <= db[p][h].usnChanged
        BY <2>2, <2>4, <2>5
      <3> QED
        BY <1>3, <3>1 DEF UpTo
    <2>8. Cardinality(X \ {h}) <= Cardinality(UpTo(p, S, h) \ {h})
      BY <1>5, <2>6, <2>7, FS_Subset
    <2>9. Cardinality(X \ {h}) = Cardinality(X) - 1
      BY <1>4, <2>5, FS_RemoveElement
    <2>10. Cardinality(UpTo(p, S, h) \ {h}) < PageSize
      BY <1>2, <1>6, <2>5, <2>6
    <2>11. Cardinality(UpTo(p, S, h) \ {h}) \in Nat
      BY <1>5, <2>6
    <2> QED
      BY <1>4, <1>7, <2>8, <2>9, <2>10, <2>11
  <1> QED
    BY <1>1, <1>2, <1>4, <1>7, <1>9, <1>10

\* An entry is sent once.
LEMMA SentCount ==
    ASSUME NEW c, NEW p, NEW X, IsFiniteSet(X), NEW E, E = {PageEntry(c, p, f) : f \in X}
    PROVE  Cardinality(E) = Cardinality(X)
  <1>1. PICK g : g = [f \in X |-> PageEntry(c, p, f)]
    OBVIOUS
  <1>2. g \in [X -> E]
    BY <1>1
  <1>3. \A f \in X : g[f].entry = f
    BY <1>1, PageEntryFields
  <1>4. g \in Injection(X, E)
    BY <1>2, <1>3 DEF Injection, IsInjective
  <1>5. g \in Surjection(X, E)
    BY <1>1, <1>2 DEF Surjection
  <1>6. ExistsBijection(X, E)
    BY <1>4, <1>5 DEF ExistsBijection, Bijection
  <1> QED
    BY <1>6, FS_Bijection

-----------------------------------------------------------------------------
(* The search and the order of those who wait *)

\* What the page's vector covers, the supplier has or owes: it is not applying a page.
LEMMA SearchSource ==
    ASSUME Inv, KnownOK, CoverOK, SyncOK, NEW c \in Server, NEW p \in Server, Asks(c, p),
           cycle[p].step # "apply", NEW w \in writes, ~Has(c, w),
           w.usn <= PageUtd(c, p)[w.orig]
    PROVE  Has(p, w) \/ Owes(p, w)
  <1>1. PICK o \in Server, n \in Nat : o = w.orig /\ n = w.usn
    BY WriteOrdered
  <1>2. HasAll(db, c, utd[c], writes)
    BY DEF SyncOK, SyncCycle
  <1>3. PageUtd(c, p)[o] # utd[c][o]
    BY <1>1, <1>2 DEF HasAll, Has
  <1>4. PICK e \in Examined(c, p), a \in AllAttr :
           /\ Uncovered(c, db[p][e].meta[a]) /\ db[p][e].meta[a].orig = o
           /\ PageUtd(c, p)[o] = db[p][e].meta[a].usn
    BY <1>3, PageUtdTop
  <1>5. e \in Entry /\ db[p][e].meta[a].version > 0
    BY <1>4, CandidateIs DEF Uncovered
  <1>6. db[p][e].meta[a].usn \in Nat
    BY <1>5, HeldOrig
  <1>7. n <= db[p][e].meta[a].usn
    BY <1>1, <1>4
  <1>8. SyncCycle(db, p, cycle[p], utd[p], hwm[p], writes)
    BY DEF SyncOK
  <1>9. CASE o = p
    BY <1>1, <1>8, <1>9 DEF SyncCycle, HasAll, Has
  <1>10. CASE db[p][e].meta[a].usn <= utd[p][o]
    <2>1. utd[p][o] \in Nat
      BY DEF Inv, TypesOK, UsnVector
    <2>2. n <= utd[p][o]
      BY <1>6, <1>7, <1>10, <2>1
    <2> QED
      BY <1>1, <1>8, <2>2 DEF SyncCycle, HasAll, Has
  <1>11. CASE cycle[p].step # "none" /\ db[p][e].meta[a].usn <= cycle[p].utd[o]
    <2>1. cycle[p].utd[o] \in Nat
      BY <1>11, CycleNow DEF CycleFits, UsnVector
    <2>2. n <= cycle[p].utd[o]
      BY <1>6, <1>7, <1>11, <2>1
    <2>3. CASE Busy(cycle[p])
      BY <1>1, <2>2, <2>3 DEF Owes
    <2>4. CASE cycle[p].step \in {"saveUtd", "saveHwm"}
      BY <1>1, <1>8, <2>2, <2>4 DEF SyncCycle, Clean, HasAll, Has
    <2> QED
      BY <1>11, <2>3, <2>4, CycleNow, CycleParts DEF Busy
  <1> QED
    BY <1>4, <1>5, <1>8, <1>9, <1>10, <1>11 DEF SyncCycle, HeldCovered

\* What the supplier has and the page does not bring is in an entry beyond the page.
LEMMA SearchFull ==
    ASSUME Inv, KnownOK, CoverOK, SyncOK, NEW c \in Server, NEW p \in Server, Asks(c, p),
           NEW w \in writes, ~Has(c, w), Has(p, w),
           NEW E, E = {PageEntry(c, p, f) : f \in Examined(c, p) \cap Sendable(c, p)},
           ~Pending(E, w.entry, w.attr, w)
    PROVE  Cardinality(E) = PageSize
  <1>1. PICK e \in Entry, a \in AllAttr : e = w.entry /\ a = w.attr /\ Ordered(w)
    BY WriteOrdered
  <1>2. ASSUME NEW y \in E, y.entry = e
        PROVE  /\ Tomb(db[p][e]) => y.deleted
               /\ \A b \in DOMAIN y.meta : b \in AllAttr /\ y.meta[b] = db[p][e].meta[b]
    <2>1. PICK f \in Examined(c, p) \cap Sendable(c, p) : y = PageEntry(c, p, f)
      OBVIOUS
    <2>2. f = e
      BY <1>2, <2>1, PageEntryFields
    <2>3. /\ y.deleted = Deleted(p, e) /\ DOMAIN y.meta = InScope(c, p, e)
          /\ \A b \in InScope(c, p, e) : y.meta[b] = db[p][e].meta[b]
      BY <2>1, <2>2, PageEntryFields
    <2>4. Tomb(db[p][e]) => y.deleted
      BY <2>3 DEF Deleted, Tomb
    <2>5. InScope(c, p, e) \subseteq AllAttr
      BY DEF InScope
    <2> QED
      BY <2>3, <2>4, <2>5
  <1>3. /\ db[c][e] \in DbEntry
        /\ \A b \in AllAttr : Ordered(db[c][e].meta[b]) /\ Ordered(db[p][e].meta[b])
    BY HeldEntry
  <1>4. ASSUME \A b \in AllAttr : \/ Settled(db[c][e], b, db[p][e].meta[b])
                                  \/ Pending(E, e, b, db[p][e].meta[b])
        PROVE  FALSE
    <2>1. CASE Tomb(db[p][e])
      <3>1. "isDeleted" \in AllAttr
        BY DEF AllAttr
      <3>2. CASE Settled(db[c][e], "isDeleted", db[p][e].meta["isDeleted"])
        <4>1. Tomb(db[c][e])
          BY <1>3, <2>1, <3>1, <3>2, DeletionSettles DEF Tomb
        <4> QED
          BY <1>1, <4>1 DEF Has, Settled
      <3>3. CASE Pending(E, e, "isDeleted", db[p][e].meta["isDeleted"])
        <4>1. PICK y \in E : y.entry = e
          BY <3>3 DEF Pending
        <4>2. Brings(y, a, w)
          BY <1>2, <2>1, <4>1 DEF Brings
        <4> QED
          BY <1>1, <4>1, <4>2 DEF Pending
      <3> QED
        BY <1>4, <3>1, <3>2, <3>3
    <2>2. CASE Supersedes(db[p][e].meta[a], w)
      <3>1. CASE Settled(db[c][e], a, db[p][e].meta[a])
        <4>1. Tomb(db[c][e]) \/ Supersedes(db[c][e].meta[a], w)
          BY <1>1, <1>3, <2>2, <3>1, SupersedesTrans DEF Settled
        <4> QED
          BY <1>1, <4>1 DEF Has, Settled
      <3>2. CASE Pending(E, e, a, db[p][e].meta[a])
        <4>1. PICK y \in E : y.entry = e /\ Brings(y, a, db[p][e].meta[a])
          BY <3>2 DEF Pending
        <4>2. Brings(y, a, w)
          <5>1. CASE y.deleted
            BY <5>1 DEF Brings
          <5>2. CASE a \in DOMAIN y.meta /\ Supersedes(y.meta[a], db[p][e].meta[a])
            <6>1. y.meta[a] = db[p][e].meta[a]
              BY <1>2, <4>1, <5>2
            <6> QED
              BY <2>2, <5>2, <6>1 DEF Brings
          <5> QED
            BY <4>1, <5>1, <5>2 DEF Brings
        <4> QED
          BY <1>1, <4>1, <4>2 DEF Pending
      <3> QED
        BY <1>4, <3>1, <3>2
    <2> QED
      BY <1>1, <2>1, <2>2 DEF Has, Settled
  <1>5. ~(db[p][e].usnChanged <= cycle[c].last)
    BY <1>4, SettledBefore
  <1>6. e \notin Examined(c, p)
    BY <1>4, SearchBrings
  <1>7. cycle[c].last \in Nat /\ db[p][e].usnChanged \in Nat
    BY AsksIs, HeldIs
  <1>8. e \in Candidate(c, p)
    BY <1>5, <1>7 DEF Candidate
  <1>9. PICK X : X = Examined(c, p) \cap Sendable(c, p)
    OBVIOUS
  <1>10. IsFiniteSet(X) /\ Cardinality(X) = PageSize
    BY <1>6, <1>8, <1>9, FullPage
  <1> QED
    BY <1>9, <1>10, SentCount

\* A supplier that owes the write names one that is not done.
LEMMA SearchMarked ==
    ASSUME Inv, NEW c \in Server, NEW p \in Server, Asks(c, p), NEW w,
           NEW r \in [Server -> Nat], RankOK(r, w), ~Has(c, w), Owes(p, w)
    PROVE  Busy(cycle[p]) /\ Marked(c, VectorFor(c, p), w, r)
  <1>1. Busy(cycle[p]) /\ ~Has(p, w) /\ r[p] \in Nat /\ r[c] \in Nat
    BY DEF Owes
  <1>2. Owes(c, w) => r[p] < r[c]
    BY <1>1 DEF RankOK, RankPartner, Source, Asks
  <1>3. PICK t \in DOMAIN vector[p] :
           /\ vector[p][t] < EmptyPageCnt
           /\ Has(t, w) \/ (Owes(t, w) /\ r[t] <= r[p])
    BY DEF RankOK, RankVector
  <1>4. t \in Server
    BY CycleNow, VectorServers
  <1>5. t # c
    BY <1>1, <1>2, <1>3
  <1>6. Source(c, t, w, r)
    <2>1. r[t] \in Nat
      BY <1>4
    <2> QED
      BY <1>1, <1>2, <1>3, <2>1 DEF Source
  <1>7. cycle[p].partner # c
    <2> SUFFICES ASSUME cycle[p].partner = c PROVE FALSE
      OBVIOUS
    <2>1. Source(p, c, w, r)
      BY DEF RankOK, RankPartner
    <2>2. Owes(c, w) /\ r[c] < r[p]
      BY <2>1 DEF Source
    <2> QED
      BY <1>1, <1>2, <2>2
  <1>8. VectorFor(c, p) = vector[p]
    BY <1>7 DEF VectorFor
  <1> QED
    BY <1>1, <1>3, <1>5, <1>6, <1>8 DEF Marked

LEMMA RankSearch ==
    ASSUME Calm, Inv, KnownOK, CoverOK, SyncOK, Ranked, NEW c \in Server, Search(c)
    PROVE  Ranked'
  <1>1. PICK p \in Server, k \in AnyCycle :
             /\ cycle' = [cycle EXCEPT ![c] = k]
             /\ cycle[c].step = "request" /\ k.step = "search"
             /\ p = cycle[c].partner /\ k.partner = p
             /\ k.utd = cycle[c].utd
             /\ k.page.entries =
                  {PageEntry(c, p, e) : e \in Examined(c, p) \cap Sendable(c, p)}
             /\ k.page.utd = PageUtd(c, p)
             /\ k.page.sent = Cardinality(k.page.entries)
    BY SearchIs
  <1>2. UNCHANGED <<db, writes, vector>> /\ cycle'[c] = k /\ cycle[p].step # "apply"
        /\ \A b \in Server : b # c => cycle'[b] = cycle[b]
    BY <1>1, CycleNow DEF Search, Calm
  <1>3. Asks(c, p) /\ Busy(cycle[c]) /\ Busy(k)
    BY <1>1 DEF Asks, Busy
  <1>4. \A s \in Server : s # c => GoesOn(s)
    BY <1>1, <1>2, <1>3, OthersGoOn
  <1>5. \A w \in writes : Owes(c, w) <=> Owes(c, w)'
    BY <1>1, <1>2, <1>3 DEF Owes, Has
  <1>6. ASSUME NEW w \in writes, NEW r \in [Server -> Nat], RankOK(r, w)
        PROVE  RankOne(c, w, r)'
    <2>1. RankPartner(c, w, r) /\ RankVector(c, w, r)
      BY <1>6 DEF RankOK
    <2>2. ASSUME NEW t \in Server PROVE Moves(t, w, r, r) /\ Stays(t, w, r, r)
      BY <1>2, <1>5, MovesSame, MovesCycle
    <2>3. RankPartner(c, w, r)'
      BY <1>1, <1>2, <2>1, <2>2, RankPartnerStays
    <2>4. RankVector(c, w, r)'
      BY <1>2, <2>1, <2>2, RankVectorStays
    <2>5. RankPage(c, w, r)'
      <3>1. SUFFICES ASSUME Misses(c, w)'
                     PROVE  (/\ Has(cycle[c].partner, w) \/ Owes(cycle[c].partner, w)
                             /\ \/ cycle[c].page.sent = PageSize
                                \/ /\ Busy(cycle[cycle[c].partner])
                                   /\ Marked(c, VectorFor(c, cycle[c].partner), w, r)
                             /\ cycle[c].step # "apply")'
        BY DEF RankPage
      <3>2. /\ ~Has(c, w) /\ ~Pending(k.page.entries, w.entry, w.attr, w)
            /\ w.usn <= PageUtd(c, p)[w.orig] \/ w.usn <= cycle[c].utd[w.orig]
        BY <1>1, <1>2, <3>1 DEF Misses, Has
      <3>3. Has(p, w) \/ Owes(p, w)
        <4>1. CASE w.usn <= PageUtd(c, p)[w.orig]
          BY <1>2, <1>3, <3>2, <4>1, SearchSource
        <4>2. CASE w.usn <= cycle[c].utd[w.orig]
          BY <1>1, <1>3, <2>1, <3>2, <4>2 DEF RankPartner, Owes, Source
        <4> QED
          BY <3>2, <4>1, <4>2
      <3>4. ASSUME Has(p, w) PROVE k.page.sent = PageSize
        <4>1. Cardinality(k.page.entries) = PageSize
          BY <1>1, <1>3, <3>2, <3>4, SearchFull
        <4> QED
          BY <1>1, <4>1
      <3>5. ASSUME Owes(p, w)
            PROVE  Busy(cycle'[p]) /\ Marked(c, VectorFor(c, p), w, r)'
        <4>1. Busy(cycle[p]) /\ Marked(c, VectorFor(c, p), w, r)
          BY <1>3, <1>6, <3>2, <3>5, SearchMarked
        <4>2. PICK v \in EmptyPageVector : v = VectorFor(c, p)
          BY VectorForType
        <4>3. Marked(c, v, w, r)'
          BY <2>2, <4>1, <4>2, MarkedMoves
        <4>4. cycle'[p].partner = cycle[p].partner /\ (Busy(cycle[p]) => Busy(cycle'[p]))
          BY <1>1, <1>2, <1>3
        <4>5. VectorFor(c, p)' = v
          BY <1>2, <4>2, <4>4 DEF VectorFor
        <4> QED
          BY <4>1, <4>3, <4>4, <4>5 DEF Marked
      <3>6. Has(p, w)' \/ Owes(p, w)'
        BY <2>2, <3>3 DEF Moves
      <3>7. cycle'[c].partner = p /\ cycle'[c].step = "search"
            /\ cycle'[c].page.sent = k.page.sent
        BY <1>1, <1>2
      <3> QED
        BY <3>3, <3>4, <3>5, <3>6, <3>7
    <2> QED
      BY <2>3, <2>4, <2>5 DEF RankOne
  <1> QED
    BY <1>1, <1>2, <1>4, <1>5, <1>6, RankStep

-----------------------------------------------------------------------------
(* The end of a page *)

LEMMA NewVectorIs ==
    ASSUME NEW c, NEW v, NEW t \in DOMAIN v, t # c
    PROVE  /\ v # NoVector => t \in DOMAIN NewVector(c, v) /\ NewVector(c, v)[t] = v[t]
           /\ v = NoVector => FALSE
  <1>1. v = NoVector => FALSE
    BY NoVectorType
  <1>2. ASSUME v # NoVector
        PROVE  t \in DOMAIN NewVector(c, v) /\ NewVector(c, v)[t] = v[t]
    BY <1>2 DEF NewVector
  <1> QED
    BY <1>1, <1>2

\* As long as something is missing, another page is asked for.
LEMMA MissesAgain ==
    ASSUME Inv, NEW c \in Server, cycle[c].step = "apply", NEW w, NEW r,
           RankPage(c, w, r), Misses(c, w)
    PROVE  Again(c)
  <1>1. cycle[c].page.more /\ (\/ cycle[c].page.vector = NoVector
                               \/ Marked(c, cycle[c].page.vector, w, r))
    BY DEF RankPage
  <1>2. CASE cycle[c].page.vector = NoVector
    BY <1>1, <1>2 DEF Again
  <1>3. CASE Marked(c, cycle[c].page.vector, w, r)
    <2>1. PICK t \in DOMAIN cycle[c].page.vector :
                t # c /\ cycle[c].page.vector[t] < EmptyPageCnt
      BY <1>3 DEF Marked
    <2>2. /\ t \in DOMAIN NewVector(c, cycle[c].page.vector)
          /\ NewVector(c, cycle[c].page.vector)[t] < EmptyPageCnt
      BY <2>1, NewVectorIs
    <2>3. cycle[c].page.vector \in EmptyPageVector
      BY CycleNow, CycleParts, PageParts
    <2>4. cycle[c].page.vector[t] \in 0..EmptyPageCnt
      BY <2>1, <2>3 DEF EmptyPageVector
    <2>5. NewVector(c, cycle[c].page.vector)[t] \in 0..EmptyPageCnt
      BY <2>1, <2>4, NewVectorIs
    <2>6. ~CompleteCycle(NewVector(c, cycle[c].page.vector))
      BY <2>2, <2>5, BoundAssumption DEF CompleteCycle
    <2> QED
      BY <1>1, <2>6 DEF Again
  <1> QED
    BY <1>1, <1>2, <1>3

LEMMA DoneHas ==
    ASSUME Inv, KnownOK, SyncOK, Ranked, NEW c \in Server, cycle[c].step = "apply",
           cycle[c].page.entries = {}, ~Again(c)
    PROVE  HasAll(db, c, UtdAfter(c), writes)
  <1> SUFFICES ASSUME NEW w \in writes, w.orig = c \/ w.usn <= UtdAfter(c)[w.orig]
               PROVE  Has(c, w)
    BY DEF HasAll, Has
  <1>1. PICK r \in [Server -> Nat] : RankOK(r, w)
    BY DEF Ranked
  <1>2. w.orig \in Server
    BY WriteOrdered
  <1>3. CASE w.orig = c
    BY <1>3 DEF SyncOK, SyncCycle, HasAll, Has
  <1>4. CASE w.usn <= UtdAfter(c)[w.orig]
    <2> SUFFICES ASSUME ~Has(c, w) PROVE FALSE
      OBVIOUS
    <2>1. w.usn <= cycle[c].utd[w.orig] \/ w.usn <= cycle[c].page.utd[w.orig]
      BY <1>2, <1>4, AfterMore
    <2>2. ~Pending(cycle[c].page.entries, w.entry, w.attr, w)
      BY DEF Pending
    <2>3. Misses(c, w)
      BY <2>1, <2>2 DEF Misses, InPage
    <2> QED
      BY <1>1, <2>3, MissesAgain DEF RankOK
  <1> QED
    BY <1>3, <1>4

\* A cycle that has not moved has brought nothing.
LEMMA IdleAfter ==
    ASSUME Inv, NEW c \in Server, cycle[c].step = "apply", IdleOK(cycle[c], utd[c], hwm[c])
    PROVE  /\ hwm[c][cycle[c].partner] <= LastAfter(c)
           /\ LastAfter(c) = hwm[c][cycle[c].partner] =>
                 /\ cycle[c].utd = utd[c] /\ cycle[c].page.utd = utd[c]
                 /\ UtdAfter(c) = utd[c] /\ cycle[c].added = {}
  <1>1. PICK p \in Server : p = cycle[c].partner
    BY CycleNow, CycleParts DEF CycleFits
  <1>2. hwm[c][p] \in Nat /\ utd[c] \in UsnVector
    BY DEF Inv, TypesOK, UsnVector
  <1>3. hwm[c][p] <= cycle[c].last
    BY <1>1 DEF IdleOK, Busy
  <1>4. /\ cycle[c].last \in Nat /\ cycle[c].page.hwm \in Nat
        /\ LastAfter(c) >= cycle[c].last /\ LastAfter(c) >= cycle[c].page.hwm
        /\ LastAfter(c) \in Nat /\ UtdAfter(c) \in UsnVector
    BY AfterMore, AfterIs
  <1>5. hwm[c][p] <= LastAfter(c)
    BY <1>2, <1>3, <1>4
  <1>6. ASSUME LastAfter(c) = hwm[c][p]
        PROVE  /\ cycle[c].utd = utd[c] /\ cycle[c].page.utd = utd[c]
               /\ UtdAfter(c) = utd[c] /\ cycle[c].added = {}
    <2>1. cycle[c].last = hwm[c][p] /\ cycle[c].page.hwm <= cycle[c].last
      BY <1>2, <1>3, <1>4, <1>6
    <2>2. cycle[c].utd = utd[c] /\ cycle[c].page.utd = utd[c] /\ cycle[c].added = {}
      BY <1>1, <2>1 DEF IdleOK, Busy, InPage
    <2>3. \A o \in Server : UtdAfter(c)[o] = utd[c][o]
      BY <2>2, AfterMore
    <2>4. UtdAfter(c) = utd[c]
      BY <1>2, <1>4, <2>3 DEF UsnVector
    <2> QED
      BY <2>2, <2>4
  <1> QED
    BY <1>1, <1>5, <1>6

LEMMA SyncPageDone ==
    ASSUME Inv, KnownOK, CoverOK, SyncOK, Ranked, NEW c \in Server, PageDone(c)
    PROVE  SyncOK'
  <1>1. /\ cycle[c].step = "apply" /\ cycle[c].page.entries = {}
        /\ UNCHANGED <<db, nextUsn, utd, hwm, writes, fails>>
    BY PageDoneIs DEF PageDone
  <1>2. SyncCycle(db, c, cycle[c], utd[c], hwm[c], writes)
    BY DEF SyncOK
  <1>3. PICK p \in Server : p = cycle[c].partner
    BY <1>1, CycleNow, CycleParts DEF CycleFits
  <1>4. \A e : \A a : \A m : ~Pending(cycle[c].page.entries, e, a, m)
    BY <1>1 DEF Pending
  <1>5. Busy(cycle[c]) /\ InPage(cycle[c])
    BY <1>1 DEF Busy, InPage
  <1>6. ASSUME LastAfter(c) = hwm[c][p], EndCycle(c) PROVE SyncOK'
    <2>1. /\ cycle[c].utd = utd[c] /\ cycle[c].page.utd = utd[c] /\ cycle[c].added = {}
      BY <1>1, <1>2, <1>3, <1>6, IdleAfter DEF SyncCycle
    <2>2. HeldCovered(db, c, NoCycle, utd[c])
      BY <1>2, <2>1 DEF SyncCycle, HeldCovered
    <2>3. CreatedKnown(db, c, NoCycle, utd[c])
      BY <1>2, <2>1 DEF SyncCycle, CreatedKnown
    <2>4. SyncCycle(db, c, NoCycle, utd[c], hwm[c], writes)
      BY <1>2, <2>2, <2>3, NoCycleSync DEF SyncCycle
    <2> QED
      BY <1>1, <1>6, <2>4, SyncOne DEF EndCycle, SyncOK
  <1>7. ASSUME NEW k \in AnyCycle, cycle' = [cycle EXCEPT ![c] = k],
               (Again(c) /\ k.step = "request") \/ (~Again(c) /\ k.step = "saveUtd"),
               k.partner = p, k.last = LastAfter(c), k.utd = UtdAfter(c),
               k.failed = cycle[c].failed, k.added = cycle[c].added, k.page = NoPage
        PROVE  SyncOK'
    <2>1. k.page.entries = {} /\ ~InPage(k)
      BY <1>7 DEF NoPage, InPage
    <2>2. Transfer(db, c, k)
      <3>1. ASSUME NEW e \in Entry, Beyond(db[p][e], cycle[c]) PROVE Beyond(db[p][e], k)
        <4>1. db[p][e].usnChanged > cycle[c].last /\ db[p][e].usnChanged > cycle[c].page.hwm
          BY <1>5, <3>1 DEF Beyond
        <4>2. LastAfter(c) \in {cycle[c].last, cycle[c].page.hwm}
          BY <1>1, AfterMore
        <4> QED
          BY <1>7, <2>1, <4>1, <4>2 DEF Beyond
      <3> QED
        BY <1>2, <1>3, <1>4, <1>5, <1>7, <3>1 DEF SyncCycle, Transfer
    <2>3. AddedHas(db, c, k)
      BY <1>2, <1>3, <1>4, <1>5, <1>7 DEF SyncCycle, AddedHas
    <2>4. PageOK(db, c, k) /\ FailedOK(db, c, k)
      BY <1>2, <1>7, <2>1 DEF SyncCycle, PageOK, FailedOK
    <2>5. IdleOK(k, utd[c], hwm[c])
      <3>1. IdleOK(cycle[c], utd[c], hwm[c])
        BY <1>2 DEF SyncCycle
      <3> QED
        BY <1>1, <1>3, <1>7, <2>1, <3>1, IdleAfter DEF IdleOK
    <2>6. HeldCovered(db, c, k, utd[c])
      <3>1. SUFFICES ASSUME NEW e \in Entry, NEW a \in AllAttr,
                            db[c][e].meta[a].version > 0
                     PROVE  \/ db[c][e].meta[a].orig = c
                            \/ db[c][e].meta[a].usn <= utd[c][db[c][e].meta[a].orig]
                            \/ db[c][e].meta[a].usn <= UtdAfter(c)[db[c][e].meta[a].orig]
        BY <1>7 DEF HeldCovered
      <3>2. PICK o \in Server, n \in Nat : o = db[c][e].meta[a].orig /\ n = db[c][e].meta[a].usn
        BY <3>1, HeldOrig
      <3>3. o = c \/ n <= utd[c][o] \/ n <= cycle[c].utd[o] \/ n <= cycle[c].page.utd[o]
        BY <1>2, <3>1, <3>2 DEF SyncCycle, HeldCovered
      <3>4. cycle[c].utd[o] <= UtdAfter(c)[o] /\ cycle[c].page.utd[o] <= UtdAfter(c)[o]
        BY <1>1, AfterMore
      <3>5. cycle[c].utd[o] \in Nat /\ cycle[c].page.utd[o] \in Nat /\ UtdAfter(c)[o] \in Nat
        BY <1>1, AfterMore DEF UsnVector
      <3>6. o = c \/ n <= utd[c][o] \/ n <= UtdAfter(c)[o]
        BY <3>3, <3>4, <3>5
      <3> QED
        BY <3>2, <3>6
    <2>7. CreatedKnown(db, c, k, utd[c]) /\ HasAll(db, c, utd[c], writes)
      BY <1>2, <1>7 DEF SyncCycle, CreatedKnown
    <2>8. Clean(db, c, k, writes)
      BY <1>1, <1>7, DoneHas DEF Clean
    <2>9. SyncCycle(db, c, k, utd[c], hwm[c], writes)
      BY <2>2, <2>3, <2>4, <2>5, <2>6, <2>7, <2>8 DEF SyncCycle
    <2> QED
      BY <1>1, <1>7, <2>9, SyncOne DEF SyncOK
  <1>8. \/ LastAfter(c) = hwm[c][p] /\ EndCycle(c)
        \/ \E k \in AnyCycle :
                    /\ cycle' = [cycle EXCEPT ![c] = k]
                    /\ (Again(c) /\ k.step = "request") \/ (~Again(c) /\ k.step = "saveUtd")
                    /\ k.partner = p /\ k.last = LastAfter(c)
                    /\ k.utd = UtdAfter(c) /\ k.failed = cycle[c].failed
                    /\ k.added = cycle[c].added /\ k.page = NoPage
    BY <1>3, PageDoneIs
  <1> QED
    BY <1>6, <1>7, <1>8

-----------------------------------------------------------------------------
(* The end of a page and the order of those who wait *)

\* Nobody searches the server that is done with a page.
LEMMA DoneGoesOn ==
    ASSUME Calm, Inv, NEW c \in Server, PageDone(c), NEW k, cycle' = [cycle EXCEPT ![c] = k],
           NEW v, vector' = [vector EXCEPT ![c] = v]
    PROVE  \A s \in Server : s # c => /\ cycle'[s] = cycle[s] /\ vector'[s] = vector[s]
                                      /\ GoesOn(s)
  <1>1. \A b \in Server : b # c => cycle'[b] = cycle[b] /\ vector'[b] = vector[b]
    BY CycleNow
  <1>2. \A d \in Server : cycle[d].partner = c => cycle[d].step # "search"
    BY DEF PageDone, Calm
  <1>3. ASSUME NEW s \in Server, cycle[s].step = "search", NEW p \in Server,
               p = cycle[s].partner, Busy(cycle[p])
        PROVE  Busy(cycle'[p]) /\ VectorFor(s, p)' = VectorFor(s, p)
    <2>1. cycle'[p] = cycle[p] /\ vector'[p] = vector[p]
      BY <1>1, <1>2, <1>3
    <2> QED
      BY <1>3, <2>1 DEF VectorFor
  <1> QED
    BY <1>1, <1>3 DEF GoesOn

\* What c owes at the end of the page it misses.
LEMMA OwedMissed ==
    ASSUME Inv, NEW c \in Server, cycle[c].step = "apply", cycle[c].page.entries = {}, NEW w,
           w.orig \in Server, ~Has(c, w),
           Owes(c, w) \/ w.usn <= UtdAfter(c)[w.orig]
    PROVE  Misses(c, w)
  <1>1. ~Pending(cycle[c].page.entries, w.entry, w.attr, w)
    BY DEF Pending
  <1>2. w.usn <= cycle[c].utd[w.orig] \/ w.usn <= cycle[c].page.utd[w.orig]
    BY AfterMore DEF Owes
  <1> QED
    BY <1>1, <1>2 DEF Misses, InPage

\* The cycle ends.
LEMMA RankEnd ==
    ASSUME Calm, Inv, KnownOK, Ranked, NEW c \in Server, PageDone(c), ~Again(c), NEW k,
           cycle' = [cycle EXCEPT ![c] = k], ~Busy(k),
           NEW v, vector' = [vector EXCEPT ![c] = v]
    PROVE  Ranked'
  <1>1. /\ cycle[c].step = "apply" /\ cycle[c].page.entries = {}
        /\ UNCHANGED <<db, writes>> /\ cycle'[c] = k
    BY PageDoneIs, CycleNow DEF PageDone
  <1>2. \A s \in Server : s # c => vector'[s] = vector[s] /\ GoesOn(s)
    BY DoneGoesOn
  <1>3. ASSUME NEW w \in writes PROVE ~Owes(c, w) /\ ~Owes(c, w)'
    <2>1. PICK r \in [Server -> Nat] : RankOK(r, w)
      BY DEF Ranked
    <2>2. w.orig \in Server
      BY WriteOrdered
    <2>3. ~Misses(c, w)
      BY <1>1, <2>1, MissesAgain DEF RankOK
    <2>4. ~Owes(c, w)
      BY <1>1, <2>2, <2>3, OwedMissed DEF Owes
    <2> QED
      BY <1>1, <2>4 DEF Owes
  <1>4. ASSUME NEW w \in writes, NEW r PROVE RankOne(c, w, r)'
    <2>1. ~InPage(k)
      BY DEF Busy, InPage
    <2> QED
      BY <1>1, <1>3, <2>1 DEF RankOne, RankPartner, RankVector, RankPage, Misses
  <1> QED
    BY <1>1, <1>2, <1>3, <1>4, RankStep

-----------------------------------------------------------------------------
(* Another page is asked for *)

\* The step of c that asks for another page.
AsksAgain(c, k) ==
    /\ PageDone(c) /\ Again(c) /\ cycle' = [cycle EXCEPT ![c] = k]
    /\ vector' = [vector EXCEPT ![c] = NewVector(c, cycle[c].page.vector)]
    /\ k.step = "request" /\ k.partner = cycle[c].partner /\ k.utd = UtdAfter(c)

LEMMA AgainOwes ==
    ASSUME Inv, KnownOK, NEW c \in Server, NEW k, AsksAgain(c, k), NEW w \in writes
    PROVE  /\ UNCHANGED <<db, writes>> /\ cycle'[c] = k
           /\ \A s : Has(s, w)' <=> Has(s, w)
           /\ \A s \in Server : s # c => cycle'[s] = cycle[s] /\ (Owes(s, w)' <=> Owes(s, w))
           /\ Owes(c, w) => Owes(c, w)'
           /\ Owes(c, w)' => Misses(c, w) /\ ~Has(c, w)
  <1>1. /\ cycle[c].step = "apply" /\ cycle[c].page.entries = {}
        /\ UNCHANGED <<db, writes>> /\ cycle'[c] = k
    BY PageDoneIs, CycleNow DEF PageDone, AsksAgain
  <1>2. \A s \in Server : s # c => cycle'[s] = cycle[s]
    BY CycleNow DEF AsksAgain
  <1>3. \A s : Has(s, w)' <=> Has(s, w)
    BY <1>1 DEF Has
  <1>4. \A s \in Server : s # c => (Owes(s, w)' <=> Owes(s, w))
    BY <1>2, <1>3 DEF Owes
  <1>5. w.orig \in Server /\ w.usn \in Nat
    BY WriteOrdered
  <1>6. /\ cycle[c].utd[w.orig] \in Nat /\ UtdAfter(c)[w.orig] \in Nat
        /\ cycle[c].utd[w.orig] <= UtdAfter(c)[w.orig]
    BY <1>1, <1>5, AfterMore DEF UsnVector
  <1>7. Owes(c, w)' <=> w.usn <= UtdAfter(c)[w.orig] /\ ~Has(c, w)
    BY <1>1, <1>3 DEF Owes, Busy, AsksAgain
  <1>8. Owes(c, w) => Owes(c, w)'
    BY <1>5, <1>6, <1>7 DEF Owes
  <1>9. Owes(c, w)' => Misses(c, w) /\ ~Has(c, w)
    BY <1>1, <1>5, <1>7, OwedMissed
  <1> QED
    BY <1>1, <1>2, <1>3, <1>4, <1>8, <1>9

\* The ranks of c after the step: of those that count one is not done.
LEMMA AgainOne ==
    ASSUME Inv, KnownOK, NEW c \in Server, NEW k, AsksAgain(c, k), NEW w \in writes, NEW q,
           q[c] \in Nat, NEW p, p = cycle[c].partner, Owes(c, w)' => Source(c, p, w, q)',
           Owes(c, w)' /\ cycle[c].page.vector # NoVector =>
              \E t \in DOMAIN cycle[c].page.vector :
                 /\ t # c /\ cycle[c].page.vector[t] < EmptyPageCnt
                 /\ Has(t, w)' \/ (Owes(t, w)' /\ q[t] <= q[c])
    PROVE  RankOne(c, w, q)'
  <1>1. cycle'[c] = k /\ vector'[c] = NewVector(c, cycle[c].page.vector)
    BY AgainOwes, CycleNow DEF AsksAgain
  <1>2. RankPartner(c, w, q)'
    <2>1. SUFFICES ASSUME Owes(c, w)' PROVE Source(c, cycle[c].partner, w, q)'
      BY DEF RankPartner
    <2>2. Source(c, p, w, q)'
      BY <2>1
    <2> QED
      BY <1>1, <2>2 DEF Source, Has, Owes, AsksAgain
  <1>3. RankVector(c, w, q)'
    <2>1. SUFFICES ASSUME Owes(c, w)'
                   PROVE  \E t \in DOMAIN vector'[c] :
                             /\ vector'[c][t] < EmptyPageCnt
                             /\ Has(t, w)' \/ (Owes(t, w)' /\ q[t] <= q[c])
      BY DEF RankVector
    <2>2. CASE cycle[c].page.vector = NoVector
      <3>1. c \in DOMAIN vector'[c] /\ vector'[c][c] = 0
        BY <1>1, <2>2 DEF NewVector
      <3> QED
        BY <2>1, <3>1, BoundAssumption
    <2>3. CASE cycle[c].page.vector # NoVector
      <3>1. PICK t \in DOMAIN cycle[c].page.vector :
               /\ t # c /\ cycle[c].page.vector[t] < EmptyPageCnt
               /\ Has(t, w)' \/ (Owes(t, w)' /\ q[t] <= q[c])
        BY <2>1, <2>3
      <3>2. t \in DOMAIN vector'[c] /\ vector'[c][t] = cycle[c].page.vector[t]
        BY <1>1, <2>3, <3>1, NewVectorIs
      <3> QED
        BY <3>1, <3>2
    <2> QED
      BY <2>2, <2>3
  <1>4. RankPage(c, w, q)'
    BY <1>1 DEF RankPage, Misses, InPage, AsksAgain
  <1> QED
    BY <1>2, <1>3, <1>4 DEF RankOne

LEMMA RankAgain ==
    ASSUME Calm, Inv, KnownOK, Ranked, NEW c \in Server, NEW k, AsksAgain(c, k)
    PROVE  Ranked'
  <1>0. UNCHANGED writes
    BY DEF AsksAgain, PageDone
  <1> SUFFICES ASSUME NEW w \in writes
               PROVE  \E q \in [Server -> Nat] : RankOK(q, w)'
    BY <1>0 DEF Ranked
  <1>1. PICK r \in [Server -> Nat] : RankOK(r, w)
    BY DEF Ranked
  <1>2. RankPartner(c, w, r) /\ RankPage(c, w, r)
    BY <1>1 DEF RankOK
  <1>3. /\ UNCHANGED <<db, writes>> /\ cycle'[c] = k
        /\ \A s : Has(s, w)' <=> Has(s, w)
        /\ \A s \in Server : s # c => cycle'[s] = cycle[s] /\ (Owes(s, w)' <=> Owes(s, w))
        /\ Owes(c, w) => Owes(c, w)'
        /\ Owes(c, w)' => Misses(c, w) /\ ~Has(c, w)
    BY AgainOwes
  <1>4. \A s \in Server : s # c => /\ cycle'[s] = cycle[s] /\ vector'[s] = vector[s]
                                   /\ GoesOn(s)
    BY DoneGoesOn DEF AsksAgain
  <1>5. cycle[c].step = "apply"
    BY DEF AsksAgain, PageDone
  <1>6. PICK p \in Server : p = cycle[c].partner
    BY <1>5, CycleNow, CycleParts DEF CycleFits
  <1>7. PICK v \in EmptyPageVector : v = cycle[c].page.vector
    BY CycleNow, CycleParts, PageParts
  <1>8. ASSUME Owes(c, w)'
        PROVE  /\ Has(p, w) \/ Owes(p, w)
               /\ v = NoVector \/ Marked(c, v, w, r)
    BY <1>2, <1>3, <1>5, <1>6, <1>7, <1>8 DEF RankPage
  \* What the new ranks must be like.
  <1>9. ASSUME NEW q \in [Server -> Nat], \A s \in Server : s # c => q[s] = r[s],
               Owes(c, w) => q[c] = r[c], RankOne(c, w, q)'
        PROVE  RankOK(q, w)'
    <2>1. \A t \in Server : Moves(t, w, r, q)
      BY <1>3, <1>9 DEF Moves
    <2>2. \A s \in Server : s # c => Stays(s, w, r, q)
      BY <1>3, <1>9 DEF Stays
    <2>3. ASSUME NEW s \in Server, s # c PROVE RankOne(s, w, q)'
      <3>1. RankOne(s, w, r)
        BY <1>1 DEF RankOK, RankOne
      <3> QED
        BY <1>4, <2>1, <2>2, <2>3, <3>1, RankOther
    <2>4. \A s \in Server : RankOne(s, w, q)'
      BY <1>9, <2>3
    <2> QED
      BY <2>4 DEF RankOK, RankOne
  <1>10. CASE ~Owes(c, w)'
    <2>1. RankOne(c, w, r)'
      BY <1>6, <1>10, AgainOne
    <2> QED
      BY <1>9, <2>1
  <1>11. CASE Owes(c, w)' /\ Owes(c, w)
    <2>1. Source(c, p, w, r)'
      <3>1. Source(c, p, w, r)
        BY <1>2, <1>6, <1>11 DEF RankPartner
      <3> QED
        BY <1>3, <1>11, <3>1 DEF Source
    <2>2. ASSUME v # NoVector
          PROVE  \E t \in DOMAIN v : /\ t # c /\ v[t] < EmptyPageCnt
                                     /\ Has(t, w)' \/ (Owes(t, w)' /\ r[t] <= r[c])
      <3>1. PICK t \in DOMAIN v : t # c /\ v[t] < EmptyPageCnt /\ Source(c, t, w, r)
        BY <1>8, <1>11, <2>2 DEF Marked
      <3>2. t \in Server
        BY VectorServers
      <3>3. r[t] \in Nat /\ r[c] \in Nat
        BY <3>2
      <3>4. Has(t, w)' \/ (Owes(t, w)' /\ r[t] <= r[c])
        BY <1>3, <1>11, <3>1, <3>2, <3>3 DEF Source
      <3> QED
        BY <3>1, <3>4
    <2>3. RankOne(c, w, r)'
      BY <1>6, <1>7, <1>11, <2>1, <2>2, AgainOne
    <2> QED
      BY <1>9, <2>3
  <1>12. CASE Owes(c, w)' /\ ~Owes(c, w)
    <2>0. p # c
      BY <1>3, <1>8, <1>12
    <2>1. PICK t \in Server :
             v # NoVector => t \in DOMAIN v /\ t # c /\ v[t] < EmptyPageCnt
                                /\ (Has(t, w) \/ Owes(t, w))
      <3>1. CASE v = NoVector
        BY <3>1
      <3>2. CASE Marked(c, v, w, r)
        <4>1. PICK t \in DOMAIN v : t # c /\ v[t] < EmptyPageCnt /\ Source(c, t, w, r)
          BY <3>2 DEF Marked
        <4>2. t \in Server
          BY VectorServers
        <4> QED
          BY <4>1, <4>2 DEF Source
      <3> QED
        BY <1>8, <1>12, <3>1, <3>2
    <2>2. PICK n \in Nat : r[p] < n /\ r[t] <= n
      <3>1. r[p] \in Nat /\ r[t] \in Nat
        OBVIOUS
      <3>2. r[p] + r[t] + 1 \in Nat /\ r[p] < r[p] + r[t] + 1 /\ r[t] <= r[p] + r[t] + 1
        BY <3>1
      <3> QED
        BY <3>2
    <2>3. PICK q \in [Server -> Nat] : q[c] = n /\ \A s \in Server : s # c => q[s] = r[s]
      <3>1. [r EXCEPT ![c] = n] \in [Server -> Nat]
        OBVIOUS
      <3> QED
        BY <3>1
    <2>4. Source(c, p, w, q)'
      BY <1>3, <1>8, <1>12, <2>0, <2>2, <2>3 DEF Source
    <2>5. ASSUME v # NoVector
          PROVE  \E x \in DOMAIN v : /\ x # c /\ v[x] < EmptyPageCnt
                                     /\ Has(x, w)' \/ (Owes(x, w)' /\ q[x] <= q[c])
      BY <1>3, <2>1, <2>2, <2>3, <2>5
    <2>6. q[c] \in Nat
      OBVIOUS
    <2>7. RankOne(c, w, q)'
      BY <1>6, <1>7, <1>12, <2>4, <2>5, <2>6, AgainOne
    <2> QED
      BY <1>9, <1>12, <2>3, <2>7
  <1> QED
    BY <1>10, <1>11, <1>12

LEMMA RankPageDone ==
    ASSUME Calm, Inv, KnownOK, Ranked, NEW c \in Server, PageDone(c)
    PROVE  Ranked'
  <1>1. CASE ~Again(c) /\ EndCycle(c)
    <2>1. ~Busy(NoCycle)
      BY DEF NoCycle, Busy
    <2> QED
      BY <1>1, <2>1, RankEnd DEF EndCycle
  <1>2. ASSUME NEW k, cycle' = [cycle EXCEPT ![c] = k],
               vector' = [vector EXCEPT ![c] = NewVector(c, cycle[c].page.vector)],
               ~Again(c), k.step = "saveUtd"
        PROVE  Ranked'
    <2>1. ~Busy(k)
      BY <1>2 DEF Busy
    <2>2. PICK v : v = NewVector(c, cycle[c].page.vector)
      OBVIOUS
    <2> QED
      BY <1>2, <2>1, <2>2, RankEnd
  <1>3. ASSUME NEW k, cycle' = [cycle EXCEPT ![c] = k],
               vector' = [vector EXCEPT ![c] = NewVector(c, cycle[c].page.vector)],
               Again(c), k.step = "request", k.partner = cycle[c].partner, k.utd = UtdAfter(c)
        PROVE  Ranked'
    <2>1. AsksAgain(c, k)
      BY <1>3 DEF AsksAgain
    <2> QED
      BY <2>1, RankAgain
  <1>4. \/ ~Again(c) /\ EndCycle(c)
        \/ \E k \in AnyCycle :
              /\ cycle' = [cycle EXCEPT ![c] = k]
              /\ vector' = [vector EXCEPT ![c] = NewVector(c, cycle[c].page.vector)]
              /\ \/ Again(c) /\ k.step = "request"
                 \/ ~Again(c) /\ k.step = "saveUtd"
              /\ k.partner = cycle[c].partner /\ k.utd = UtdAfter(c)
    BY PageDoneIs
  <1> QED
    BY <1>1, <1>2, <1>3, <1>4

-----------------------------------------------------------------------------
(* The vector is true *)

LEMMA InitSync == Init => SyncOK
  <1> SUFFICES ASSUME Init PROVE SyncOK
    OBVIOUS
  <1>1. ASSUME NEW s \in Server, NEW e \in Entry
        PROVE  (e \in Initial /\ db[s][e] = Copied) \/ (e \notin Initial /\ db[s][e] = NoEntry)
    BY DEF Init
  <1>2. \A a \in AllAttr : NoEntry.meta[a].version = 0
    BY DEF NoEntry, NoMeta
  <1>3. /\ Held(Copied) /\ ~Held(NoEntry)
        /\ \A a \in AllAttr : a # "usnCreated" => Copied.meta[a].version = 0
        /\ Copied.meta["usnCreated"].version = 1 /\ Copied.meta["usnCreated"].orig = Founder
        /\ Copied.meta["usnCreated"].usn = 1 /\ Copied.meta["usnCreated"].localUsn = 1
    BY DEF Held, Copied, NoEntry, NoMeta, AllAttr
  <1>4. \A s \in Server : Founder \in Server
    BY FounderIs
  <1>5. ASSUME NEW c \in Server
        PROVE  SyncCycle(db, c, cycle[c], utd[c], hwm[c], writes)
    <2>1. cycle[c] = NoCycle /\ writes = {} /\ \A o \in Server : utd[c][o] = 1
      BY DEF Init
    <2>2. HeldCovered(db, c, NoCycle, utd[c])
      <3>1. ASSUME NEW e \in Entry, NEW a \in AllAttr, db[c][e].meta[a].version > 0
            PROVE  db[c][e].meta[a].usn <= utd[c][db[c][e].meta[a].orig]
        <4>1. db[c][e] = Copied /\ a = "usnCreated"
          BY <1>1, <1>2, <1>3, <3>1
        <4> QED
          BY <1>3, <1>4, <2>1, <4>1
      <3> QED
        BY <3>1 DEF HeldCovered
    <2>3. CreatedKnown(db, c, NoCycle, utd[c])
      <3>1. ASSUME NEW e \in Entry, Held(db[c][e])
            PROVE  /\ db[c][e].meta["usnCreated"].version > 0
                   /\ db[c][e].meta["usnCreated"].usn <=
                         utd[c][db[c][e].meta["usnCreated"].orig]
        <4>1. db[c][e] = Copied
          BY <1>1, <1>3, <3>1
        <4> QED
          BY <1>3, <1>4, <2>1, <4>1
      <3> QED
        BY <3>1 DEF CreatedKnown
    <2>4. HasAll(db, c, utd[c], writes)
      BY <2>1 DEF HasAll
    <2> QED
      BY <2>1, <2>2, <2>3, <2>4, NoCycleSync
  <1>6. CreatedOnce
    <2>1. ASSUME NEW s \in Server, NEW e \in Entry, Held(db[s][e]) PROVE db[s][e] = Copied
      BY <1>1, <1>3, <2>1
    <2> QED
      BY <2>1 DEF CreatedOnce, SameChange
  <1>7. LocalOK
    <2>1. ASSUME NEW s \in Server, NEW e \in Entry, NEW a \in AllAttr,
                 db[s][e].meta[a].version > 0
          PROVE  db[s][e].meta[a].localUsn = 1
      BY <1>1, <1>2, <1>3, <2>1
    <2>2. \A s \in Server : nextUsn[s] = 2
      BY DEF Init
    <2> QED
      BY <2>1, <2>2 DEF LocalOK
  <1>8. fails \in Nat
    BY DEF Init
  <1> QED
    BY <1>5, <1>6, <1>7, <1>8 DEF SyncOK

LEMMA InitVec == Calm /\ Init => VecInv
  <1> SUFFICES ASSUME Calm, Init PROVE VecInv
    OBVIOUS
  <1>1. Ranked
    BY DEF Init, Ranked
  <1> QED
    BY <1>1, InitMark, InitSync DEF VecInv

LEMMA VecStep == VecInv /\ [Next]_vars => VecInv'
  <1> SUFFICES ASSUME VecInv, [Next]_vars PROVE VecInv'
    OBVIOUS
  <1>0. /\ MarkInv' /\ Inv /\ Inv' /\ KnownOK /\ CoverOK /\ SyncOK /\ Ranked
        /\ Calm
    BY MarkStep DEF VecInv, MarkInv
  <1>1. ASSUME NEW s \in Server, NEW e \in Entry,
               Add(s, e) \/ Delete(s, e) \/ \E a \in Attr : Modify(s, e, a)
        PROVE  SyncOK' /\ Ranked'
    <2>1. PICK d, w : LocalStep(s, e, d, w)
      BY <1>0, <1>1, AddIs, DeleteLocal, ModifyLocal
    <2> QED
      BY <1>0, <2>1, SyncLocal, RankLocal
  <1>2. ASSUME NEW g \in Agreement, BeginCycle(g[1], g[2])
        PROVE  SyncOK' /\ Ranked'
    <2>1. g[1] \in Server /\ g[2] \in Server
      BY AgreementAssumption
    <2> QED
      BY <1>0, <1>2, <2>1, SyncBegin, RankBegin
  <1>3. ASSUME NEW c \in Server
        PROVE  /\ Search(c) => SyncOK' /\ Ranked'
               /\ Reply(c) => SyncOK' /\ Ranked'
               /\ PageDone(c) => SyncOK' /\ Ranked'
               /\ SaveUtd(c) => SyncOK' /\ Ranked'
               /\ SaveHwm(c) => SyncOK' /\ Ranked'
    BY <1>0, SyncSearch, RankSearch, SyncReply, RankReply, SyncPageDone, RankPageDone,
       SyncSaveUtd, RankSaveUtd, SyncSaveHwm, RankSaveHwm
  <1>4. ASSUME NEW c \in Server PROVE ~Fail(c)
    <2>1. fails \in Nat /\ MaxFail = 0
      BY <1>0 DEF SyncOK, Calm
    <2> QED
      BY <2>1 DEF Fail
  <1>5. ASSUME NEW c \in Server, NEW x \in cycle[c].page.entries, Apply(c, x)
        PROVE  SyncOK' /\ Ranked'
    BY <1>0, <1>5, SyncApply, RankApply
  <1>6. ASSUME NEW c \in Server, NEW x \in cycle[c].failed PROVE ~Reapply(c, x)
    <2>1. FailedOK(db, c, cycle[c])
      BY <1>0 DEF SyncOK, SyncCycle
    <2> QED
      BY <1>0, <2>1, NoReapply
  <1>7. ASSUME UNCHANGED vars PROVE SyncOK' /\ Ranked'
    <2>1. SyncOK'
      BY <1>0, <1>7 DEF vars, SyncOK, CreatedOnce, LocalOK
    <2>2. ASSUME NEW w \in writes PROVE \E r \in [Server -> Nat] : RankOK(r, w)'
      <3>1. PICK r \in [Server -> Nat] : RankOK(r, w)
        BY <1>0 DEF Ranked
      <3>2. UNCHANGED <<db, cycle, vector>>
        BY <1>7 DEF vars
      <3>3. \A t : Moves(t, w, r, r) /\ Stays(t, w, r, r)
        BY <3>2, MovesSame
      <3>4. \A s \in Server : GoesOn(s)
        BY <3>2 DEF GoesOn, VectorFor
      <3>5. ASSUME NEW s \in Server PROVE RankOne(s, w, r)'
        <4>1. RankOne(s, w, r)
          BY <3>1 DEF RankOK, RankOne
        <4> QED
          BY <1>0, <3>2, <3>3, <3>4, <4>1, RankOther
      <3>6. RankOK(r, w)'
        BY <3>5 DEF RankOK, RankOne
      <3> QED
        BY <3>6
    <2>3. Ranked'
      BY <1>7, <2>2 DEF vars, Ranked
    <2> QED
      BY <2>1, <2>3
  <1>8. SyncOK' /\ Ranked'
    BY <1>1, <1>2, <1>3, <1>4, <1>5, <1>6, <1>7 DEF Next
  <1> QED
    BY <1>0, <1>8 DEF VecInv, Calm

LEMMA VecHolds == Calm /\ Spec => []VecInv
  BY InitVec, VecStep, PTL DEF Spec

\* A server that has all that its vector covers has a true vector.
LEMMA SettledIsTrue ==
    ASSUME VecInv
    PROVE  VectorIsTrue
  <1>0. Inv /\ KnownOK /\ SyncOK
    BY DEF VecInv, MarkInv
  <1> SUFFICES ASSUME NEW c \in Server, NEW w \in writes, w.usn <= utd[c][w.orig]
               PROVE  \/ Gone(c, w.entry)
                      \/ Supersedes(db[c][w.entry].meta[w.attr], w)
    BY DEF VectorIsTrue
  <1>1. Settled(db[c][w.entry], w.attr, w)
    BY <1>0 DEF SyncOK, SyncCycle, HasAll
  <1>2. w.entry \in Entry
    BY <1>0, WriteOrdered
  <1>3. Tomb(db[c][w.entry]) => Deleted(c, w.entry)
    BY <1>0, <1>2, HeldEntry
  <1> QED
    BY <1>1, <1>3 DEF Settled, Gone, Live

\* A server has every change that its up-to-date vector covers, if entries have no
\* parents, no cycle is cut off, and no request falls on a step of the supplier's own
\* cycle: for any servers, agreements (in a ring as well), writes, page sizes and
\* counts of empty pages.  _VmDirConsumePartner keeps a vector that may cover what the
\* supplier is still waiting for itself; VmDirDDVectorParseString ends the cycle only
\* when nobody waits any more.
THEOREM VectorTrue == Calm /\ Spec => []VectorIsTrue
  BY VecHolds, SettledIsTrue, PTL

\* Under the same conditions the filter of _VmDirFetchReplicationPage never passes over
\* an entry of the supplier with a change that the consumer lacks.
THEOREM HighWaterTrue == Calm /\ Spec => []HighWaterIsTrue
  <1>1. VecInv => HighWaterIsTrue
    BY SettledIsTrue, VectorGivesMark DEF VecInv
  <1> QED
    BY <1>1, VecHolds, PTL
=============================================================================
