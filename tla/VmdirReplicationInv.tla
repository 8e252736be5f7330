------------------------ MODULE VmdirReplicationInv ------------------------
(***************************************************************************)
(* The inductive invariants behind vmdir's replication.                    *)
(*                                                                         *)
(* Inv: every number in a mark, a page or an entry was given out by the    *)
(* server it names.  MarkInv: every change goes back to a write, and what  *)
(* lies below a high-water mark is covered by an up-to-date vector.        *)
(* VecInv: a server has what its vector covers.  A consumer takes over the *)
(* vector of a supplier that is itself in a cycle before it has all that   *)
(* this vector covers; it is owed the rest, and goes on asking as long as  *)
(* somebody in the deadlock detection vector is not done.  Those who are   *)
(* owed a write have ranks, so that they do not wait for one another in a  *)
(* circle: at the end of each chain is a server that has the write.        *)
(***************************************************************************)
EXTENDS VmdirReplication

(* The shape of the state, and numbers that have been given out *)

\* The entries of a server, of a page, and what a cycle keeps.
DbEntry == [usnChanged : Nat, meta : [AllAttr -> Meta]]
PageMeta == UNION {[A -> Meta] : A \in SUBSET AllAttr}
AnyPageEntry == [entry : Entry, usn : Nat, state : {"add", "modify", "delete"},
                 deleted : BOOLEAN, meta : PageMeta]
AnyPage == [entries : SUBSET AnyPageEntry, hwm : Nat, utd : UsnVector \cup {NoVector},
            sent : {Cardinality(E) : E \in SUBSET AnyPageEntry}, more : BOOLEAN,
            vector : EmptyPageVector]
AnyCycle == [partner : Server \cup {None},
             step : {"none", "request", "search", "apply", "saveUtd", "saveHwm"},
             last : Nat, utd : UsnVector \cup {NoVector}, added : SUBSET Entry,
             page : AnyPage, failed : SUBSET AnyPageEntry]

\* The change was made by a server, with a number that n says it has given out.
GivenOut(m, n) == m.orig \in Server => m.usn < n[m.orig]

\* The entries that a server has deleted.
Dead == {e \in Entry : \E t \in Server : Deleted(t, e)}

\* What was sent of an entry was changed once, and a tombstone was deleted, D says.
Fits(x, n, D) ==
    /\ DOMAIN x.meta # {}
    /\ x.state = "delete" => x.deleted
    /\ x.deleted => x.entry \in D
    /\ \A a \in DOMAIN x.meta : GivenOut(x.meta[a], n) /\ x.meta[a].version > 0

\* The cycle k of the server c, which has the deadlock detection vector v.
CycleFits(c, k, v, n, D) ==
    /\ k.partner = None <=> k.step = "none"
    /\ c \in DOMAIN v <=> k.step # "none"
    /\ k.step # "none" => /\ k.utd \in UsnVector /\ k.last < n[k.partner]
                          /\ \A o \in Server : k.utd[o] < n[o]
    /\ k.step \in {"search", "apply"} => /\ k.page.utd \in UsnVector
                                         /\ k.page.hwm < n[k.partner]
                                         /\ \A o \in Server : k.page.utd[o] < n[o]
    /\ k.step \notin {"search", "apply"} => k.page.entries = {}
    /\ k.step = "none" => k.failed = {}
    /\ \A x \in k.failed \cup k.page.entries : Fits(x, n, D)
    /\ \A x \in k.page.entries : x.state = "delete" => "isDeleted" \in DOMAIN x.meta

TypesOK ==
    /\ db \in [Server -> [Entry -> DbEntry]]
    /\ nextUsn \in UsnVector
    /\ utd \in [Server -> UsnVector]
    /\ hwm \in [Server -> UsnVector]
    /\ vector \in [Server -> EmptyPageVector]
    /\ cycle \in [Server -> AnyCycle]

\* The attribute has never been set.
Unset(m) == m.version = 0 /\ m.orig = 0

DbOK ==
    \A s \in Server : \A e \in Entry :
        /\ db[s][e].usnChanged < nextUsn[s]
        /\ \A a \in AllAttr : GivenOut(db[s][e].meta[a], nextUsn)
        /\ db[s][e].usnChanged = 0 => \A a \in AllAttr : Unset(db[s][e].meta[a])

CyclesOK == \A c \in Server : CycleFits(c, cycle[c], vector[c], nextUsn, Dead)

Inv == TypesOK /\ DbOK /\ NotAhead /\ CyclesOK

-----------------------------------------------------------------------------
(* Where changes come from, and what the marks cover *)

\* The change m of the attribute a of e was written by a client, came with the
\* deletion of e, or is the creation of an entry of the initial copy; W are the writes.
Made(e, a, m, W) ==
    \/ \E w \in W : /\ w.entry = e /\ w.orig = m.orig /\ w.usn = m.usn
                    /\ \/ w.attr = a /\ w.version = m.version
                       \/ w.attr = "isDeleted" /\ a # "usnCreated"
    \/ e \in Initial /\ a = "usnCreated" /\ m.version = 1 /\ m.orig = Founder
Known(e, a, m, W) ==
    /\ m.version = 0 => m.orig = 0
    /\ m.version > 0 => m.orig \in Server /\ Made(e, a, m, W)

IsWrite(w, n) ==
    /\ w.entry \in Entry /\ w.attr \in AllAttr /\ w.version \in Nat /\ w.version > 0
    /\ w.orig \in Server /\ w.usn \in Nat /\ w.usn < n[w.orig]
    /\ w.attr = "usnCreated" => w.entry \notin Initial

KnownPage(x, W) == \A a \in DOMAIN x.meta : Known(x.entry, a, x.meta[a], W)

WritesOK == \A w \in writes : IsWrite(w, nextUsn)
KnownDb ==
    \A s \in Server : \A e \in Entry : \A a \in AllAttr :
        Known(e, a, db[s][e].meta[a], writes)
KnownPages ==
    \A c \in Server : \A x \in cycle[c].failed \cup cycle[c].page.entries :
        KnownPage(x, writes)
InitialHeld == \A s \in Server : \A e \in Initial : db[s][e].meta["usnCreated"].version > 0
KnownOK == WritesOK /\ KnownDb /\ KnownPages /\ InitialHeld

\* The vector u of c covers the change.
Covered(c, m, u) == m.version > 0 => m.orig = c \/ m.usn <= u[m.orig]

\* One of the vectors u and v covers all of the entries that have not changed since
\* the number n at the server that holds D.
Behind(D, c, n, u, v) ==
    \A e \in Entry : \A a \in AllAttr :
        D[e].usnChanged <= n => Covered(c, D[e].meta[a], u) \/ Covered(c, D[e].meta[a], v)

\* The cycle k of c, whose vector is u.
CoverCycle(D, c, k, u) ==
    k.step # "none" =>
       /\ k.last >= 1 /\ Behind(D[k.partner], c, k.last, k.utd, k.utd)
       /\ \A o \in Server : u[o] <= k.utd[o]
       /\ k.step = "saveHwm" => k.utd = u
       /\ k.step \in {"search", "apply"} =>
             Behind(D[k.partner], c, k.page.hwm, k.utd, k.page.utd)

\* A server gives a number to one change.
Distinct(D) ==
    \A e, f \in Entry : e # f /\ D[e].usnChanged = D[f].usnChanged => D[e].usnChanged <= 1

HwmCovers ==
    \A c \in Server : \A p \in Server :
        hwm[c][p] >= 1 /\ Behind(db[p], c, hwm[c][p], utd[c], utd[c])
CoverOK ==
    /\ HwmCovers
    /\ \A c \in Server : CoverCycle(db, c, cycle[c], utd[c])
    /\ \A s \in Server : nextUsn[s] >= 2 /\ Distinct(db[s])

MarkInv == Inv /\ KnownOK /\ CoverOK

-----------------------------------------------------------------------------
(* When the vector is true *)

\* Entries without parents, no request that falls on a step of the supplier's own
\* cycle, and no cycle that is cut off.
Calm == ~Overlap /\ MaxFail = 0 /\ \A e \in Entry : Parent[e] = None

\* What a server holds of an entry: d is there, is a tombstone, and settles the change m
\* of the attribute a.
Held(d) == d.usnChanged # 0
Tomb(d) == d.meta["isDeleted"].version > 0
Settled(d, a, m) == Tomb(d) \/ Supersedes(d.meta[a], m)

\* One of the entries E of a page brings the change.
Brings(y, a, m) == y.deleted \/ (a \in DOMAIN y.meta /\ Supersedes(y.meta[a], m))
Pending(E, e, a, m) == \E y \in E : y.entry = e /\ Brings(y, a, m)

InPage(k) == k.step \in {"search", "apply"}
Busy(k) == k.step \in {"request", "search", "apply"}

\* The entry d of the supplier has changed since the last page.
Beyond(d, k) == d.usnChanged > k.last /\ (InPage(k) => d.usnChanged > k.page.hwm)

\* The consumer has what the pages have gone past, or it is in the page.
Transfer(D, c, k) ==
    Busy(k) => \A e \in Entry : \A a \in AllAttr :
       \/ Beyond(D[k.partner][e], k)
       \/ Settled(D[c][e], a, D[k.partner][e].meta[a])
       \/ Pending(k.page.entries, e, a, D[k.partner][e].meta[a])

\* ... and of what was sent as an addition all that is as old as the creation.
AddedHas(D, c, k) ==
    Busy(k) => \A e \in k.added :
       /\ Held(D[k.partner][e])
       /\ \A a \in AllAttr :
             D[k.partner][e].meta[a].localUsn <= D[k.partner][e].meta["usnCreated"].localUsn
                => \/ Settled(D[c][e], a, D[k.partner][e].meta[a])
                   \/ Pending(k.page.entries, e, a, D[k.partner][e].meta[a])

SameChange(m, n) == m.version = n.version /\ m.orig = n.orig /\ m.usn = n.usn

\* An entry y of a page of c.
PageEntryOK(D, c, k, y) ==
    /\ y.state = "add" <=> ~Held(D[c][y.entry])
    /\ y.state = "add" <=> "usnCreated" \in DOMAIN y.meta
    /\ y.state = "add" => y.entry \in k.added
    /\ y.state = "modify" => "isDeleted" \notin DOMAIN y.meta
    /\ "isDeleted" \in DOMAIN y.meta => y.deleted
    /\ y.deleted => "isDeleted" \in DOMAIN y.meta \/ Tomb(D[c][y.entry])
    /\ Held(D[k.partner][y.entry])
    /\ y.state = "add" =>
          SameChange(y.meta["usnCreated"], D[k.partner][y.entry].meta["usnCreated"])
    /\ \A a \in DOMAIN y.meta : y.meta[a].usn <= k.page.utd[y.meta[a].orig]
    /\ \A z \in k.page.entries : z.entry = y.entry => z = y
PageOK(D, c, k) == \A y \in k.page.entries : PageEntryOK(D, c, k, y)

\* What has failed is of no more use: the entry is gone.
FailedOK(D, c, k) ==
    \A y \in k.failed : /\ Tomb(D[c][y.entry]) /\ y.state # "add"
                        /\ y.state = "modify" => y.deleted

\* Nothing was sent in a cycle whose mark has not moved.
IdleOK(k, u, h) ==
    Busy(k) => /\ h[k.partner] <= k.last
               /\ k.last = h[k.partner] =>
                     /\ k.utd = u
                     /\ ~InPage(k) => k.added = {}
                     /\ InPage(k) /\ k.page.hwm <= k.last => k.page.utd = u /\ k.added = {}

\* The server's vectors cover all that it holds ...
HeldCovered(D, c, k, u) ==
    \A e \in Entry : \A a \in AllAttr :
       D[c][e].meta[a].version > 0 =>
          \/ D[c][e].meta[a].orig = c
          \/ D[c][e].meta[a].usn <= u[D[c][e].meta[a].orig]
          \/ k.step # "none" /\ D[c][e].meta[a].usn <= k.utd[D[c][e].meta[a].orig]
          \/ k.step = "apply" /\ D[c][e].meta[a].usn <= k.page.utd[D[c][e].meta[a].orig]

\* ... and it knows which entries it has created in the cycle.
CreatedKnown(D, c, k, u) ==
    \A e \in Entry : Held(D[c][e]) =>
       /\ D[c][e].meta["usnCreated"].version > 0
       /\ \/ D[c][e].meta["usnCreated"].orig = c
          \/ D[c][e].meta["usnCreated"].usn <= u[D[c][e].meta["usnCreated"].orig]
          \/ e \in k.added

\* The server has what its vector covers, and what the vector it is about to save does.
HasAll(D, c, u, W) ==
    \A w \in W : w.orig = c \/ w.usn <= u[w.orig] => Settled(D[c][w.entry], w.attr, w)
Clean(D, c, k, W) == k.step \in {"saveUtd", "saveHwm"} => HasAll(D, c, k.utd, W)

SyncCycle(D, c, k, u, h, W) ==
    /\ Transfer(D, c, k) /\ AddedHas(D, c, k) /\ PageOK(D, c, k) /\ FailedOK(D, c, k)
    /\ IdleOK(k, u, h) /\ HeldCovered(D, c, k, u) /\ CreatedKnown(D, c, k, u)
    /\ HasAll(D, c, u, W) /\ Clean(D, c, k, W)

CreatedOnce ==
    \A s, t \in Server : \A e \in Entry :
        Held(db[s][e]) /\ Held(db[t][e])
            => SameChange(db[s][e].meta["usnCreated"], db[t][e].meta["usnCreated"])
LocalOK ==
    \A s \in Server : \A e \in Entry : \A a \in AllAttr :
        db[s][e].meta[a].version > 0
            => db[s][e].meta[a].localUsn >= 1 /\ db[s][e].meta[a].localUsn < nextUsn[s]

SyncOK ==
    /\ \A c \in Server : SyncCycle(db, c, cycle[c], utd[c], hwm[c], writes)
    /\ CreatedOnce /\ LocalOK /\ fails \in Nat

-----------------------------------------------------------------------------
(* Nobody waits for what nobody has *)

Has(s, w) == Settled(db[s][w.entry], w.attr, w)
Owes(s, w) == Busy(cycle[s]) /\ w.usn <= cycle[s].utd[w.orig] /\ ~Has(s, w)
Source(s, t, w, r) == Has(t, w) \/ (Owes(t, w) /\ (Owes(s, w) => r[t] < r[s]))
Marked(s, v, w, r) == \E t \in DOMAIN v : t # s /\ v[t] < EmptyPageCnt /\ Source(s, t, w, r)

\* Someone in the vector that c has, or will have, is not done.
RankPartner(s, w, r) == Owes(s, w) => Source(s, cycle[s].partner, w, r)
RankVector(s, w, r) ==
    Owes(s, w) => \E t \in DOMAIN vector[s] :
                     /\ vector[s][t] < EmptyPageCnt
                     /\ Has(t, w) \/ (Owes(t, w) /\ r[t] <= r[s])

Misses(s, w) ==
    /\ InPage(cycle[s]) /\ ~Has(s, w)
    /\ w.usn <= cycle[s].page.utd[w.orig] \/ w.usn <= cycle[s].utd[w.orig]
    /\ ~Pending(cycle[s].page.entries, w.entry, w.attr, w)
RankPage(s, w, r) ==
    Misses(s, w) =>
       /\ Has(cycle[s].partner, w) \/ Owes(cycle[s].partner, w)
       /\ cycle[s].step = "search" =>
             \/ cycle[s].page.sent = PageSize
             \/ /\ Busy(cycle[cycle[s].partner])
                /\ cycle[s].page.sent = 0 => Marked(s, VectorFor(s, cycle[s].partner), w, r)
       /\ cycle[s].step = "apply" =>
             /\ cycle[s].page.more
             /\ cycle[s].page.vector = NoVector \/ Marked(s, cycle[s].page.vector, w, r)

RankOK(r, w) ==
    \A s \in Server : RankPartner(s, w, r) /\ RankVector(s, w, r) /\ RankPage(s, w, r)
Ranked == \A w \in writes : \E r \in [Server -> Nat] : RankOK(r, w)

VecInv == Calm /\ MarkInv /\ SyncOK /\ Ranked
=============================================================================
