-------------------------- MODULE VmdirReplication --------------------------
(***************************************************************************)
(* Multi-master replication between vmdir servers: the consumer            *)
(* (vmdir/server/replication: thread.c, replentry.c, conflictresolution.c, *)
(* metadata.c, replqueue.c, utdvector.c, replcookies.c,                    *)
(* deadlockdetectionvector.c), the supplier (ldap-head: result.c,          *)
(* replscope.c, controls.c, middle-layer/search.c) and local writes        *)
(* (middle-layer: add.c, modify.c, delete.c).                              *)
(*                                                                         *)
(* A server pulls from each of its partners in cycles of pages.  A page    *)
(* holds the entries that changed at the supplier, in the order of their   *)
(* usnChanged there, with the attributes that the consumer's up-to-date    *)
(* vector does not cover.  The vector and the high-water mark are saved at *)
(* the end of the cycle.  A consumer whose supplier is itself consuming    *)
(* goes on asking, until the deadlock detection vector tells it to stop.   *)
(***************************************************************************)
EXTENDS Naturals, FiniteSets

CONSTANTS
    Server,         \* invocation IDs: numbers, as they are compared
    Agreement,      \* <<consumer, supplier>> pairs
    Entry,
    Parent,         \* the parent of each entry, or None
    Initial,        \* the entries every server has at the start
    Attr,           \* attributes other than usnCreated, usnChanged and isDeleted
    Writer,         \* the servers that have clients
    PageSize,       \* replPageSize
    EmptyPageCnt,   \* dwEmptyPageCnt
    Overlap,        \* may a request fall on a step of the supplier's own cycle?
    None,
    MaxWrite,       \* bound: local writes
    MaxFail         \* bound: cycles that fail

ASSUME ServerAssumption == Server \subseteq Nat \ {0} /\ Writer \subseteq Server
ASSUME AgreementAssumption ==
    Agreement \subseteq {a \in Server \X Server : a[1] # a[2]}
ASSUME EntryAssumption ==
    /\ IsFiniteSet(Entry) /\ Initial \subseteq Entry
    /\ Parent \in [Entry -> Entry \cup {None}]
    /\ \A e \in Initial : Parent[e] \in Initial \cup {None}
ASSUME BoundAssumption ==
    /\ PageSize \in Nat \ {0} /\ EmptyPageCnt \in Nat \ {0}
    /\ Overlap \in BOOLEAN
    /\ MaxWrite \in Nat /\ MaxFail \in Nat
ASSUME NameAssumption ==
    Attr \cap {"usnCreated", "isDeleted"} = {} /\ None \notin Server /\ None \notin Entry

AllAttr == Attr \cup {"usnCreated", "isDeleted"}

VARIABLES
    db,         \* db[s][e]: usnChanged of an entry, 0 if there is none, and the
                \* metadata of its attributes
    nextUsn,
    utd,        \* utd[s][o]: upToDateVector, the changes of o that s has
    hwm,        \* hwm[s][p]: lastLocalUsnProcessed of the agreement with p
    cycle,      \* the replication cycle of each server
    vector,     \* pReplDeadlockDetectionVector->pEmptyPageSentMap
    writes,     \* every local write there has been
    fails       \* bound

vars == <<db, nextUsn, utd, hwm, cycle, vector, writes, fails>>

\* pMetaData.  localUsn is the USN of the server that holds the entry.
NoMeta == [version |-> 0, orig |-> 0, usn |-> 0, localUsn |-> 0]
NoEntry == [usnChanged |-> 0, meta |-> [a \in AllAttr |-> NoMeta]]
NoVector == [s \in {} |-> 0]
NoPage == [entries |-> {}, hwm |-> 0, utd |-> NoVector, sent |-> 0, more |-> FALSE,
           vector |-> NoVector]
NoCycle == [partner |-> None, step |-> "none", last |-> 0, utd |-> NoVector,
            added |-> {}, page |-> NoPage, failed |-> {}]

\* An entry of the initial copy was created by the server with the lowest ID.
Founder == CHOOSE s \in Server : \A t \in Server : s <= t
Copied ==
    [usnChanged |-> 1,
     meta |-> [a \in AllAttr |->
                 IF a = "usnCreated"
                 THEN [version |-> 1, orig |-> Founder, usn |-> 1, localUsn |-> 1]
                 ELSE NoMeta]]

Init ==
    /\ db = [s \in Server |-> [e \in Entry |-> IF e \in Initial THEN Copied ELSE NoEntry]]
    /\ nextUsn = [s \in Server |-> 2]
    /\ utd = [s \in Server |-> [o \in Server |-> 1]]
    /\ hwm = [s \in Server |-> [p \in Server |-> 1]]
    /\ cycle = [s \in Server |-> NoCycle]
    /\ vector = [s \in Server |-> NoVector]
    /\ writes = {}
    /\ fails = 0

-----------------------------------------------------------------------------
(* Local writes *)

\* The server holds the entry (its objectGUID), or the tombstone it has become.
Exists(s, e) == db[s][e].usnChanged # 0
Deleted(s, e) == db[s][e].meta["isDeleted"].version > 0

\* There is an entry of that DN: a tombstone has moved to the deleted objects.
Live(s, e) == Exists(s, e) /\ ~Deleted(s, e)

HasParent(s, e) == Parent[e] # None => Live(s, Parent[e])
Children(e) == {f \in Entry : Parent[f] = e}
Leaf(s, e) == \A f \in Children(e) : ~Live(s, f)

Stamp(s, version) ==
    [version |-> version, orig |-> s, usn |-> nextUsn[s], localUsn |-> nextUsn[s]]

Record(e, a, m) == writes' = writes \cup {[entry |-> e, attr |-> a, version |-> m.version,
                                           orig |-> m.orig, usn |-> m.usn]}

\* VmDirInternalAddEntry.  Two clients do not create the same entry, and none is
\* created below an entry that another client has deleted.
Add(s, e) ==
    /\ Cardinality(writes) < MaxWrite
    /\ s \in Writer
    /\ \A t \in Server : ~Exists(t, e)
    /\ HasParent(s, e)
    /\ \A t \in Server : Parent[e] # None => ~Deleted(t, Parent[e])
    /\ db' = [db EXCEPT ![s][e] = [usnChanged |-> nextUsn[s],
                                   meta |-> [NoEntry.meta EXCEPT !["usnCreated"] = Stamp(s, 1)]]]
    /\ nextUsn' = [nextUsn EXCEPT ![s] = @ + 1]
    /\ Record(e, "usnCreated", Stamp(s, 1))
    /\ UNCHANGED <<utd, hwm, cycle, vector, fails>>

\* VmDirInternalModifyEntry, with the metadata of VmDirGenerateModsNewMetaData
Modify(s, e, a) ==
    /\ Cardinality(writes) < MaxWrite
    /\ s \in Writer
    /\ Live(s, e)
    /\ LET m == Stamp(s, db[s][e].meta[a].version + 1)
       IN /\ db' = [db EXCEPT ![s][e].meta[a] = m, ![s][e].usnChanged = nextUsn[s]]
          /\ Record(e, a, m)
    /\ nextUsn' = [nextUsn EXCEPT ![s] = @ + 1]
    /\ UNCHANGED <<utd, hwm, cycle, vector, fails>>

\* VmDirInternalDeleteEntry: the entry becomes a tombstone, without the attributes
\* that _GenerateDeleteAttrsMods removes.  No client has created an entry below it
\* that the server does not know of.
Delete(s, e) ==
    /\ Cardinality(writes) < MaxWrite
    /\ s \in Writer
    /\ Live(s, e)
    /\ Leaf(s, e)
    /\ \A t \in Server, f \in Children(e) : Exists(t, f) => Exists(s, f)
    /\ db' = [db EXCEPT ![s][e] =
                 [usnChanged |-> nextUsn[s],
                  meta |-> [a \in AllAttr |->
                              LET m == db[s][e].meta[a]
                              IN IF a = "isDeleted" \/ (a \in Attr /\ m.version > 0)
                                 THEN Stamp(s, m.version + 1) ELSE m]]]
    /\ nextUsn' = [nextUsn EXCEPT ![s] = @ + 1]
    /\ Record(e, "isDeleted", Stamp(s, 1))
    /\ UNCHANGED <<utd, hwm, cycle, vector, fails>>

-----------------------------------------------------------------------------
(* The supplier *)

\* VmDirIsUsnInScope: the consumer's vector does not cover the change ...
Uncovered(c, m) == m.orig # c /\ m.version > 0 /\ m.usn > utd[c][m.orig]

\* ... and it has come after the creation that was sent in the same cycle.
PriorUsnCreated(c, p, e) ==
    IF e \in cycle[c].added THEN db[p][e].meta["usnCreated"].localUsn ELSE 0

InScope(c, p, e) ==
    {a \in AllAttr : /\ Uncovered(c, db[p][e].meta[a])
                     /\ db[p][e].meta[a].localUsn > PriorUsnCreated(c, p, e)}

\* The filter (usnChanged >= last + 1)
Candidate(c, p) == {e \in Entry : db[p][e].usnChanged > cycle[c].last}
UpTo(p, E, e) == {f \in E : db[p][f].usnChanged <= db[p][e].usnChanged}
Sendable(c, p) == {e \in Candidate(c, p) : InScope(c, p, e) # {}}

\* ProcessCandidateList looks at the candidates until the page is full.
Examined(c, p) ==
    {e \in Candidate(c, p) :
        Cardinality(UpTo(p, Sendable(c, p), e) \ {e}) < PageSize}

\* currMaxOrigUsnProcessed: the highest USN of each originator among what the
\* entries that were looked at have and the consumer's vector does not cover
PageUtd(c, p) ==
    [o \in Server |->
       LET changes == {db[p][x[1]].meta[x[2]] : x \in Examined(c, p) \X AllAttr}
           usns == {m.usn : m \in {k \in changes : Uncovered(c, k) /\ k.orig = o}}
                      \cup {utd[c][o]}
       IN CHOOSE u \in usns : \A v \in usns : v <= u]

\* Mutant of PageHwm: the page goes up to all that the supplier has.
PageHwmAll(c, p) == nextUsn[p] - 1

\* Mutant of PageHwm: the page goes up to the number of the next change.
PageHwmNext(c, p) == nextUsn[p]

\* intLastLocalUsnProcessed: usnChanged of the last entry that was looked at
PageHwm(c, p) ==
    LET usns == {db[p][e].usnChanged : e \in Examined(c, p)} \cup {cycle[c].last}
    IN CHOOSE u \in usns : \A v \in usns : v <= u

\* WriteSyncStateControl: an entry that the consumer has not seen is an addition even
\* if it is a tombstone by now.
SyncState(scope) ==
    IF "usnCreated" \in scope THEN "add"
    ELSE IF "isDeleted" \in scope THEN "delete" ELSE "modify"

\* VmDirSendSearchEntry
PageEntry(c, p, e) ==
    [entry   |-> e,
     usn     |-> db[p][e].usnChanged,
     state   |-> SyncState(InScope(c, p, e)),
     deleted |-> Deleted(p, e),
     meta    |-> [a \in InScope(c, p, e) |-> db[p][e].meta[a]]]

\* The search, in one MDB read transaction.
Search(c) ==
    LET p == cycle[c].partner
        entries == {PageEntry(c, p, e) : e \in Examined(c, p) \cap Sendable(c, p)}
    IN /\ cycle[c].step = "request"
       /\ Overlap \/ cycle[p].step # "apply"
       /\ cycle' = [cycle EXCEPT
             ![c].step = "search",
             ![c].page = [NoPage EXCEPT !.entries = entries, !.hwm = PageHwm(c, p),
                                        !.utd = PageUtd(c, p),
                                        !.sent = Cardinality(entries)],
             ![c].added = @ \cup {x.entry : x \in {y \in entries : y.state = "add"}}]
       /\ UNCHANGED <<db, nextUsn, utd, hwm, vector, writes, fails>>

\* VmDirConsumerRoleActive
ConsumerRoleActive(s) == s \in DOMAIN vector[s]

\* Mutant of MoreExpected: only a full page means that there is more.
MoreExpectedFull(p, sent) == sent = PageSize

\* bContinue
MoreExpected(p, sent) == sent = PageSize \/ ConsumerRoleActive(p)

\* VmDirDDVectorToString: to its own supplier a server does not mind its own count.
VectorFor(c, p) ==
    IF cycle[p].partner = c THEN [vector[p] EXCEPT ![p] = EmptyPageCnt] ELSE vector[p]

\* VmDirUpdateSyncDoneCtl and the answer
Reply(c) ==
    LET p == cycle[c].partner
        sent == cycle[c].page.sent
    IN /\ cycle[c].step = "search"
       /\ cycle' = [cycle EXCEPT
             ![c].step = "apply",
             ![c].page.more = MoreExpected(p, sent),
             ![c].page.vector = IF ConsumerRoleActive(p) /\ sent = 0
                                THEN VectorFor(c, p) ELSE NoVector]
       /\ UNCHANGED <<db, nextUsn, utd, hwm, vector, writes, fails>>

-----------------------------------------------------------------------------
(* The consumer *)

\* _VmDirConsumePartner
BeginCycle(c, p) ==
    /\ cycle[c].step = "none"
    /\ cycle' = [cycle EXCEPT ![c] = [NoCycle EXCEPT !.partner = p, !.step = "request",
                                        !.last = hwm[c][p], !.utd = utd[c]]]
    /\ vector' = [vector EXCEPT ![c] = [s \in {c} |-> 0]]
    /\ UNCHANGED <<db, nextUsn, utd, hwm, writes, fails>>

\* Mutant of Beats: the last change to arrive wins.
BeatsLatest(m, n) == TRUE

\* _VmDirReplAttrConflictCheck
Beats(m, n) == m.version > n.version \/ (m.version = n.version /\ m.orig > n.orig)

\* _VmDirReplicationUpdateTombStoneEntrySyncState: the tombstone of an entry that the
\* consumer has deletes it.
Received(c, x) ==
    IF x.state = "add" /\ x.deleted /\ Exists(c, x.entry)
    THEN [x EXCEPT !.state = "delete"] ELSE x

\* ReplAddEntry wants an objectGUID that is new (VDIR_INDEX_INITIALIZER makes its index
\* unique) and, but for a tombstone, a parent; ReplModifyEntry an entry or tombstone of
\* that objectGUID (ReplFixUpEntryDn), and no tombstone of the supplier's;
\* ReplDeleteEntry an entry without children.
Applicable(c, x) ==
    CASE x.state = "add"    -> ~Exists(c, x.entry) /\ (x.deleted \/ HasParent(c, x.entry))
      [] x.state = "modify" -> Exists(c, x.entry) /\ ~x.deleted
      [] x.state = "delete" -> Live(c, x.entry) /\ Leaf(c, x.entry)

\* The attributes of a modification that win are taken over, those of an addition or
\* a deletion in any case (VmDirReplSetAttrNewMetaData); usnChanged goes up.
Merge(c, x) ==
    LET old == db[c][x.entry].meta
    IN [usnChanged |-> nextUsn[c],
        meta |-> [a \in AllAttr |->
                    IF a \in DOMAIN x.meta /\ (x.state = "modify" => Beats(x.meta[a], old[a]))
                    THEN [x.meta[a] EXCEPT !.localUsn = nextUsn[c]]
                    ELSE old[a]]]

ApplyEntry(c, x) ==
    /\ db' = [db EXCEPT ![c][x.entry] = Merge(c, x)]
    /\ nextUsn' = [nextUsn EXCEPT ![c] = @ + 1]

First(c, x) ==
    x \in cycle[c].page.entries /\ \A y \in cycle[c].page.entries : x.usn <= y.usn

\* _VmDirProcessReplicationPage: an entry that cannot be applied is kept for later.
Apply(c, x) ==
    LET y == Received(c, x)
    IN /\ cycle[c].step = "apply"
       /\ First(c, x)
       /\ cycle' = [cycle EXCEPT ![c].page.entries = @ \ {x},
                                 ![c].failed = IF Applicable(c, y) THEN @ ELSE @ \cup {y}]
       /\ IF Applicable(c, y) THEN ApplyEntry(c, y) ELSE UNCHANGED <<db, nextUsn>>
       /\ UNCHANGED <<utd, hwm, vector, writes, fails>>

\* Mutant of Retryable: what has failed is not tried again.
RetryableNone(c) == {}

\* VmDirReapplyFailedEntriesFromQueue goes round the queue for as long as that helps.
Retryable(c) == {x \in cycle[c].failed : Applicable(c, x)}

Reapply(c, x) ==
    /\ cycle[c].step = "apply"
    /\ cycle[c].page.entries = {}
    /\ x \in Retryable(c)
    /\ cycle' = [cycle EXCEPT ![c].failed = @ \ {x}]
    /\ ApplyEntry(c, x)
    /\ UNCHANGED <<utd, hwm, vector, writes, fails>>

\* Mutant of NewVector: the vector received replaces the consumer's.
NewVectorReceived(c, received) == IF received = NoVector THEN [s \in {c} |-> 0] ELSE received

\* VmDirDDVectorParseString: the vector of an empty page from a supplier that
\* consumes, with the consumer's own count (no more than is compared) ...
NewVector(c, received) ==
    IF received = NoVector
    THEN [s \in {c} |-> 0]
    ELSE [s \in DOMAIN received \cup {c} |->
            IF s # c THEN received[s]
            ELSE IF vector[c][c] < EmptyPageCnt THEN vector[c][c] + 1 ELSE EmptyPageCnt]

\* Mutant of CompleteCycle: the vector does not end the cycle.
CompleteCycleNever(v) == FALSE

\* ... ends the cycle when everyone in it has had enough empty pages.
CompleteCycle(v) == \A s \in DOMAIN v : v[s] >= EmptyPageCnt

\* lastSupplierUsnProcessed
LastAfter(c) == IF cycle[c].page.hwm > cycle[c].last THEN cycle[c].page.hwm ELSE cycle[c].last

\* VmDirUpdateUtdVectorLocalCache
UtdAfter(c) ==
    [o \in Server |-> IF cycle[c].page.utd[o] > cycle[c].utd[o]
                      THEN cycle[c].page.utd[o] ELSE cycle[c].utd[o]]

\* cleanup of _VmDirConsumePartner
EndCycle(c) ==
    /\ cycle' = [cycle EXCEPT ![c] = NoCycle]
    /\ vector' = [vector EXCEPT ![c] = NoVector]

\* The end of the loop of _VmDirConsumePartner: another page, the cookies, or, if
\* the high-water mark has not moved, nothing.
PageDone(c) ==
    LET page == cycle[c].page
        v == NewVector(c, page.vector)
        complete == page.vector # NoVector /\ CompleteCycle(v)
        again == page.more /\ ~complete
    IN /\ cycle[c].step = "apply"
       /\ page.entries = {}
       /\ Retryable(c) = {}
       /\ Overlap \/ \A d \in Server : cycle[d].partner = c => cycle[d].step # "search"
       /\ IF ~again /\ LastAfter(c) = hwm[c][cycle[c].partner]
          THEN EndCycle(c)
          ELSE /\ vector' = [vector EXCEPT ![c] = v]
               /\ cycle' = [cycle EXCEPT ![c].step = IF again THEN "request" ELSE "saveUtd",
                                         ![c].last = LastAfter(c),
                                         ![c].utd = UtdAfter(c),
                                         ![c].page = NoPage]
       /\ UNCHANGED <<db, nextUsn, utd, hwm, writes, fails>>

\* VmDirReplCookieUpdate: the vector, then the high-water mark, each on disk and in
\* memory.
SaveUtd(c) ==
    /\ cycle[c].step = "saveUtd"
    /\ utd' = [utd EXCEPT ![c] = cycle[c].utd]
    /\ cycle' = [cycle EXCEPT ![c].step = "saveHwm"]
    /\ UNCHANGED <<db, nextUsn, hwm, vector, writes, fails>>

SaveHwm(c) ==
    /\ cycle[c].step = "saveHwm"
    /\ hwm' = [hwm EXCEPT ![c][cycle[c].partner] = cycle[c].last]
    /\ EndCycle(c)
    /\ UNCHANGED <<db, nextUsn, utd, writes, fails>>

\* The cycle fails: the connection is lost, a cookie cannot be written, or the
\* server stops or crashes.
Fail(c) ==
    /\ cycle[c].step # "none"
    /\ fails < MaxFail
    /\ fails' = fails + 1
    /\ EndCycle(c)
    /\ UNCHANGED <<db, nextUsn, utd, hwm, writes>>

-----------------------------------------------------------------------------

Next ==
    \/ \E s \in Server, e \in Entry :
          Add(s, e) \/ Delete(s, e) \/ \E a \in Attr : Modify(s, e, a)
    \/ \E g \in Agreement : BeginCycle(g[1], g[2])
    \/ \E c \in Server :
          \/ Search(c) \/ Reply(c) \/ PageDone(c) \/ SaveUtd(c) \/ SaveHwm(c) \/ Fail(c)
          \/ \E x \in cycle[c].page.entries : Apply(c, x)
          \/ \E x \in cycle[c].failed : Reapply(c, x)

Spec == Init /\ [][Next]_vars
-----------------------------------------------------------------------------
(* Correctness *)

Meta == [version : Nat, orig : Server \cup {0}, usn : Nat, localUsn : Nat]
UsnVector == [Server -> Nat]
IsPageEntry(x) ==
    /\ x.entry \in Entry /\ x.usn \in Nat
    /\ DOMAIN x.meta \in (SUBSET AllAttr) \ {{}} /\ x.meta \in [DOMAIN x.meta -> Meta]
    /\ x.state \in {"add", "modify", "delete"}
    /\ x.state = "delete" => x.deleted
EmptyPageVector == UNION {[S -> 0..EmptyPageCnt] : S \in SUBSET Server}

\* The shape of the state; and a server takes the consumer role
\* (VmDirConsumerRoleActive) exactly for as long as it is in a cycle.
TypeOK ==
    /\ db \in [Server -> [Entry -> [usnChanged : Nat, meta : [AllAttr -> Meta]]]]
    /\ nextUsn \in UsnVector
    /\ utd \in [Server -> UsnVector]
    /\ hwm \in [Server -> UsnVector]
    /\ vector \in [Server -> EmptyPageVector]
    /\ \A c \in Server :
          /\ cycle[c].partner = None <=> cycle[c].step = "none"
          /\ ConsumerRoleActive(c) <=> cycle[c].step # "none"
          /\ cycle[c].added \subseteq Entry
          /\ \A x \in cycle[c].failed \cup cycle[c].page.entries : IsPageEntry(x)
          /\ \A x \in cycle[c].page.entries :
                x.state = "delete" => "isDeleted" \in DOMAIN x.meta
          /\ cycle[c].page.entries # {} => cycle[c].step \in {"search", "apply"}
          /\ cycle[c].failed # {} => cycle[c].step # "none"

\* No mark is ahead of the numbers its server has given out: ParseSyncRequestControlVal
\* never turns a partner away as being ahead of its changes, and neither the filter of
\* _VmDirFetchReplicationPage nor VmDirIsUsnInScope leaves out a change that is still
\* to be made.
NotAhead ==
    \A c, o \in Server : hwm[c][o] < nextUsn[o] /\ utd[c][o] < nextUsn[o]

\* A change wins against, or is, another change of the attribute.
Supersedes(m, w) ==
    m.version > w.version \/ (m.version = w.version /\ m.orig >= w.orig)

\* Whatever the order in which changes arrive, a server replaces one only by one that
\* wins against it (_VmDirReplAttrConflictCheck), unless a server has deleted the
\* entry: what comes with the deletion is taken over in any case.
ChangesWin ==
    [][\A s \in Server, e \in Entry, x \in AllAttr :
          \/ Supersedes(db'[s][e].meta[x], db[s][e].meta[x])
          \/ \E t \in Server : Deleted(t, e)]_vars

\* An entry that is deleted somewhere and that the server does not show either.  The
\* server need not have the tombstone: the entry may have come and gone at the
\* supplier, with its parent, in the course of a cycle.
Gone(s, e) == ~Live(s, e) /\ \E t \in Server : Deleted(t, e)

\* A server's up-to-date vector is true: the server has every change the vector
\* covers, or one that wins against it, unless the entry is gone.  VmDirIsUsnInScope
\* leaves those changes out of every page the server ever asks for, whoever the
\* supplier is.
VectorIsTrue ==
    \A c \in Server : \A w \in writes :
        w.orig # c /\ w.usn <= utd[c][w.orig]
            => Gone(c, w.entry) \/ Supersedes(db[c][w.entry].meta[w.attr], w)

\* The high-water mark of an agreement is true: an entry of the supplier that has not
\* changed since, which the filter of _VmDirFetchReplicationPage leaves out, holds
\* nothing that the consumer lacks.
HighWaterIsTrue ==
    \A g \in Agreement : \A e \in Entry, x \in AllAttr :
        db[g[2]][e].usnChanged <= hwm[g[1]][g[2]] /\ db[g[2]][e].meta[x].orig # g[1]
            => Gone(g[1], e) \/ Supersedes(db[g[1]][e].meta[x], db[g[2]][e].meta[x])

\* What a client sees of an attribute.
Content(s) ==
    [e \in {f \in Entry : Live(s, f)} |->
       [x \in AllAttr |-> LET m == db[s][e].meta[x] IN <<m.version, m.orig, m.usn>>]]

Agree == \A s, t \in Server : Content(s) = Content(t)

\* The replication thread goes through the agreements for ever; within a cycle it
\* stops nowhere, and the supplier answers.
Fairness ==
    /\ \A g \in Agreement : SF_vars(BeginCycle(g[1], g[2]))
    /\ \A c \in Server :
          /\ WF_vars(Search(c)) /\ WF_vars(Reply(c)) /\ WF_vars(PageDone(c))
          /\ WF_vars(SaveUtd(c)) /\ WF_vars(SaveHwm(c))
          /\ WF_vars(\E x \in cycle[c].page.entries : Apply(c, x))
          /\ WF_vars(\E x \in cycle[c].failed : Reapply(c, x))

FairSpec == Spec /\ Fairness

\* When the writes have ended the servers come to hold the same changes, whatever
\* the conflicts between them and wherever a cycle was cut off.
Converges == <>[]Agree

\* No cycle goes on for ever: servers that consume from each other, each told to
\* continue because the other is not done, come to an end
\* (VmDirDDVectorParseString).
CyclesEnd == \A c \in Server : []<>(cycle[c].step = "none")
=============================================================================
