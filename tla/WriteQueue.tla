----------------------------- MODULE WriteQueue -----------------------------
(***************************************************************************)
(* The write queue of the vmdir directory server                           *)
(* (vmdir/server/middle-layer/writequeue.c, usn.c, add.c, modify.c,        *)
(* delete.c, replication/replentry.c, vmdir/utils.c) and a replication     *)
(* partner that pulls the server's changes (controls.c, thread.c).         *)
(*                                                                         *)
(* Each write takes an update sequence number, waits until it is at the    *)
(* head of the queue, writes in an MDB transaction and leaves the queue.   *)
(* Partners ask for the entries whose usnChanged is above the highest one  *)
(* they have received, so a number that is committed after a higher one    *)
(* would be lost to them for good.                                         *)
(*                                                                         *)
(* The locks are gVmDirServerOpsGlobals.pMutex, which guards the queue,    *)
(* the MDB writer lock, gVdirSchemaGlobals.cacheModMutex and               *)
(* gVmdirdStateGlobals.pMutex.                                             *)
(***************************************************************************)
EXTENDS Naturals, Sequences, FiniteSets

CONSTANTS
    Local,          \* the threads that serve LDAP writes
    Repl,           \* the replication thread
    Nil,
    DrainWhileReplicating,  \* may the server be made read-only during a
                    \* replication cycle?
    LateSpuriousWakeup,     \* may a spurious wake-up of a condition variable
                    \* fall on the end of the write timeout?
    ElementReused,  \* may the memory of an element that was freed in the queue
                    \* become that of a later operation's element?
    MaxUsn,         \* bound: update sequence numbers
    MaxRound,       \* bound: further rounds of the loop of VmDirWriteQueueWait, and
                    \* failures of operations that have no number yet
    MaxUnpopped,    \* bound: replicated operations that leave their element behind
    MaxStateSet,    \* bound: changes to read-only
    MaxRestart      \* bound: crashes

Writer == Local \cup Repl

ASSUME WriterAssumption == Local \cap Repl = {} /\ Nil \notin Writer
ASSUME BoundAssumption ==
    /\ DrainWhileReplicating \in BOOLEAN /\ LateSpuriousWakeup \in BOOLEAN
    /\ ElementReused \in BOOLEAN
    /\ MaxUsn \in Nat /\ MaxRound \in Nat /\ MaxUnpopped \in Nat /\ MaxStateSet \in Nat
    /\ MaxRestart \in Nat

\* What an operation does, step after step, up to the commit.  "state" is
\* VmDirdState(), "schema" VmDirSchemaModMutexAcquire.  ReplAddEntry and
\* ReplDeleteEntry take their number before they call VmDirInternalAddEntry or
\* VmDirInternalDeleteEntry; ReplModifyEntry calls VmDirInternalModifyEntry inside
\* its transaction.
After ==
    [local   |-> [idle |-> "state", state |-> "schema", schema |-> "push",
                  push |-> "wait", wait |-> "txn", txn |-> "commit"],
     repladd |-> [idle |-> "push", push |-> "state", state |-> "schema",
                  schema |-> "wait", wait |-> "txn", txn |-> "commit"],
     replmod |-> [idle |-> "schema", schema |-> "push", push |-> "wait",
                  wait |-> "txn", txn |-> "state", state |-> "commit"]]

Kind == {"local", "repladd", "replmod"}
Step == {"idle", "state", "schema", "push", "wait", "txn", "commit", "pop"}

VARIABLES
    kind, pc,       \* the operation of each thread, and its next step
    schemaOp,       \* does the operation change the schema?
    usn,            \* pWriteQueueEle->usn, 0 if the operation has none
    sleep,          \* inside VmDirWriteQueueWait: "no", "asleep", "woken", "timedout"
    queue,          \* pWriteQueue: the number each element reads as
    pMutex,         \* who keeps gVmDirServerOpsGlobals.pMutex for its next step
    mdb,            \* the owner of the MDB writer lock
    schemaMutex,    \* the owner of gVdirSchemaGlobals.cacheModMutex
    nextUsn,        \* the USN sequence, on disk
    maxCommittedUSN,
    db,             \* the numbers of the entries in the database (usnChanged)
    readOnly,       \* vmdirdState is VMDIRD_STATE_READ_ONLY
    draining,       \* VmDirdStateSet keeps gVmdirdStateGlobals.pMutex and waits
    lastUsnProcessed,   \* the partner's high-water mark, on the partner's disk
    received,       \* the numbers of the entries the partner has received
    unpopped,       \* operations that have left their element in the queue
    rounds, stateSets, restarts     \* bounds

opVars      == <<kind, pc, schemaOp, usn, sleep>>
stateVars   == <<readOnly, draining, stateSets>>
bounds      == <<rounds, unpopped, restarts>>
partnerVars == <<lastUsnProcessed, received>>
vars == <<opVars, queue, pMutex, mdb, schemaMutex, nextUsn, maxCommittedUSN, db,
          stateVars, partnerVars, bounds>>

TypeOK ==
    /\ kind \in [Writer -> Kind]
    /\ pc \in [Writer -> Step]
    /\ schemaOp \in [Writer -> BOOLEAN]
    /\ usn \in [Writer -> Nat]
    /\ sleep \in [Writer -> {"no", "asleep", "woken", "timedout"}]
    /\ queue \in Seq(Nat)
    /\ pMutex \in Writer \cup {Nil}
    /\ mdb \in Writer \cup {Nil}
    /\ schemaMutex \in Writer \cup {Nil}
    /\ nextUsn \in Nat
    /\ maxCommittedUSN \in Nat
    /\ db \subseteq Nat
    /\ readOnly \in BOOLEAN
    /\ draining \in BOOLEAN
    /\ lastUsnProcessed \in Nat
    /\ received \subseteq Nat
    /\ unpopped \in Nat
    /\ rounds \in Nat
    /\ stateSets \in Nat
    /\ restarts \in Nat

\* VmDirInitMaxCommittedUSN has taken number 1.
Init ==
    /\ kind = [w \in Writer |-> "local"]
    /\ pc = [w \in Writer |-> "idle"]
    /\ schemaOp = [w \in Writer |-> FALSE]
    /\ usn = [w \in Writer |-> 0]
    /\ sleep = [w \in Writer |-> "no"]
    /\ queue = <<>>
    /\ pMutex = Nil
    /\ mdb = Nil
    /\ schemaMutex = Nil
    /\ nextUsn = 2
    /\ maxCommittedUSN = 1
    /\ db = {}
    /\ readOnly = FALSE
    /\ draining = FALSE
    /\ lastUsnProcessed = 0
    /\ received = {}
    /\ unpopped = 0
    /\ rounds = 0
    /\ stateSets = 0
    /\ restarts = 0

-----------------------------------------------------------------------------
(* The operations *)

Goto(w, step) == pc' = [pc EXCEPT ![w] = step]

Advance(w) == Goto(w, After[kind[w]][pc[w]])

\* Mutant of Bail: the transaction is left open.
BailInTxn(w) == Goto(w, "pop") /\ UNCHANGED mdb

\* The error path of an operation: abort the transaction, then the cleanup.
Bail(w) ==
    /\ Goto(w, "pop")
    /\ mdb' = IF mdb = w THEN Nil ELSE mdb

\* Numbers are left for every operation under way and for every restart.
UsnLeft ==
    nextUsn + Cardinality({w \in Writer : pc[w] # "idle" /\ usn[w] = 0})
            + (MaxRestart - restarts) <= MaxUsn

\* A thread begins an operation.
Begin(w, k, schema) ==
    /\ pc[w] = "idle"
    /\ UsnLeft
    /\ (k = "local") = (w \in Local)
    /\ w \in Repl => DrainWhileReplicating \/ ~draining
    /\ kind' = [kind EXCEPT ![w] = k]
    /\ schemaOp' = [schemaOp EXCEPT ![w] = schema]
    /\ Goto(w, After[k]["idle"])
    /\ UNCHANGED <<usn, sleep, queue, pMutex, mdb, schemaMutex, nextUsn,
                   maxCommittedUSN, db, stateVars, partnerVars, bounds>>

\* VmDirdState(): "Server in read-only mode" ends the operation.
CheckState(w) ==
    /\ pc[w] = "state"
    /\ ~draining
    /\ IF readOnly THEN Bail(w) ELSE Advance(w) /\ UNCHANGED mdb
    /\ UNCHANGED <<kind, schemaOp, usn, sleep, queue, pMutex, schemaMutex, nextUsn,
                   maxCommittedUSN, db, stateVars, partnerVars, bounds>>

\* VmDirSchemaModMutexAcquire: only for entries below the schema context.
TakeSchemaMutex(w) ==
    /\ pc[w] = "schema"
    /\ IF schemaOp[w]
       THEN schemaMutex = Nil /\ schemaMutex' = w
       ELSE UNCHANGED schemaMutex
    /\ Advance(w)
    /\ UNCHANGED <<kind, schemaOp, usn, sleep, queue, pMutex, mdb, nextUsn,
                   maxCommittedUSN, db, stateVars, partnerVars, bounds>>

\* VmDirWriteQueuePush locks the queue ...
LockQueue(w) ==
    /\ pc[w] = "push"
    /\ pMutex = Nil
    /\ pMutex' = w
    /\ UNCHANGED <<opVars, queue, mdb, schemaMutex, nextUsn, maxCommittedUSN, db,
                   stateVars, partnerVars, bounds>>

\* The places of the queue whose operations have gone without taking them out.
Abandoned == {i \in 1..Len(queue) : \A w \in Writer : usn[w] # queue[i]}

\* Their elements are freed.  What such a place reads as is no number of an operation
\* under way, its old number for one, unless the memory is now that of the element
\* that gets number u.
ReadWhenPushed(u) ==
    {queue} \cup (IF ElementReused
                  THEN {[queue EXCEPT ![i] = u] : i \in Abandoned}
                  ELSE {})

\* ... and takes a number in an MDB write transaction of its own, with the queue
\* locked.
Push(w) ==
    /\ pc[w] = "push"
    /\ pMutex = w
    /\ mdb = Nil
    /\ usn' = [usn EXCEPT ![w] = nextUsn]
    /\ nextUsn' = nextUsn + 1
    /\ \E q \in ReadWhenPushed(nextUsn) : queue' = Append(q, nextUsn)
    /\ pMutex' = Nil
    /\ Advance(w)
    /\ UNCHANGED <<kind, schemaOp, sleep, mdb, schemaMutex, maxCommittedUSN, db,
                   stateVars, partnerVars, bounds>>

AtHead(w) == queue # <<>> /\ Head(queue) = usn[w]

\* VmDirWriteQueueWait, called: go on or wait for a signal.
Wait(w) ==
    /\ pc[w] = "wait"
    /\ sleep[w] = "no"
    /\ pMutex = Nil
    /\ IF AtHead(w)
       THEN Advance(w) /\ UNCHANGED sleep
       ELSE sleep' = [sleep EXCEPT ![w] = "asleep"] /\ UNCHANGED pc
    /\ UNCHANGED <<kind, schemaOp, usn, queue, pMutex, mdb, schemaMutex, nextUsn,
                   maxCommittedUSN, db, stateVars, partnerVars, bounds>>

\* VmDirConditionTimedWait returns, after dwWriteTimeoutInMilliSec or for no reason.
Timeout(w) ==
    /\ sleep[w] = "asleep"
    /\ sleep' = [sleep EXCEPT ![w] = "timedout"]
    /\ UNCHANGED <<kind, pc, schemaOp, usn, queue, pMutex, mdb, schemaMutex, nextUsn,
                   maxCommittedUSN, db, stateVars, partnerVars, bounds>>

SpuriousWakeup(w) ==
    /\ sleep[w] = "asleep"
    /\ rounds < MaxRound
    /\ sleep' = [sleep EXCEPT ![w] = "woken"]
    /\ rounds' = rounds + 1
    /\ UNCHANGED <<kind, pc, schemaOp, usn, queue, pMutex, mdb, schemaMutex, nextUsn,
                   maxCommittedUSN, db, stateVars, partnerVars, unpopped, restarts>>

\* The loop of VmDirWriteQueueWait goes round while the time is not up, as it may
\* not be by a hair even after a timeout: a thread that is not at the head waits
\* again, the full time.
WaitAgain(w) ==
    /\ sleep[w] \in {"woken", "timedout"}
    /\ pMutex = Nil
    /\ ~AtHead(w)
    /\ sleep[w] = "timedout" => rounds < MaxRound
    /\ sleep' = [sleep EXCEPT ![w] = "asleep"]
    /\ rounds' = IF sleep[w] = "timedout" THEN rounds + 1 ELSE rounds
    /\ UNCHANGED <<kind, pc, schemaOp, usn, queue, pMutex, mdb, schemaMutex, nextUsn,
                   maxCommittedUSN, db, stateVars, partnerVars, unpopped, restarts>>

\* Mutant of EndsWait: a thread that is woken does not look at the head again.
EndsWaitUnchecked(w) == TRUE

\* The loop ends at the head of the queue or when the time is up, which is after a
\* timeout or, for a spurious wake-up, by chance.
EndsWait(w) == AtHead(w) \/ sleep[w] = "timedout" \/ LateSpuriousWakeup

\* Only the result of the last wait says whether the turn has come.
LeaveWait(w) ==
    /\ sleep[w] \in {"woken", "timedout"}
    /\ pMutex = Nil
    /\ EndsWait(w)
    /\ sleep' = [sleep EXCEPT ![w] = "no"]
    /\ IF sleep[w] = "timedout" THEN Goto(w, "pop") ELSE Advance(w)
    /\ UNCHANGED <<kind, schemaOp, usn, queue, pMutex, mdb, schemaMutex, nextUsn,
                   maxCommittedUSN, db, stateVars, partnerVars, bounds>>

\* pfnBETxnBegin
TxnBegin(w) ==
    /\ pc[w] = "txn"
    /\ mdb = Nil
    /\ mdb' = w
    /\ Advance(w)
    /\ UNCHANGED <<kind, schemaOp, usn, sleep, queue, pMutex, schemaMutex, nextUsn,
                   maxCommittedUSN, db, stateVars, partnerVars, bounds>>

\* The entry is written with usnChanged = usn; pfnBETxnCommit
TxnCommit(w) ==
    /\ pc[w] = "commit"
    /\ db' = db \cup {usn[w]}
    /\ mdb' = Nil
    /\ Goto(w, "pop")
    /\ UNCHANGED <<kind, schemaOp, usn, sleep, queue, pMutex, schemaMutex, nextUsn,
                   maxCommittedUSN, stateVars, partnerVars, bounds>>

\* The operation fails: before it has a number, before it asks for its turn, or in
\* its transaction.
Fail(w) ==
    /\ \/ pc[w] = "push" /\ rounds < MaxRound
       \/ pc[w] \in {"txn", "commit"}
       \/ pc[w] = "wait" /\ sleep[w] = "no" /\ kind[w] # "replmod"
    /\ Bail(w)
    /\ pMutex' = IF pMutex = w THEN Nil ELSE pMutex
    /\ rounds' = IF pc[w] = "push" THEN rounds + 1 ELSE rounds
    /\ UNCHANGED <<kind, schemaOp, usn, sleep, queue, schemaMutex, nextUsn,
                   maxCommittedUSN, db, stateVars, partnerVars, unpopped, restarts>>

\* ReplAddEntry or ReplDeleteEntry fails between its push and VmDirInternalAddEntry or
\* VmDirInternalDeleteEntry: on metadata it cannot read, an attribute type it does not
\* know.  Its cleanup frees the element and does not call VmDirWriteQueuePop.
FailUnpopped(w) ==
    /\ kind[w] = "repladd"
    /\ pc[w] = "state"
    /\ unpopped < MaxUnpopped
    /\ unpopped' = unpopped + 1
    /\ usn' = [usn EXCEPT ![w] = 0]
    /\ Goto(w, "idle")
    /\ UNCHANGED <<kind, schemaOp, sleep, queue, pMutex, mdb, schemaMutex, nextUsn,
                   maxCommittedUSN, db, stateVars, partnerVars, rounds, restarts>>

\* Mutants of Without: the last node stays in the list; nothing is taken out.
WithoutLastNode(q, i) ==
    [j \in 1..Len(q) |-> IF j < i THEN q[j] ELSE IF j < Len(q) THEN q[j + 1] ELSE Nil]
WithoutNothing(q, i) == q

\* The list without its i-th element.
Without(q, i) == [j \in 1..(Len(q) - 1) |-> IF j < i THEN q[j] ELSE q[j + 1]]

\* The threads VmDirConditionSignal wakes when q is the queue that is left.
Signalled(q) ==
    {w \in Writer : q # <<>> /\ Head(q) = usn[w] /\ sleep[w] = "asleep"}

\* Mutants of MaxCommittedAfter: any write that leaves counts; none does.
MaxCommittedAfterAny(w) == IF usn[w] > maxCommittedUSN THEN usn[w] ELSE maxCommittedUSN
MaxCommittedAfterNone(w) == maxCommittedUSN

\* VmDirUpdateMaxCommittedUSNInLock, called for the head of the queue, committed or
\* failed.
MaxCommittedAfter(w) ==
    IF AtHead(w) /\ usn[w] > maxCommittedUSN THEN usn[w] ELSE maxCommittedUSN

\* The first element of the queue that reads as w's number.
IsFirst(w, i) == queue[i] = usn[w] /\ \A j \in 1..(i - 1) : queue[j] # usn[w]

\* VmDirWriteQueuePop: the head signals its successor; any other element leaves
\* silently, and an operation without a number has nothing to take out.
PopElement(w) ==
    /\ maxCommittedUSN' = MaxCommittedAfter(w)
    /\ IF \E i \in 1..Len(queue) : queue[i] = usn[w]
       THEN \E i \in 1..Len(queue) : IsFirst(w, i) /\ queue' = Without(queue, i)
       ELSE UNCHANGED queue
    /\ sleep' = [v \in Writer |->
                   IF AtHead(w) /\ v \in Signalled(Tail(queue)) THEN "woken" ELSE sleep[v]]

\* The cleanup of an operation.
Pop(w) ==
    /\ pc[w] = "pop"
    /\ pMutex = Nil
    /\ PopElement(w)
    /\ usn' = [usn EXCEPT ![w] = 0]
    /\ schemaMutex' = IF schemaMutex = w THEN Nil ELSE schemaMutex
    /\ Goto(w, "idle")
    /\ UNCHANGED <<kind, schemaOp, pMutex, mdb, nextUsn, db, stateVars, partnerVars, bounds>>

-----------------------------------------------------------------------------
(* The state of the server *)

\* VmDirdStateSet(VMDIRD_STATE_READ_ONLY): the state is set and the mutex kept.
SetReadOnly ==
    /\ ~readOnly
    /\ stateSets < MaxStateSet
    /\ DrainWhileReplicating \/ \A w \in Repl : pc[w] = "idle"
    /\ readOnly' = TRUE
    /\ draining' = TRUE
    /\ stateSets' = stateSets + 1
    /\ UNCHANGED <<opVars, queue, pMutex, mdb, schemaMutex, nextUsn, maxCommittedUSN, db,
                   partnerVars, bounds>>

\* "Wait for the pending write transactions to be over before returning"
Drained ==
    /\ draining
    /\ pMutex = Nil
    /\ queue = <<>>
    /\ draining' = FALSE
    /\ UNCHANGED <<opVars, queue, pMutex, mdb, schemaMutex, nextUsn, maxCommittedUSN, db,
                   readOnly, stateSets, partnerVars, bounds>>

\* VmDirdStateSet(VMDIRD_STATE_NORMAL)
SetNormal ==
    /\ readOnly
    /\ ~draining
    /\ readOnly' = FALSE
    /\ UNCHANGED <<opVars, queue, pMutex, mdb, schemaMutex, nextUsn, maxCommittedUSN, db,
                   draining, stateSets, partnerVars, bounds>>

\* A crash.  VmDirInitMaxCommittedUSN takes a number at the next start.
Restart ==
    /\ restarts < MaxRestart
    /\ restarts' = restarts + 1
    /\ pc' = [w \in Writer |-> "idle"]
    /\ usn' = [w \in Writer |-> 0]
    /\ sleep' = [w \in Writer |-> "no"]
    /\ queue' = <<>>
    /\ pMutex' = Nil
    /\ mdb' = Nil
    /\ schemaMutex' = Nil
    /\ nextUsn' = nextUsn + 1
    /\ maxCommittedUSN' = nextUsn
    /\ readOnly' = FALSE
    /\ draining' = FALSE
    /\ UNCHANGED <<kind, schemaOp, db, stateSets, partnerVars, rounds, unpopped>>

-----------------------------------------------------------------------------
(* The partner *)

\* ParseSyncRequestControlVal refuses a partner that claims to be ahead.
PartnerAhead == lastUsnProcessed > maxCommittedUSN + 1

\* The partner asks for usnChanged >= lastUsnProcessed + 1 and gets a page: the
\* entries up to some number, in the order of their numbers.
FetchPage(last) ==
    /\ pMutex = Nil
    /\ ~PartnerAhead
    /\ last \in db
    /\ last > lastUsnProcessed
    /\ received' = received \cup {u \in db : u > lastUsnProcessed /\ u <= last}
    /\ lastUsnProcessed' = last
    /\ UNCHANGED <<opVars, queue, pMutex, mdb, schemaMutex, nextUsn, maxCommittedUSN, db,
                   stateVars, bounds>>

-----------------------------------------------------------------------------

Next ==
    \/ \E w \in Writer :
          \/ \E k \in Kind, schema \in BOOLEAN : Begin(w, k, schema)
          \/ CheckState(w) \/ TakeSchemaMutex(w) \/ LockQueue(w) \/ Push(w)
          \/ Wait(w) \/ Timeout(w) \/ SpuriousWakeup(w) \/ WaitAgain(w) \/ LeaveWait(w)
          \/ TxnBegin(w) \/ TxnCommit(w) \/ Fail(w) \/ FailUnpopped(w) \/ Pop(w)
    \/ SetReadOnly \/ Drained \/ SetNormal \/ Restart
    \/ \E last \in db : FetchPage(last)

Spec == Init /\ [][Next]_vars
-----------------------------------------------------------------------------
(* Correctness *)

\* No committed change is lost to the partner: whatever it has gone past with its
\* high-water mark, it has received.
NoneSkipped == \A u \in db : u <= lastUsnProcessed => u \in received

\* highestCommittedUSN is final: no write under way has a number at or below it.
HighestCommittedIsFinal ==
    \A w \in Writer : pc[w] # "pop" /\ usn[w] # 0 => usn[w] > maxCommittedUSN

\* A change to read-only waits, with the state mutex locked, for an element that a
\* replicated operation has left behind.
DrainHangs == draining /\ unpopped > 0 /\ Abandoned # {}

\* Every operation comes to its end, with its turn or with a timeout, whatever the
\* others hold and wait for and whoever has left an element at the head of the queue,
\* unless DrainHangs.
EveryWriteEnds == \A w \in Writer : []<>(pc[w] = "idle" \/ DrainHangs)

\* A server that is made read-only gets there, whatever the writes in the queue wait
\* for, unless DrainHangs.
DrainEnds == []<>(draining => DrainHangs)

\* The partner receives every committed change: the check of its high-water mark
\* does not shut it out.
PartnerReceivesAll == []<>(db \subseteq received)

\* Threads run, time passes, the partner asks.
Fairness ==
    /\ \A w \in Writer :
          /\ WF_vars(CheckState(w)) /\ WF_vars(TakeSchemaMutex(w))
          /\ WF_vars(LockQueue(w)) /\ WF_vars(Push(w)) /\ WF_vars(Wait(w))
          /\ WF_vars(Timeout(w)) /\ WF_vars(WaitAgain(w) \/ LeaveWait(w))
          /\ WF_vars(TxnBegin(w)) /\ WF_vars(TxnCommit(w)) /\ WF_vars(Pop(w))
    /\ WF_vars(Drained)
    /\ WF_vars(\E last \in db : FetchPage(last))

FairSpec == Spec /\ Fairness
=============================================================================
