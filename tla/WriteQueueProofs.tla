-------------------------- MODULE WriteQueueProofs --------------------------
(***************************************************************************)
(* Proofs about WriteQueue: the types and, when the memory of a freed      *)
(* element does not become that of a later one, that highestCommittedUSN   *)
(* is final and, when moreover no spurious wake-up falls on the end of the *)
(* write timeout, that no committed change is lost to the partner.         *)
(***************************************************************************)
EXTENDS WriteQueue, SequenceTheorems, TLAPS

\* usn[w] is a number of the queue.
InQueue(w) == \E i \in 1..Len(queue) : queue[i] = usn[w]

\* An operation past VmDirWriteQueueWait and before its cleanup.
PastWait(w) ==
    \/ pc[w] \in {"txn", "commit"}
    \/ pc[w] = "state" /\ kind[w] = "replmod"

\* The steps at which an operation has its number, the cleanup aside.
Numbered ==
    [local   |-> {"wait", "txn", "commit"},
     repladd |-> {"state", "schema", "wait", "txn", "commit"},
     replmod |-> {"wait", "txn", "state", "commit"}]

\* A thread sleeps only inside VmDirWriteQueueWait, and has a number from
\* VmDirWriteQueuePush on.  No number is 0.
StepsOK ==
    /\ nextUsn # 0
    /\ \A w \in Writer :
        /\ sleep[w] # "no" => pc[w] = "wait"
        /\ pc[w] # "pop" => (usn[w] # 0 <=> pc[w] \in Numbered[kind[w]])

\* The queue holds numbers that were given out, in the order they were given.
QueueOK ==
    /\ \A i \in 1..Len(queue) : 0 < queue[i] /\ queue[i] < nextUsn
    /\ \A i, j \in 1..Len(queue) : i < j => queue[i] < queue[j]

\* A number is in the queue as long as its operation runs, and is nobody else's.
NumbersOK ==
    /\ \A w \in Writer : usn[w] # 0 => InQueue(w)
    /\ \A v, w \in Writer : v # w /\ usn[v] # 0 => usn[v] # usn[w]

\* highestCommittedUSN was given out, and is below every write under way.
CommittedOK ==
    /\ maxCommittedUSN < nextUsn
    /\ HighestCommittedIsFinal

QueueInv == TypeOK /\ StepsOK /\ QueueOK /\ NumbersOK /\ CommittedOK

\* Only the head of the queue is past its wait.
HeadOnly == \A w \in Writer : PastWait(w) => AtHead(w)

\* Every committed number was given out and is below every write under way.
DbOK ==
    /\ \A u \in db : u < nextUsn
    /\ \A u \in db, w \in Writer : usn[w] # 0 /\ pc[w] # "pop" => u < usn[w]

\* The partner's high-water mark is 0 or a committed number.
MarkOK == lastUsnProcessed \in db \cup {0}

OrderInv == HeadOnly /\ DbOK /\ MarkOK /\ NoneSkipped

-----------------------------------------------------------------------------
(* The queue *)

\* Where an operation goes next (After): the steps of each kind, and that it has a
\* number after the step exactly when it had one before or the step is "push".
LEMMA AfterSteps ==
    ASSUME NEW k \in Kind
    PROVE  /\ After[k]["idle"] \in Step \ {"pop", "idle"}
           /\ After[k]["idle"] \notin Numbered[k]
           /\ After[k]["push"] \in Step \ {"pop", "idle"}
           /\ After[k]["push"] \in Numbered[k]
           /\ After[k]["wait"] = "txn"
           /\ After[k]["txn"] \in {"commit", "state"}
           /\ \A p \in {"state", "schema", "wait", "txn"} :
                 /\ After[k][p] \in Step \ {"pop", "idle"}
                 /\ After[k][p] \in Numbered[k] <=> p \in Numbered[k]
  <1>1. CASE k = "local"
    BY <1>1 DEF After, Step, Numbered
  <1>2. CASE k = "repladd"
    BY <1>2 DEF After, Step, Numbered
  <1>3. CASE k = "replmod"
    BY <1>3 DEF After, Step, Numbered
  <1> QED
    BY <1>1, <1>2, <1>3 DEF Kind

\* What is left when the i-th element is taken out of the list.
LEMMA WithoutProperties ==
    ASSUME NEW q \in Seq(Nat), NEW i \in 1..Len(q)
    PROVE  /\ Without(q, i) \in Seq(Nat)
           /\ Len(Without(q, i)) = Len(q) - 1
           /\ \A j \in 1..(Len(q) - 1) :
                 Without(q, i)[j] = IF j < i THEN q[j] ELSE q[j + 1]
  <1>1. Len(q) \in Nat /\ Len(q) - 1 \in Nat
    OBVIOUS
  <1>2. \A j \in 1..(Len(q) - 1) : (IF j < i THEN q[j] ELSE q[j + 1]) \in Nat
    OBVIOUS
  <1>3. Without(q, i) \in [1..(Len(q) - 1) -> Nat]
    BY <1>2 DEF Without
  <1>4. Without(q, i) \in Seq(Nat)
    BY <1>1, <1>3, SeqDef
  <1> QED
    BY <1>1, <1>3, <1>4 DEF Without

-----------------------------------------------------------------------------
(* The types and the steps of an operation *)

\* The first start of the server satisfies the invariant of the queue.
LEMMA QueueInit == Init => QueueInv
  <1> SUFFICES ASSUME Init PROVE QueueInv
    OBVIOUS
  <1>1. TypeOK
    <2>1. queue \in Seq(Nat)
      BY EmptySeq DEF Init
    <2> QED
      BY <2>1 DEF Init, TypeOK, Kind, Step
  <1>2. StepsOK
    BY DEF Init, StepsOK, Numbered
  <1>3. QueueOK /\ NumbersOK /\ CommittedOK
    BY DEF Init, QueueOK, NumbersOK, CommittedOK, HighestCommittedIsFinal
  <1> QED
    BY <1>1, <1>2, <1>3 DEF QueueInv

\* VmDirWriteQueuePop takes the number out of the list and wakes sleeping threads
\* only.
LEMMA PopProperties ==
    ASSUME TypeOK, NEW w \in Writer, PopElement(w)
    PROVE  /\ queue' \in Seq(Nat)
           /\ sleep' \in [Writer -> {"no", "asleep", "woken", "timedout"}]
           /\ \A v \in Writer : sleep[v] = "no" => sleep'[v] = "no"
           /\ maxCommittedUSN' \in {maxCommittedUSN, usn[w]}
           /\ maxCommittedUSN' = usn[w] => AtHead(w) \/ maxCommittedUSN = usn[w]
  <1>1. queue' \in Seq(Nat)
    BY WithoutProperties DEF TypeOK, PopElement
  <1>2. /\ sleep' \in [Writer -> {"no", "asleep", "woken", "timedout"}]
        /\ \A v \in Writer : sleep[v] = "no" => sleep'[v] = "no"
    BY DEF TypeOK, PopElement, Signalled
  <1>3. /\ maxCommittedUSN' \in {maxCommittedUSN, usn[w]}
        /\ maxCommittedUSN' = usn[w] => AtHead(w) \/ maxCommittedUSN = usn[w]
    BY DEF PopElement, MaxCommittedAfter
  <1> QED
    BY <1>1, <1>2, <1>3

\* Whatever the places of freed elements read as, the queue is one of numbers.
LEMMA PushedType ==
    ASSUME TypeOK, NEW q \in ReadWhenPushed(nextUsn)
    PROVE  Append(q, nextUsn) \in Seq(Nat)
  <1>1. queue \in Seq(Nat) /\ nextUsn \in Nat
    BY DEF TypeOK
  <1>2. q \in Seq(Nat)
    <2>1. CASE q = queue
      BY <1>1, <2>1
    <2>2. ASSUME NEW i \in Abandoned, q = [queue EXCEPT ![i] = nextUsn]
          PROVE  q \in Seq(Nat)
      <3>1. i \in 1..Len(queue)
        BY DEF Abandoned
      <3>2. [queue EXCEPT ![i] = nextUsn] \in Seq(Nat)
        BY <1>1, <3>1, ExceptSeq
      <3> QED
        BY <2>2, <3>2
    <2> QED
      BY <2>1, <2>2 DEF ReadWhenPushed
  <1> QED
    BY <1>1, <1>2, AppendProperties

\* Every step of a writer keeps the types.
LEMMA WriterType ==
    ASSUME TypeOK, StepsOK, NEW w \in Writer,
           \/ \E k \in Kind, schema \in BOOLEAN : Begin(w, k, schema)
           \/ CheckState(w) \/ TakeSchemaMutex(w) \/ LockQueue(w) \/ Push(w)
           \/ Wait(w) \/ Timeout(w) \/ SpuriousWakeup(w) \/ WaitAgain(w) \/ LeaveWait(w)
           \/ TxnBegin(w) \/ TxnCommit(w) \/ Fail(w) \/ FailUnpopped(w) \/ Pop(w)
    PROVE  TypeOK'
  <1> USE DEF TypeOK, vars, opVars, stateVars, bounds, partnerVars, Goto, Advance, Bail
  <1>a. kind[w] \in Kind /\ {"pop", "idle"} \subseteq Step
    BY DEF Step
  <1>1. CASE \E k \in Kind, schema \in BOOLEAN : Begin(w, k, schema)
    BY <1>1, AfterSteps DEF Begin
  <1>2. CASE CheckState(w)
    <2>1. After[kind[w]][pc[w]] \in Step
      BY <1>2, <1>a, AfterSteps DEF CheckState
    <2> QED
      BY <1>2, <1>a, <2>1 DEF CheckState
  <1>3. CASE TakeSchemaMutex(w)
    <2>1. After[kind[w]][pc[w]] \in Step
      BY <1>3, <1>a, AfterSteps DEF TakeSchemaMutex
    <2> QED
      BY <1>3, <2>1 DEF TakeSchemaMutex
  <1>4. CASE LockQueue(w)
    BY <1>4 DEF LockQueue
  <1>5. CASE Push(w)
    <2>1. After[kind[w]][pc[w]] \in Step
      BY <1>5, <1>a, AfterSteps DEF Push
    <2>2. nextUsn' \in Nat
      BY <1>5 DEF Push
    <2>3. queue' \in Seq(Nat)
      BY <1>5, PushedType DEF Push
    <2> QED
      BY <1>5, <2>1, <2>2, <2>3 DEF Push
  <1>6. CASE Wait(w)
    <2>1. After[kind[w]][pc[w]] \in Step
      BY <1>6, <1>a, AfterSteps DEF Wait
    <2> QED
      BY <1>6, <2>1 DEF Wait
  <1>7. CASE Timeout(w) \/ SpuriousWakeup(w) \/ WaitAgain(w)
    <2>1. CASE Timeout(w)
      BY <2>1 DEF Timeout
    <2>2. CASE SpuriousWakeup(w)
      BY <2>2 DEF SpuriousWakeup
    <2>3. CASE WaitAgain(w)
      BY <2>3 DEF WaitAgain
    <2> QED
      BY <1>7, <2>1, <2>2, <2>3
  <1>8. CASE LeaveWait(w)
    <2>1. After[kind[w]][pc[w]] \in Step
      BY <1>8, <1>a, AfterSteps DEF LeaveWait, StepsOK
    <2> QED
      BY <1>8, <1>a, <2>1 DEF LeaveWait
  <1>9. CASE TxnBegin(w)
    <2>1. After[kind[w]][pc[w]] \in Step
      BY <1>9, <1>a, AfterSteps DEF TxnBegin
    <2> QED
      BY <1>9, <2>1 DEF TxnBegin
  <1>10. CASE TxnCommit(w) \/ Fail(w) \/ FailUnpopped(w)
    <2>1. CASE TxnCommit(w)
      BY <2>1, <1>a DEF TxnCommit
    <2>2. CASE Fail(w)
      BY <2>2, <1>a DEF Fail
    <2>3. CASE FailUnpopped(w)
      BY <2>3, <1>a DEF FailUnpopped
    <2> QED
      BY <1>10, <2>1, <2>2, <2>3
  <1>11. CASE Pop(w)
    <2>1. queue' \in Seq(Nat) /\ maxCommittedUSN' \in Nat
          /\ sleep' \in [Writer -> {"no", "asleep", "woken", "timedout"}]
      <3>1. PopElement(w)
        BY <1>11 DEF Pop
      <3> QED
        BY <3>1, PopProperties
    <2> QED
      BY <1>11, <1>a, <2>1 DEF Pop
  <1> QED
    BY <1>1, <1>2, <1>3, <1>4, <1>5, <1>6, <1>7, <1>8, <1>9, <1>10, <1>11

\* Every step keeps the types.
LEMMA TypeStep == TypeOK /\ StepsOK /\ [Next]_vars => TypeOK'
  <1> SUFFICES ASSUME TypeOK, StepsOK, [Next]_vars PROVE TypeOK'
    OBVIOUS
  <1> USE DEF TypeOK, vars, opVars, stateVars, bounds, partnerVars
  <1>1. CASE SetReadOnly \/ Drained \/ SetNormal
    <2>1. CASE SetReadOnly
      BY <2>1 DEF SetReadOnly
    <2>2. CASE Drained
      BY <2>2 DEF Drained
    <2>3. CASE SetNormal
      BY <2>3 DEF SetNormal
    <2> QED
      BY <1>1, <2>1, <2>2, <2>3
  <1>2. CASE Restart
    <2>1. queue' \in Seq(Nat)
      BY <1>2, EmptySeq DEF Restart
    <2>2. /\ pc' \in [Writer -> Step] /\ usn' \in [Writer -> Nat]
          /\ sleep' \in [Writer -> {"no", "asleep", "woken", "timedout"}]
      BY <1>2 DEF Restart, Step
    <2>3. nextUsn' \in Nat /\ maxCommittedUSN' \in Nat /\ restarts' \in Nat
      BY <1>2 DEF Restart
    <2> QED
      BY <1>2, <2>1, <2>2, <2>3 DEF Restart
  <1>3. CASE \E last \in db : FetchPage(last)
    BY <1>3 DEF FetchPage
  <1>4. CASE UNCHANGED vars
    BY <1>4
  <1> QED
    BY <1>1, <1>2, <1>3, <1>4, WriterType DEF Next

\* Every step keeps an operation and its number in step with each other.
LEMMA StepsStep == TypeOK /\ StepsOK /\ [Next]_vars => StepsOK'
  <1> SUFFICES ASSUME TypeOK, StepsOK, [Next]_vars PROVE StepsOK'
    OBVIOUS
  <1> USE DEF StepsOK, vars, opVars, stateVars, bounds, partnerVars, Goto, Advance, Bail
  <1>a. /\ pc \in [Writer -> Step] /\ kind \in [Writer -> Kind] /\ usn \in [Writer -> Nat]
        /\ nextUsn \in Nat
        /\ sleep \in [Writer -> {"no", "asleep", "woken", "timedout"}]
    BY DEF TypeOK
  <1>b. \A k \in Kind : /\ {"idle", "push"} \cap Numbered[k] = {}
                        /\ {"wait", "txn", "commit"} \subseteq Numbered[k]
    BY DEF Kind, Numbered
  <1>1. ASSUME NEW w \in Writer, NEW k \in Kind, NEW schema \in BOOLEAN, Begin(w, k, schema)
        PROVE  StepsOK'
    <2>1. After[k]["idle"] \notin Numbered[k] /\ usn[w] = 0 /\ sleep[w] = "no"
      BY <1>1, <1>a, <1>b, AfterSteps DEF Begin
    <2> QED
      BY <1>1, <1>a, <2>1 DEF Begin
  <1>2. ASSUME NEW w \in Writer, CheckState(w) \/ TakeSchemaMutex(w)
        PROVE  StepsOK'
    BY <1>2, <1>a, AfterSteps DEF CheckState, TakeSchemaMutex
  <1>3. ASSUME NEW w \in Writer, Push(w)
        PROVE  StepsOK'
    <2>1. After[kind[w]]["push"] \in Numbered[kind[w]] /\ sleep[w] = "no"
      BY <1>3, <1>a, AfterSteps DEF Push
    <2> QED
      BY <1>3, <1>a, <2>1 DEF Push
  <1>4. ASSUME NEW w \in Writer, Wait(w) \/ LeaveWait(w)
        PROVE  StepsOK'
    BY <1>4, <1>a, <1>b, AfterSteps DEF Wait, LeaveWait
  <1>5. ASSUME NEW w \in Writer,
               LockQueue(w) \/ Timeout(w) \/ SpuriousWakeup(w) \/ WaitAgain(w)
        PROVE  StepsOK'
    BY <1>5, <1>a DEF LockQueue, Timeout, SpuriousWakeup, WaitAgain
  <1>6. ASSUME NEW w \in Writer, TxnBegin(w)
        PROVE  StepsOK'
    BY <1>6, <1>a, AfterSteps DEF TxnBegin
  <1>7. ASSUME NEW w \in Writer, TxnCommit(w) \/ Fail(w)
        PROVE  StepsOK'
    BY <1>7, <1>a DEF TxnCommit, Fail
  <1>8. ASSUME NEW w \in Writer, Pop(w)
        PROVE  StepsOK'
    <2>1. /\ sleep' \in [Writer -> {"no", "asleep", "woken", "timedout"}]
          /\ \A v \in Writer : sleep[v] = "no" => sleep'[v] = "no"
      <3>1. PopElement(w)
        BY <1>8 DEF Pop
      <3> QED
        BY <3>1, PopProperties
    <2> QED
      BY <1>8, <1>a, <1>b, <2>1 DEF Pop
  <1>9. CASE Restart
    BY <1>9, <1>a, <1>b DEF Restart
  <1>10. CASE \/ SetReadOnly \/ Drained \/ SetNormal \/ UNCHANGED vars
              \/ \E last \in db : FetchPage(last)
    BY <1>10 DEF SetReadOnly, Drained, SetNormal, FetchPage
  <1>11. ASSUME NEW w \in Writer, FailUnpopped(w)
         PROVE  StepsOK'
    BY <1>11, <1>a, <1>b DEF FailUnpopped
  <1> QED
    BY <1>1, <1>2, <1>3, <1>4, <1>5, <1>6, <1>7, <1>8, <1>9, <1>10, <1>11 DEF Next

\* Every reachable state has the types of TypeOK.
THEOREM TypeCorrect == Spec => []TypeOK
  <1>1. Init => TypeOK /\ StepsOK
    BY QueueInit DEF QueueInv
  <1>2. TypeOK /\ StepsOK /\ [Next]_vars => TypeOK' /\ StepsOK'
    BY TypeStep, StepsStep
  <1> QED
    BY <1>1, <1>2, PTL DEF Spec

-----------------------------------------------------------------------------
(* The order of the queue *)

\* A step that is no VmDirWriteQueuePush, no VmDirWriteQueuePop, no failure between the
\* two and no restart leaves the queue and the numbers alone, and nobody comes back from its cleanup.
LEMMA OtherSteps ==
    ASSUME TypeOK, StepsOK, [Next]_vars, ~Restart,
           \A w \in Writer : ~Push(w) /\ ~Pop(w) /\ ~FailUnpopped(w)
    PROVE  /\ UNCHANGED <<usn, queue, nextUsn, maxCommittedUSN>>
           /\ \A w \in Writer : pc[w] = "pop" => pc'[w] = "pop"
  <1> USE DEF vars, opVars, stateVars, bounds, partnerVars, Goto, Advance, Bail
  <1>a. pc \in [Writer -> Step] /\ \A w \in Writer : sleep[w] # "no" => pc[w] = "wait"
    BY DEF TypeOK, StepsOK
  <1>1. CASE \E w \in Writer :
               \/ \E k \in Kind, schema \in BOOLEAN : Begin(w, k, schema)
               \/ CheckState(w) \/ TakeSchemaMutex(w) \/ LockQueue(w)
    BY <1>1, <1>a DEF Begin, CheckState, TakeSchemaMutex, LockQueue
  <1>2. CASE \E w \in Writer :
               \/ Wait(w) \/ Timeout(w) \/ SpuriousWakeup(w) \/ WaitAgain(w) \/ LeaveWait(w)
    BY <1>2, <1>a DEF Wait, Timeout, SpuriousWakeup, WaitAgain, LeaveWait
  <1>3. CASE \E w \in Writer : TxnBegin(w) \/ TxnCommit(w) \/ Fail(w)
    BY <1>3, <1>a DEF TxnBegin, TxnCommit, Fail
  <1>4. CASE \/ SetReadOnly \/ Drained \/ SetNormal \/ UNCHANGED vars
             \/ \E last \in db : FetchPage(last)
    BY <1>4 DEF SetReadOnly, Drained, SetNormal, FetchPage
  <1> QED
    BY <1>1, <1>2, <1>3, <1>4 DEF Next

\* VmDirWriteQueuePush keeps the order of the queue: the sequence gives a number
\* above all that are in it.
LEMMA PushOrder ==
    ASSUME QueueInv, ~ElementReused, NEW w \in Writer, Push(w)
    PROVE  QueueOK' /\ NumbersOK' /\ CommittedOK'
  <1> USE DEF QueueInv, TypeOK
  <1>1. /\ usn' = [usn EXCEPT ![w] = nextUsn]
        /\ nextUsn' = nextUsn + 1
        /\ queue' = Append(queue, nextUsn)
        /\ maxCommittedUSN' = maxCommittedUSN
        /\ \A v \in Writer : v # w => pc'[v] = pc[v]
    BY DEF Push, ReadWhenPushed, Advance, Goto
  <1>2. /\ Len(queue') = Len(queue) + 1
        /\ \A i \in 1..Len(queue) : queue'[i] = queue[i]
        /\ queue'[Len(queue) + 1] = nextUsn
    BY <1>1, AppendProperties
  <1>3. Len(queue) \in Nat /\ \A i \in 1..Len(queue) : queue[i] \in Nat
    OBVIOUS
  <1>4. QueueOK'
    <2>1. maxCommittedUSN < nextUsn
      BY DEF CommittedOK
    <2>2. \A i \in 1..Len(queue') : 0 < queue'[i] /\ queue'[i] < nextUsn'
      BY <1>1, <1>2, <1>3, <2>1 DEF QueueOK
    <2>3. ASSUME NEW i \in 1..Len(queue'), NEW j \in 1..Len(queue'), i < j
          PROVE  queue'[i] < queue'[j]
      <3>1. i \in 1..Len(queue) /\ queue'[i] = queue[i]
        BY <1>2, <1>3, <2>3
      <3>2. CASE j = Len(queue) + 1
        BY <1>2, <3>1, <3>2 DEF QueueOK
      <3>3. CASE j # Len(queue) + 1
        <4>1. j \in 1..Len(queue) /\ queue'[j] = queue[j]
          BY <1>2, <1>3, <3>3
        <4> QED
          BY <2>3, <3>1, <4>1 DEF QueueOK
      <3> QED
        BY <3>2, <3>3
    <2> QED
      BY <2>2, <2>3 DEF QueueOK
  <1>5. NumbersOK'
    <2>1. \A v \in Writer : usn[v] # 0 => usn[v] < nextUsn
      BY <1>3 DEF NumbersOK, InQueue, QueueOK
    <2>2. ASSUME NEW v \in Writer, usn'[v] # 0 PROVE InQueue(v)'
      <3>1. CASE v = w
        BY <1>1, <1>2, <1>3, <3>1 DEF InQueue
      <3>2. CASE v # w
        <4>1. PICK i \in 1..Len(queue) : queue[i] = usn[v]
          BY <1>1, <2>2, <3>2 DEF NumbersOK, InQueue
        <4>2. i \in 1..Len(queue') /\ queue'[i] = usn'[v]
          BY <1>1, <1>2, <1>3, <3>2, <4>1
        <4> QED
          BY <4>2 DEF InQueue
      <3> QED
        BY <3>1, <3>2
    <2>3. \A u, v \in Writer : u # v /\ usn'[u] # 0 => usn'[u] # usn'[v]
      BY <1>1, <2>1 DEF NumbersOK, CommittedOK
    <2> QED
      BY <2>2, <2>3 DEF NumbersOK
  <1>6. CommittedOK'
    BY <1>1 DEF CommittedOK, HighestCommittedIsFinal
  <1> QED
    BY <1>4, <1>5, <1>6

\* The queue that VmDirWriteQueuePop leaves: the other numbers, in their order.
LEMMA PopQueue ==
    ASSUME QueueInv, NEW w \in Writer, PopElement(w)
    PROVE  \/ usn[w] = 0 /\ queue' = queue
           \/ \E k \in 1..Len(queue) :
                 /\ queue[k] = usn[w]
                 /\ Len(queue') = Len(queue) - 1
                 /\ \A j \in 1..(Len(queue) - 1) :
                       queue'[j] = IF j < k THEN queue[j] ELSE queue[j + 1]
  <1>1. CASE InQueue(w)
    <2>1. PICK k \in 1..Len(queue) : queue[k] = usn[w] /\ queue' = Without(queue, k)
      BY <1>1 DEF PopElement, InQueue, IsFirst
    <2>2. queue \in Seq(Nat)
      BY DEF QueueInv, TypeOK
    <2> QED
      BY <2>1, <2>2, WithoutProperties
  <1>2. CASE ~InQueue(w)
    BY <1>2 DEF PopElement, InQueue, QueueInv, NumbersOK
  <1> QED
    BY <1>1, <1>2

\* VmDirWriteQueuePop, at the head or anywhere else, keeps the order of the queue,
\* and only the head, the smallest number, can raise highestCommittedUSN.
LEMMA PopOrder ==
    ASSUME QueueInv, NEW w \in Writer, Pop(w)
    PROVE  QueueOK' /\ NumbersOK' /\ CommittedOK'
  <1> USE DEF QueueInv, TypeOK
  <1>1. /\ usn' = [usn EXCEPT ![w] = 0]
        /\ nextUsn' = nextUsn
        /\ PopElement(w)
        /\ \A v \in Writer : v # w => pc'[v] = pc[v]
    BY DEF Pop, Goto
  <1>2. Len(queue) \in Nat /\ \A i \in 1..Len(queue) : queue[i] \in Nat
    OBVIOUS
  <1>3. QueueOK' /\ NumbersOK'
    <2>1. CASE usn[w] = 0 /\ queue' = queue
      <3>1. usn' = usn
        BY <1>1, <2>1
      <3> QED
        BY <1>1, <2>1, <3>1 DEF QueueOK, NumbersOK, InQueue
    <2>2. ASSUME NEW k \in 1..Len(queue), queue[k] = usn[w],
                 Len(queue') = Len(queue) - 1,
                 \A j \in 1..(Len(queue) - 1) :
                    queue'[j] = IF j < k THEN queue[j] ELSE queue[j + 1]
          PROVE  QueueOK' /\ NumbersOK'
      <3>1. QueueOK'
        <4>1. ASSUME NEW j \in 1..Len(queue')
              PROVE  0 < queue'[j] /\ queue'[j] < nextUsn'
          <5> DEFINE b == IF j < k THEN j ELSE j + 1
          <5>1. b \in 1..Len(queue) /\ queue'[j] = queue[b]
            BY <1>2, <2>2
          <5> QED
            BY <1>1, <5>1 DEF QueueOK
        <4>2. ASSUME NEW i \in 1..Len(queue'), NEW j \in 1..Len(queue'), i < j
              PROVE  queue'[i] < queue'[j]
          <5> DEFINE a == IF i < k THEN i ELSE i + 1
                     b == IF j < k THEN j ELSE j + 1
          <5>1. a \in 1..Len(queue) /\ b \in 1..Len(queue) /\ a < b
            BY <1>2, <2>2, <4>2
          <5>2. queue'[i] = queue[a] /\ queue'[j] = queue[b]
            BY <1>2, <2>2
          <5> QED
            BY <5>1, <5>2 DEF QueueOK
        <4> QED
          BY <4>1, <4>2 DEF QueueOK
      <3>2. ASSUME NEW v \in Writer, usn'[v] # 0 PROVE InQueue(v)'
        <4>1. v # w /\ usn'[v] = usn[v] /\ usn[v] # usn[w]
          BY <1>1, <3>2 DEF NumbersOK
        <4>2. PICK i \in 1..Len(queue) : queue[i] = usn[v]
          BY <3>2, <4>1 DEF NumbersOK, InQueue
        <4>3. i # k
          BY <2>2, <4>1, <4>2
        <4>4. CASE i < k
          <5>1. i \in 1..(Len(queue) - 1) /\ queue'[i] = queue[i]
            BY <1>2, <2>2, <4>4
          <5> QED
            BY <2>2, <4>1, <4>2, <5>1 DEF InQueue
        <4>5. CASE i > k
          <5>1. i - 1 \in 1..(Len(queue) - 1) /\ queue'[i - 1] = queue[i]
            BY <1>2, <2>2, <4>5
          <5> QED
            BY <2>2, <4>1, <4>2, <5>1 DEF InQueue
        <4> QED
          BY <4>3, <4>4, <4>5
      <3>3. \A u, v \in Writer : u # v /\ usn'[u] # 0 => usn'[u] # usn'[v]
        BY <1>1 DEF NumbersOK
      <3> QED
        BY <3>1, <3>2, <3>3 DEF NumbersOK
    <2> QED
      BY <1>1, <2>1, <2>2, PopQueue
  <1>4. CommittedOK'
    <2>1. CASE maxCommittedUSN' = maxCommittedUSN
      BY <1>1, <2>1 DEF CommittedOK, HighestCommittedIsFinal
    <2>2. CASE maxCommittedUSN' = usn[w] /\ AtHead(w)
      <3>1. usn[w] = queue[1] /\ 1 \in 1..Len(queue)
        BY <1>2, <2>2 DEF AtHead
      <3>2. ASSUME NEW v \in Writer, v # w, usn[v] # 0 PROVE usn[v] > usn[w]
        <4>1. PICK i \in 1..Len(queue) : queue[i] = usn[v]
          BY <3>2 DEF NumbersOK, InQueue
        <4>2. i # 1
          BY <3>1, <3>2, <4>1 DEF NumbersOK
        <4> QED
          BY <1>2, <3>1, <4>1, <4>2 DEF QueueOK
      <3> QED
        BY <1>1, <2>2, <3>1, <3>2 DEF CommittedOK, HighestCommittedIsFinal, QueueOK
    <2> QED
      BY <1>1, <2>1, <2>2, PopProperties
  <1> QED
    BY <1>3, <1>4

\* An element that is left in the queue is nobody's: the order of the queue stays.
LEMMA UnpoppedOrder ==
    ASSUME QueueInv, NEW w \in Writer, FailUnpopped(w)
    PROVE  QueueOK' /\ NumbersOK' /\ CommittedOK'
  <1> USE DEF QueueInv, TypeOK
  <1>1. /\ usn' = [usn EXCEPT ![w] = 0]
        /\ UNCHANGED <<queue, nextUsn, maxCommittedUSN>>
        /\ \A v \in Writer : v # w => pc'[v] = pc[v]
    BY DEF FailUnpopped, Goto
  <1>2. QueueOK' /\ NumbersOK'
    BY <1>1 DEF QueueOK, NumbersOK, InQueue
  <1>3. CommittedOK'
    BY <1>1 DEF CommittedOK, HighestCommittedIsFinal
  <1> QED
    BY <1>2, <1>3

\* Every step keeps the invariant of the queue, when the memory of a freed element
\* does not become that of a later one.
LEMMA QueueStep ==
    ASSUME ~ElementReused
    PROVE  QueueInv /\ [Next]_vars => QueueInv'
  <1> SUFFICES ASSUME QueueInv, [Next]_vars PROVE QueueInv'
    OBVIOUS
  <1>1. TypeOK' /\ StepsOK'
    BY TypeStep, StepsStep DEF QueueInv
  <1>2. QueueOK' /\ NumbersOK' /\ CommittedOK'
    <2>1. CASE Restart
      <3>1. /\ queue' = <<>> /\ usn' = [w \in Writer |-> 0]
            /\ nextUsn' = nextUsn + 1 /\ maxCommittedUSN' = nextUsn
        BY <2>1 DEF Restart
      <3>2. QueueOK' /\ NumbersOK'
        BY <3>1 DEF QueueOK, NumbersOK
      <3>3. CommittedOK'
        BY <3>1 DEF CommittedOK, HighestCommittedIsFinal, QueueInv, TypeOK
      <3> QED
        BY <3>2, <3>3
    <2>2. CASE ~Restart /\ \A w \in Writer : ~Push(w) /\ ~Pop(w) /\ ~FailUnpopped(w)
      <3>1. /\ UNCHANGED <<usn, queue, nextUsn, maxCommittedUSN>>
            /\ \A w \in Writer : pc[w] = "pop" => pc'[w] = "pop"
        BY <2>2, OtherSteps DEF QueueInv
      <3> QED
        BY <3>1 DEF QueueInv, QueueOK, NumbersOK, InQueue, CommittedOK,
           HighestCommittedIsFinal
    <2> QED
      BY <2>1, <2>2, PushOrder, PopOrder, UnpoppedOrder
  <1> QED
    BY <1>1, <1>2 DEF QueueInv

\* highestCommittedUSN, which VmDirUpdateMaxCommittedUSNInLock raises when the head
\* of the queue leaves, is final: no write under way has a number at or below it,
\* whatever wakes up, times out, fails, leaves its element in the queue or restarts.
\* This needs that the freed memory of such an element does not become that of a later
\* operation's element: the later one would then be taken for the head of the queue.
THEOREM CommittedFinal ==
    ASSUME ~ElementReused
    PROVE  Spec => []HighestCommittedIsFinal
  <1>1. QueueInv => HighestCommittedIsFinal
    BY DEF QueueInv, CommittedOK
  <1> QED
    BY <1>1, QueueInit, QueueStep, PTL DEF Spec

-----------------------------------------------------------------------------
(* The order of the commits *)

\* The order is kept by a step that leaves the queue and the numbers alone, lets
\* nobody past its wait but the head of the queue, and commits nothing.
LEMMA OrderKept ==
    ASSUME OrderInv, UNCHANGED <<usn, queue, nextUsn, db, partnerVars>>,
           \A w \in Writer : pc[w] = "pop" => pc'[w] = "pop",
           \A w \in Writer : PastWait(w)' => PastWait(w) \/ AtHead(w)
    PROVE  OrderInv'
  <1>1. \A w \in Writer : AtHead(w) => AtHead(w)'
    BY DEF AtHead
  <1>2. HeadOnly'
    BY <1>1 DEF OrderInv, HeadOnly
  <1> QED
    BY <1>2 DEF OrderInv, DbOK, MarkOK, NoneSkipped, partnerVars

\* A step of an operation before its transaction, in it, or out of it by an error.
LEMMA OrderOtherSteps ==
    ASSUME QueueInv, OrderInv, ~LateSpuriousWakeup, NEW w \in Writer,
           \/ \E k \in Kind, schema \in BOOLEAN : Begin(w, k, schema)
           \/ CheckState(w) \/ TakeSchemaMutex(w) \/ LockQueue(w)
           \/ Wait(w) \/ Timeout(w) \/ SpuriousWakeup(w) \/ WaitAgain(w) \/ LeaveWait(w)
           \/ TxnBegin(w) \/ Fail(w)
    PROVE  OrderInv'
  <1> USE DEF Goto, Advance, Bail, opVars, stateVars, partnerVars, bounds
  <1>a. /\ pc \in [Writer -> Step] /\ kind \in [Writer -> Kind]
        /\ sleep \in [Writer -> {"no", "asleep", "woken", "timedout"}]
        /\ \A v \in Writer : sleep[v] # "no" => pc[v] = "wait"
    BY DEF QueueInv, TypeOK, StepsOK
  <1>b. /\ UNCHANGED <<usn, queue, nextUsn, db, lastUsnProcessed, received>>
        /\ \A v \in Writer : v # w => pc'[v] = pc[v] /\ kind'[v] = kind[v]
    BY <1>a DEF Begin, CheckState, TakeSchemaMutex, LockQueue, Wait, Timeout,
       SpuriousWakeup, WaitAgain, LeaveWait, TxnBegin, Fail
  <1>c. /\ pc[w] = "pop" => pc'[w] = "pop"
        /\ PastWait(w)' => PastWait(w) \/ AtHead(w)
    <2>1. CASE \E k \in Kind, schema \in BOOLEAN : Begin(w, k, schema)
      BY <2>1, <1>a DEF Begin, After, Kind, PastWait
    <2>2. CASE CheckState(w)
      BY <2>2, <1>a DEF CheckState, After, Kind, PastWait
    <2>3. CASE TakeSchemaMutex(w)
      BY <2>3, <1>a DEF TakeSchemaMutex, After, Kind, PastWait
    <2>4. CASE Wait(w) \/ LeaveWait(w)
      BY <2>4, <1>a DEF Wait, LeaveWait, EndsWait, PastWait
    <2>5. CASE TxnBegin(w)
      BY <2>5, <1>a DEF TxnBegin, PastWait
    <2>6. CASE Fail(w)
      BY <2>6, <1>a DEF Fail, PastWait
    <2>7. CASE LockQueue(w) \/ Timeout(w) \/ SpuriousWakeup(w) \/ WaitAgain(w)
      BY <2>7 DEF LockQueue, Timeout, SpuriousWakeup, WaitAgain, PastWait
    <2> QED
      BY <2>1, <2>2, <2>3, <2>4, <2>5, <2>6, <2>7
  <1> QED
    BY <1>b, <1>c, OrderKept DEF PastWait

\* VmDirWriteQueuePush puts a number behind the head and above all committed ones.
LEMMA OrderPush ==
    ASSUME QueueInv, OrderInv, ~ElementReused, NEW w \in Writer, Push(w)
    PROVE  OrderInv'
  <1> USE DEF QueueInv, OrderInv, TypeOK
  <1>1. /\ usn' = [usn EXCEPT ![w] = nextUsn]
        /\ nextUsn' = nextUsn + 1
        /\ queue' = Append(queue, nextUsn)
        /\ UNCHANGED <<kind, db, lastUsnProcessed, received>>
        /\ pc' = [pc EXCEPT ![w] = After[kind[w]]["push"]]
    BY DEF Push, ReadWhenPushed, Advance, Goto, partnerVars
  <1>2. ~PastWait(w)'
    BY <1>1 DEF After, Kind, PastWait
  <1>3. HeadOnly'
    <2> SUFFICES ASSUME NEW v \in Writer, PastWait(v)' PROVE AtHead(v)'
      BY DEF HeadOnly
    <2>1. v # w /\ PastWait(v)
      BY <1>1, <1>2 DEF PastWait
    <2>2. AtHead(v)
      BY <2>1 DEF HeadOnly
    <2> QED
      <3>1. usn'[v] = usn[v]
        BY <1>1, <2>1
      <3>2. queue \in Seq(Nat) /\ queue # << >> /\ nextUsn \in Nat
        BY <2>2 DEF AtHead
      <3>3. Head(Append(queue, nextUsn)) = Head(queue) /\ Append(queue, nextUsn) # << >>
        BY ONLY <3>2, HeadTailAppend, AppendProperties
      <3> QED
        BY <1>1, <2>2, <3>1, <3>3 DEF AtHead
  <1>4. DbOK'
    BY <1>1 DEF DbOK
  <1> QED
    BY <1>1, <1>3, <1>4 DEF MarkOK, NoneSkipped

\* The transaction of the head of the queue commits a number above the committed
\* ones and below those of the writes under way.
LEMMA OrderCommit ==
    ASSUME QueueInv, OrderInv, NEW w \in Writer, TxnCommit(w)
    PROVE  OrderInv'
  <1> USE DEF QueueInv, OrderInv, TypeOK
  <1>1. /\ pc[w] = "commit"
        /\ db' = db \cup {usn[w]}
        /\ pc' = [pc EXCEPT ![w] = "pop"]
        /\ UNCHANGED <<kind, usn, queue, nextUsn, lastUsnProcessed, received>>
    BY DEF TxnCommit, Goto, partnerVars
  <1>2. usn[w] # 0 /\ AtHead(w)
    <2>1. usn[w] # 0
      <3>1. \A k \in Kind : "commit" \in Numbered[k]
        BY DEF Kind, Numbered
      <3> QED
        BY <1>1, <3>1 DEF StepsOK
    <2> QED
      BY <1>1, <2>1 DEF HeadOnly, PastWait
  <1>3. usn[w] = queue[1] /\ 1 \in 1..Len(queue)
    BY <1>2 DEF AtHead
  <1>4. ASSUME NEW v \in Writer, v # w, usn[v] # 0 PROVE usn[w] < usn[v]
    <2>1. PICK i \in 1..Len(queue) : queue[i] = usn[v]
      BY <1>4 DEF NumbersOK, InQueue
    <2>2. i # 1
      BY <1>3, <1>4, <2>1 DEF NumbersOK
    <2> QED
      BY <1>3, <2>1, <2>2 DEF QueueOK
  <1>5. \A u \in db : u < usn[w]
    BY <1>1, <1>2 DEF DbOK
  <1>6. HeadOnly'
    BY <1>1 DEF HeadOnly, PastWait, AtHead
  <1>7. DbOK'
    <2>1. \A u \in db' : u < nextUsn'
      BY <1>1, <1>3 DEF DbOK, QueueOK
    <2>2. \A u \in db', v \in Writer : usn'[v] # 0 /\ pc'[v] # "pop" => u < usn'[v]
      BY <1>1, <1>4 DEF DbOK
    <2> QED
      BY <2>1, <2>2 DEF DbOK
  <1>8. lastUsnProcessed < usn[w]
    BY <1>2, <1>5 DEF MarkOK
  <1> QED
    BY <1>1, <1>6, <1>7, <1>8 DEF MarkOK, NoneSkipped

\* VmDirWriteQueuePop leaves the head where it is, unless it is the head that goes.
LEMMA OrderPop ==
    ASSUME QueueInv, OrderInv, NEW w \in Writer, Pop(w)
    PROVE  OrderInv'
  <1> USE DEF QueueInv, OrderInv, TypeOK
  <1>1. /\ pc[w] = "pop"
        /\ usn' = [usn EXCEPT ![w] = 0]
        /\ pc' = [pc EXCEPT ![w] = "idle"]
        /\ PopElement(w)
        /\ UNCHANGED <<kind, nextUsn, db, lastUsnProcessed, received>>
    BY DEF Pop, Goto, partnerVars
  <1>2. HeadOnly'
    <2> SUFFICES ASSUME NEW v \in Writer, PastWait(v)' PROVE AtHead(v)'
      BY DEF HeadOnly
    <2>1. v # w /\ PastWait(v) /\ usn'[v] = usn[v]
      BY <1>1 DEF PastWait
    <2>2. AtHead(v)
      BY <2>1 DEF HeadOnly
    <2>3. usn[v] = queue[1] /\ 1 \in 1..Len(queue) /\ usn[v] # 0
      BY <2>2 DEF AtHead, QueueOK
    <2>4. CASE queue' = queue
      BY <2>1, <2>2, <2>4 DEF AtHead
    <2>5. ASSUME NEW k \in 1..Len(queue), queue[k] = usn[w],
                 Len(queue') = Len(queue) - 1,
                 \A j \in 1..(Len(queue) - 1) :
                    queue'[j] = IF j < k THEN queue[j] ELSE queue[j + 1]
          PROVE  AtHead(v)'
      <3>1. k # 1
        BY <2>1, <2>3, <2>5 DEF NumbersOK
      <3>2. Len(queue') >= 1 /\ queue'[1] = queue[1]
        BY <2>5, <3>1
      <3>3. queue' \in Seq(Nat)
        BY <1>1, PopProperties
      <3> QED
        BY <2>1, <2>3, <3>2, <3>3 DEF AtHead
    <2> QED
      BY <1>1, <2>4, <2>5, PopQueue
  <1>3. DbOK'
    BY <1>1 DEF DbOK
  <1> QED
    BY <1>1, <1>2, <1>3 DEF MarkOK, NoneSkipped

\* An operation that leaves its element in the queue has not had its turn yet.
LEMMA OrderUnpopped ==
    ASSUME QueueInv, OrderInv, NEW w \in Writer, FailUnpopped(w)
    PROVE  OrderInv'
  <1> USE DEF QueueInv, OrderInv, TypeOK
  <1>1. /\ pc' = [pc EXCEPT ![w] = "idle"]
        /\ usn' = [usn EXCEPT ![w] = 0]
        /\ UNCHANGED <<kind, queue, nextUsn, db, lastUsnProcessed, received>>
    BY DEF FailUnpopped, Goto, partnerVars
  <1>2. HeadOnly'
    BY <1>1 DEF HeadOnly, PastWait, AtHead
  <1>3. DbOK'
    BY <1>1 DEF DbOK
  <1> QED
    BY <1>1, <1>2, <1>3 DEF MarkOK, NoneSkipped

\* A page moves the partner's mark to a committed number, with all below it.
LEMMA OrderFetch ==
    ASSUME QueueInv, OrderInv, NEW last \in db, FetchPage(last)
    PROVE  OrderInv'
  <1>1. HeadOnly' /\ DbOK'
    BY DEF OrderInv, FetchPage, HeadOnly, PastWait, AtHead, DbOK, opVars
  <1>2. MarkOK'
    BY DEF FetchPage, MarkOK
  <1>3. NoneSkipped'
    BY DEF OrderInv, FetchPage, NoneSkipped, QueueInv, TypeOK
  <1> QED
    BY <1>1, <1>2, <1>3 DEF OrderInv

\* Every step keeps the order of the commits, when no spurious wake-up falls on the
\* end of the write timeout and no freed memory becomes that of a later element.
LEMMA OrderStep ==
    ASSUME ~LateSpuriousWakeup, ~ElementReused
    PROVE  QueueInv /\ OrderInv /\ [Next]_vars => OrderInv'
  <1> SUFFICES ASSUME QueueInv, OrderInv, [Next]_vars PROVE OrderInv'
    OBVIOUS
  <1>1. CASE Restart
    <2>1. HeadOnly'
      BY <1>1 DEF Restart, HeadOnly, PastWait
    <2>2. DbOK'
      BY <1>1 DEF Restart, OrderInv, DbOK, QueueInv, TypeOK
    <2> QED
      BY <1>1, <2>1, <2>2 DEF Restart, OrderInv, MarkOK, NoneSkipped, partnerVars
  <1>2. CASE SetReadOnly \/ Drained \/ SetNormal \/ UNCHANGED vars
    <2>1. UNCHANGED <<pc, kind, usn, queue, nextUsn, db, lastUsnProcessed, received>>
      BY <1>2 DEF SetReadOnly, Drained, SetNormal, vars, opVars, partnerVars
    <2> QED
      BY <2>1, OrderKept DEF PastWait, partnerVars
  <1> QED
    BY <1>1, <1>2, OrderOtherSteps, OrderPush, OrderCommit, OrderUnpopped, OrderPop,
       OrderFetch DEF Next

\* No committed change is lost to a replication partner: the numbers are committed
\* in the order they were given out (VmDirWriteQueueWait), so the partner's
\* high-water mark never passes one that is still to come.  This needs that no
\* spurious wake-up falls on the end of the write timeout, nor the memory of an element
\* freed in the queue to a later one: VmDirWriteQueueWait would then let a thread
\* through that is not at the head.
THEOREM NothingSkipped ==
    ASSUME ~LateSpuriousWakeup, ~ElementReused
    PROVE  Spec => []NoneSkipped
  <1>1. Init => OrderInv
    BY DEF Init, OrderInv, HeadOnly, PastWait, DbOK, MarkOK, NoneSkipped
  <1>2. OrderInv => NoneSkipped
    BY DEF OrderInv
  <1>3. QueueInv /\ OrderInv /\ [Next]_vars => QueueInv' /\ OrderInv'
    BY QueueStep, OrderStep
  <1> QED
    BY <1>1, <1>2, <1>3, QueueInit, PTL DEF Spec

=============================================================================
