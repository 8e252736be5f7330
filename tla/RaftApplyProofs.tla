--------------------------- MODULE RaftApplyProofs ---------------------------
(***************************************************************************)
(* Proofs about RaftApply: the types, whatever the threads do and the disk *)
(* refuses, and, when the apply thread is not overtaken by a change of     *)
(* role and the disk has room, that the database is what the committed     *)
(* logs make, that lastApplied tells the truth and that assert(0) never    *)
(* meets a log that does not fit.                                          *)
(***************************************************************************)
EXTENDS RaftApply, SequenceTheorems, WellFoundedInduction, TLAPS

\* A thread in the loop around _VmDirApplyLog.
InLoop(t) == thread[t].step \in {"check", "txn", "failed", "set"}

\* lastApplied, ATTR_RAFT_LAST_APPLIED, indexToApply and the entries of the database
\* come from committed logs.
BoundsOK ==
    /\ lastApplied <= decided
    /\ dbApplied <= decided
    /\ indexToApply <= decided
    /\ \A e \in Entry : db[e] <= decided

\* The loop of a thread is over committed logs only; the vote thread has its no-op
\* log behind them until it is committed, and no update is allowed meanwhile.
ThreadsOK ==
    /\ InLoop("apply") \/ thread["apply"].step \in {"wait", "woken", "start"}
    /\ InLoop("vote") \/ thread["vote"].step \in {"wait", "consensus"}
    /\ \A t \in Thread : InLoop(t) =>
          1 <= thread[t].idx /\ thread[t].idx <= thread[t].last /\ thread[t].last <= decided
    /\ thread["apply"].step = "start" => thread["apply"].last <= decided
    /\ thread["vote"].step = "consensus" =>
          1 <= thread["vote"].idx /\ thread["vote"].last < Len(log)
    /\ thread["vote"].step # "wait" => disallowUpdates

\* Who keeps the write transaction of the main database.
MainTxnOK ==
    /\ mainTxn = "vote" <=> thread["vote"].step = "consensus"
    /\ mainTxn = "client" <=> client.step # "idle"
    /\ thread["vote"].step # "wait" => client.step = "idle"

\* The write of a client is the last log as long as the server is the leader, and
\* when it has consensus nothing else is decided or applied before it is committed.
ClientOK ==
    /\ (client.step = "consensus" /\ role = "leader") \/ client.step = "commit" =>
          client.idx = Len(log) /\ log[client.idx] \in Write
    /\ client.step = "commit" =>
          role = "leader" /\ decided = Len(log) /\ lastApplied = Len(log)

StructInv == TypeOK /\ BoundsOK /\ ThreadsOK /\ MainTxnOK /\ ClientOK

\* Every log fits the database that the logs before it make.
LogFits == \A i \in 1..Len(log) : Fits(log[i], Content(log, i - 1))

\* The apply thread is at rest while the vote thread works and while the server is
\* the leader.
OneApplies ==
    thread["vote"].step # "wait" \/ role = "leader" => thread["apply"].step = "wait"

\* A thread has no log to skip, and one that works on a log works on the next one.
NoneAhead ==
    /\ InLoop("apply") /\ role = "follower" => thread["apply"].idx <= lastApplied + 1
    /\ thread["vote"].step # "wait" => thread["vote"].idx <= lastApplied + 1
    /\ \A t \in Thread :
          thread[t].step \in {"txn", "failed", "set"} => thread[t].idx = lastApplied + 1

\* The database is behind lastApplied by no-op logs, or ahead of it by the log that a
\* thread has just applied.
DatabaseOK ==
    /\ db = Content(log, dbApplied)
    /\ InDatabase(IF client.step = "commit" THEN lastApplied - 1 ELSE lastApplied)
    /\ \/ dbApplied <= lastApplied
       \/ \E t \in Thread : thread[t].step = "set" /\ dbApplied = thread[t].idx
    /\ \A t \in Thread : thread[t].step = "set" => InDatabase(thread[t].idx)
    /\ client.step = "commit" => dbApplied < lastApplied

\* A leader has applied all its logs but the write of a client, or the vote thread
\* is about to.
LeaderOK ==
    role = "leader" =>
      /\ thread["vote"].step # "wait" =>
            /\ thread["vote"].last = Len(log) - 1
            /\ log[Len(log)] = Noop
      /\ thread["vote"].step = "wait" /\ client.step = "idle" => InDatabase(Len(log))
      /\ client.step = "consensus" => dbApplied < Len(log) /\ InDatabase(Len(log) - 1)

DataInv == LogFits /\ OneApplies /\ NoneAhead /\ DatabaseOK /\ LeaderOK /\ NoAssert
-----------------------------------------------------------------------------
(* The operators *)

\* What a thread of _VmDirApplyLog is made of.
ThreadRec == [step : Step, idx : Nat, last : Nat]

LogRec == Write \cup {Noop}

\* The records that threads are set to.
LEMMA ThreadRecords ==
    /\ NotApplying \in ThreadRec
    /\ \A st \in Step, i \in Nat, n \in Nat : [step |-> st, idx |-> i, last |-> n] \in ThreadRec
    /\ "apply" \in Thread /\ "vote" \in Thread /\ "apply" # "vote"
  BY DEF NotApplying, ThreadRec, Step, Thread

\* A thread goes to another step with the same log and the same end of its loop.
LEMMA GotoStepProperties ==
    ASSUME thread \in [Thread -> ThreadRec], NEW t \in Thread, NEW st \in Step,
           GotoStep(t, st)
    PROVE  /\ thread' \in [Thread -> ThreadRec]
           /\ thread'[t].step = st
           /\ thread'[t].idx = thread[t].idx
           /\ thread'[t].last = thread[t].last
           /\ \A u \in Thread : u # t => thread'[u] = thread[u]
  BY DEF GotoStep, ThreadRec

\* The loop around _VmDirApplyLog goes on to log i or is over.
LEMMA GoOnProperties ==
    ASSUME thread \in [Thread -> ThreadRec], NEW t \in Thread,
           NEW i \in Nat, NEW last \in Nat, GoOn(t, i, last)
    PROVE  /\ thread' \in [Thread -> ThreadRec]
           /\ \A u \in Thread : u # t => thread'[u] = thread[u]
           /\ i <= last =>
                 /\ thread'[t].step = "check"
                 /\ thread'[t].idx = i
                 /\ thread'[t].last = last
                 /\ disallowUpdates' = disallowUpdates
           /\ ~(i <= last) =>
                 /\ thread'[t].step = "wait"
                 /\ disallowUpdates' = AfterLoop(t)
  <1>1. CASE i <= last
    <2>1. [step |-> "check", idx |-> i, last |-> last] \in ThreadRec
      BY DEF ThreadRec, Step
    <2> QED
      BY <1>1, <2>1 DEF GoOn
  <1>2. CASE ~(i <= last)
    <2>1. NotApplying \in ThreadRec /\ NotApplying.step = "wait"
      BY ThreadRecords DEF NotApplying
    <2> QED
      BY <1>2, <2>1 DEF GoOn
  <1> QED
    BY <1>1, <1>2

\* A log is added to the end of the log.
LEMMA LogGrows ==
    ASSUME log \in Seq(LogRec), NEW x \in LogRec, log' = Append(log, x)
    PROVE  /\ log' \in Seq(LogRec)
           /\ Len(log) \in Nat
           /\ Len(log') = Len(log) + 1
           /\ \A i \in 1..Len(log) : log'[i] = log[i]
           /\ log'[Len(log')] = x
  BY AppendProperties

\* A handler keeps the first logs and takes over those of the call.
LEMMA LogReplaced ==
    ASSUME log \in Seq(LogRec), NEW pre \in 1..Len(log), NEW entries \in Seq(LogRec),
           log' = SubSeq(log, 1, pre) \o entries
    PROVE  /\ log' \in Seq(LogRec)
           /\ Len(log') = pre + Len(entries)
           /\ \A i \in 1..pre : log'[i] = log[i]
           /\ \A i \in 1..Len(entries) : log'[pre + i] = entries[i]
  <1>1. /\ SubSeq(log, 1, pre) \in Seq(LogRec)
        /\ Len(SubSeq(log, 1, pre)) = pre
        /\ \A i \in 1..pre : SubSeq(log, 1, pre)[i] = log[i]
    <2>1. \A i \in 1..pre : log[i] \in LogRec
      BY ElementOfSeq
    <2> QED
      BY <2>1, SubSeqProperties
  <1> QED
    BY <1>1, ConcatProperties

-----------------------------------------------------------------------------
(* The structure *)

\* A server that has been set up satisfies the structural invariant.
LEMMA StructInit == Init => StructInv
  <1> SUFFICES ASSUME Init PROVE StructInv
    OBVIOUS
  <1>1. log \in Seq(LogRec) /\ Len(log) = 1
    BY DEF Init, LogRec
  <1>2. thread \in [Thread -> ThreadRec]
    BY ThreadRecords DEF Init
  <1>3. TypeOK
    <2>1. client \in [step : {"idle", "consensus", "commit"}, idx : Nat]
      BY DEF Init, NoClient
    <2>2. db \in [Entry -> 0..Len(log)]
      BY <1>1 DEF Init
    <2>3. /\ indexToApply \in 0..Len(log) /\ lastApplied \in 1..Len(log)
          /\ decided \in 1..Len(log) /\ dbApplied \in 1..Len(log)
      BY <1>1 DEF Init
    <2>4. /\ role \in {"follower", "candidate", "leader"}
          /\ mainTxn \in {"none", "vote", "client"}
          /\ disallowUpdates \in BOOLEAN /\ asserts \in BOOLEAN
          /\ elections \in Nat /\ restarts \in Nat
      BY DEF Init
    <2> QED
      BY <1>1, <1>2, <2>1, <2>2, <2>3, <2>4 DEF TypeOK, LogRec, ThreadRec
  <1>4. BoundsOK /\ ThreadsOK /\ MainTxnOK /\ ClientOK
    BY <1>1, ThreadRecords DEF Init, BoundsOK, ThreadsOK, InLoop, MainTxnOK, ClientOK, NotApplying, NoClient
  <1> QED
    BY <1>3, <1>4 DEF StructInv

\* A step of thread t inside its loop: to another step or another log of the loop, or
\* to its end.
LoopMoves(t) ==
    /\ InLoop(t)
    /\ thread' \in [Thread -> ThreadRec]
    /\ \A u \in Thread : u # t => thread'[u] = thread[u]
    /\ \/ /\ InLoop(t)'
          /\ thread'[t].idx \in {thread[t].idx, thread[t].idx + 1}
          /\ thread'[t].idx <= thread'[t].last
          /\ thread'[t].last = thread[t].last
          /\ disallowUpdates' = disallowUpdates
       \/ thread'[t].step = "wait" /\ disallowUpdates' = AfterLoop(t)

\* Both ways a thread moves are moves inside its loop.
LEMMA NextLogMoves ==
    ASSUME StructInv, NEW t \in Thread, InLoop(t), NextLog(t)
    PROVE  /\ LoopMoves(t)
           /\ thread'[t].step \in {"wait", "check"}
           /\ thread'[t].step = "check" => thread'[t].idx = thread[t].idx + 1
           /\ thread'[t].step = "wait" => thread[t].idx >= thread[t].last
  <1>1. thread \in [Thread -> ThreadRec]
    BY DEF StructInv, TypeOK, ThreadRec
  <1>2. thread[t].idx \in Nat /\ thread[t].last \in Nat /\ thread[t].idx + 1 \in Nat
    BY <1>1 DEF ThreadRec
  <1> QED
    BY <1>1, <1>2, GoOnProperties DEF NextLog, LoopMoves, InLoop

LEMMA GotoStepMoves ==
    ASSUME StructInv, NEW t \in Thread, InLoop(t), UNCHANGED disallowUpdates,
           NEW st \in {"txn", "failed", "set"}, GotoStep(t, st)
    PROVE  LoopMoves(t) /\ thread'[t].step = st /\ thread'[t].idx = thread[t].idx
  <1>1. thread \in [Thread -> ThreadRec]
    BY DEF StructInv, TypeOK, ThreadRec
  <1>2. thread[t].idx \in Nat /\ thread[t].idx <= thread[t].last
    BY <1>1 DEF ThreadRec, StructInv, ThreadsOK
  <1> QED
    BY <1>1, <1>2, GotoStepProperties DEF LoopMoves, InLoop, Step

\* A move inside a loop keeps the threads and the transaction in order.
LEMMA LoopStep ==
    ASSUME StructInv, NEW t \in Thread, LoopMoves(t),
           UNCHANGED <<log, decided, mainTxn, client>>
    PROVE  ThreadsOK' /\ MainTxnOK' /\ disallowUpdates' \in BOOLEAN
  <1>a. thread[t].idx \in Nat /\ thread[t].last \in Nat /\ decided \in Nat
    BY DEF StructInv, TypeOK
  <1>b. ThreadsOK /\ MainTxnOK /\ disallowUpdates \in BOOLEAN
    BY DEF StructInv, TypeOK
  <1>1. CASE t = "apply"
    <2>1. "apply" \in Thread /\ "vote" \in Thread /\ thread'["vote"] = thread["vote"]
      BY <1>1, ThreadRecords DEF LoopMoves
    <2>2. disallowUpdates' = disallowUpdates
      BY <1>1 DEF LoopMoves, AfterLoop
    <2>3. ThreadsOK'
      BY <1>1, <1>a, <1>b, <2>1, <2>2 DEF ThreadsOK, LoopMoves, InLoop, Thread
    <2> QED
      BY <1>b, <2>1, <2>2, <2>3 DEF MainTxnOK
  <1>2. CASE t = "vote"
    <2>1. "apply" \in Thread /\ "vote" \in Thread /\ thread'["apply"] = thread["apply"]
      BY <1>2, ThreadRecords DEF LoopMoves
    <2>2. disallowUpdates' \in BOOLEAN
      BY <1>b, <1>2 DEF LoopMoves, AfterLoop
    <2>3. ThreadsOK'
      BY <1>2, <1>a, <1>b, <2>1, <2>2 DEF ThreadsOK, LoopMoves, InLoop, Thread
    <2> QED
      BY <1>b, <1>2, <2>1, <2>2, <2>3 DEF MainTxnOK, LoopMoves, InLoop
  <1> QED
    BY <1>1, <1>2 DEF Thread

\* CheckLog, ApplyFails: a thread takes a log up, leaves it out or fails.
LEMMA StructCheck ==
    ASSUME StructInv, NEW t \in Thread, CheckLog(t) \/ ApplyFails(t)
    PROVE  StructInv'
  <1>1. /\ UNCHANGED <<role, indexToApply, lastApplied, log, decided, db, dbApplied,
                       mainTxn, client, asserts, elections, restarts>>
        /\ InLoop(t)
    BY DEF CheckLog, ApplyFails, InLoop, dbVars, raftVars, bounds
  <1>2. LoopMoves(t)
    BY <1>1, NextLogMoves, GotoStepMoves DEF CheckLog, ApplyFails, raftVars
  <1>3. ThreadsOK' /\ MainTxnOK' /\ disallowUpdates' \in BOOLEAN
    BY <1>1, <1>2, LoopStep
  <1>4. TypeOK' /\ BoundsOK' /\ ClientOK'
    BY <1>1, <1>2, <1>3 DEF StructInv, TypeOK, BoundsOK, ClientOK, LoopMoves, ThreadRec
  <1> QED
    BY <1>3, <1>4 DEF StructInv

\* A database written by log i of n has entries of n logs.
LEMMA WrittenType ==
    ASSUME NEW n \in Nat, NEW m \in 0..n, NEW i \in 0..m, NEW x,
           NEW d \in [Entry -> 0..n], \A e \in Entry : d[e] <= m
    PROVE  /\ Written(d, x, i) \in [Entry -> 0..n]
           /\ \A e \in Entry : Written(d, x, i)[e] <= m
  <1> DEFINE v == IF x.op = "delete" THEN 0 ELSE i
  <1>1. v \in 0..n /\ v <= m
    OBVIOUS
  <1>2. Written(d, x, i) = [d EXCEPT ![x.entry] = v]
    BY DEF Written
  <1> HIDE DEF v
  <1>3. \A e \in Entry : [d EXCEPT ![x.entry] = v][e] \in {d[e], v}
    OBVIOUS
  <1> QED
    BY <1>1, <1>2, <1>3

\* _VmDirApplyOneLogEntry and its commit
LEMMA StructApply ==
    ASSUME StructInv, NEW t \in Thread, ApplyOneLogEntry(t)
    PROVE  StructInv'
  <1>1. /\ UNCHANGED <<role, indexToApply, lastApplied, disallowUpdates, log, decided,
                       mainTxn, client, asserts, elections, restarts>>
        /\ InLoop(t)
    BY DEF ApplyOneLogEntry, InLoop, raftVars, bounds
  <1>2. LoopMoves(t)
    BY <1>1, GotoStepMoves DEF ApplyOneLogEntry
  <1>3. ThreadsOK' /\ MainTxnOK'
    BY <1>1, <1>2, LoopStep
  <1>4. /\ thread[t].idx \in Nat /\ 1 <= thread[t].idx /\ thread[t].idx <= decided
        /\ decided \in 1..Len(log)
    BY <1>1 DEF StructInv, TypeOK, ThreadsOK
  <1>5. /\ dbApplied' \in 1..Len(log) /\ dbApplied' <= decided
        /\ db' \in [Entry -> 0..Len(log)]
        /\ \A e \in Entry : db'[e] <= decided
    <2>a. /\ db \in [Entry -> 0..Len(log)] /\ dbApplied \in 1..Len(log)
          /\ dbApplied <= decided /\ \A e \in Entry : db[e] <= decided
      BY DEF StructInv, TypeOK, BoundsOK
    <2>1. CASE UNCHANGED dbVars
      BY <2>1, <2>a DEF dbVars
    <2>2. CASE /\ db' = Written(db, log[thread[t].idx], thread[t].idx)
               /\ dbApplied' = AppliedOnDisk(thread[t].idx)
      BY <1>4, <2>2, <2>a, WrittenType DEF AppliedOnDisk
    <2> QED
      BY <2>1, <2>2 DEF ApplyOneLogEntry
  <1>6. TypeOK' /\ BoundsOK' /\ ClientOK'
    BY <1>1, <1>2, <1>5 DEF StructInv, TypeOK, BoundsOK, ClientOK, LoopMoves, ThreadRec
  <1> QED
    BY <1>3, <1>6 DEF StructInv

\* A crash, and the start after it
LEMMA StructReload ==
    ASSUME StructInv, Reload, asserts' \in BOOLEAN
    PROVE  StructInv'
  <1> USE DEF StructInv, Reload, dbVars
  <1>1. thread' \in [Thread -> ThreadRec] /\ \A t \in Thread : thread'[t].step = "wait"
    BY ThreadRecords DEF NotApplying
  <1>2. /\ client' \in [step : {"idle", "consensus", "commit"}, idx : Nat]
        /\ client'.step = "idle"
    BY DEF NoClient
  <1>3. TypeOK' /\ BoundsOK'
    <2>1. restarts' \in Nat
      BY DEF TypeOK
    <2>2. /\ role' \in {"follower", "candidate", "leader"} /\ disallowUpdates' \in BOOLEAN
          /\ mainTxn' \in {"none", "vote", "client"}
      OBVIOUS
    <2> QED
      BY <1>1, <1>2, <2>1, <2>2 DEF TypeOK, BoundsOK, ThreadRec
  <1>4. ThreadsOK' /\ MainTxnOK' /\ ClientOK'
    BY <1>1, <1>2, ThreadRecords DEF ThreadsOK, InLoop, MainTxnOK, ClientOK
  <1> QED
    BY <1>3, <1>4

\* SetLastApplied, and the error path of _VmDirApplyLog
LEMMA StructSet ==
    ASSUME StructInv, NEW t \in Thread, SetLastApplied(t) \/ LogFailed(t)
    PROVE  StructInv'
  <1>1. CASE LogFailed(t) /\ ~(thread[t].idx <= lastApplied)
    <2>1. Reload /\ asserts' \in BOOLEAN
      BY <1>1 DEF LogFailed
    <2> QED
      BY <2>1, StructReload
  <1>2. CASE SetLastApplied(t) \/ (LogFailed(t) /\ thread[t].idx <= lastApplied)
    <2>1. /\ UNCHANGED <<role, indexToApply, log, decided, db, dbApplied,
                         mainTxn, client, asserts, elections, restarts>>
          /\ InLoop(t)
          /\ NextLog(t)
          /\ lastApplied' \in {lastApplied, thread[t].idx}
          /\ lastApplied' # lastApplied => client.step # "commit"
      BY <1>2 DEF SetLastApplied, LogFailed, InLoop, dbVars, bounds, StateMutexFree
    <2>2. LoopMoves(t)
      BY <2>1, NextLogMoves
    <2>3. ThreadsOK' /\ MainTxnOK' /\ disallowUpdates' \in BOOLEAN
      BY <2>1, <2>2, LoopStep
    <2>4. lastApplied' \in 1..Len(log) /\ lastApplied' <= decided
      BY <2>1 DEF StructInv, TypeOK, BoundsOK, ThreadsOK
    <2>5. TypeOK' /\ BoundsOK' /\ ClientOK'
      BY <2>1, <2>2, <2>3, <2>4
      DEF StructInv, TypeOK, BoundsOK, ClientOK, LoopMoves, ThreadRec
    <2> QED
      BY <2>3, <2>5 DEF StructInv
  <1> QED
    BY <1>1, <1>2

\* Wake, Start: the apply thread takes up the logs to apply.
LEMMA StructWake ==
    ASSUME StructInv, Wake \/ Start
    PROVE  StructInv'
  <1>a. /\ thread \in [Thread -> ThreadRec] /\ "apply" \in Thread /\ "vote" \in Thread
        /\ "apply" # "vote"
        /\ lastApplied \in 1..Len(log) /\ indexToApply \in 0..Len(log) /\ Len(log) \in Nat
        /\ indexToApply <= decided /\ decided \in Nat
    BY ThreadRecords DEF StructInv, TypeOK, BoundsOK, ThreadRec
  <1>b. thread["apply"].last \in Nat
    BY <1>a DEF ThreadRec
  <1>1. /\ UNCHANGED <<role, indexToApply, lastApplied, disallowUpdates, log, decided, db,
                       dbApplied, mainTxn, client, asserts, elections, restarts>>
        /\ thread' \in [Thread -> ThreadRec]
        /\ thread'["vote"] = thread["vote"]
        /\ \/ thread'["apply"].step = "wait"
           \/ thread'["apply"].step = "start" /\ thread'["apply"].last <= decided
           \/ /\ thread'["apply"].step = "check" /\ 1 <= thread'["apply"].idx
              /\ thread'["apply"].idx <= thread'["apply"].last
              /\ thread'["apply"].last <= decided
    <2>1. CASE Wake
      <3>1. /\ [step |-> "start", idx |-> 0, last |-> indexToApply] \in ThreadRec
            /\ NotApplying \in ThreadRec
        BY <1>a, ThreadRecords DEF ThreadRec, Step
      <3> QED
        BY <2>1, <3>1, <1>a DEF Wake, NotApplying, raftVars, dbVars, bounds
    <2>2. CASE Start
      <3>1. /\ thread["apply"].step = "start"
            /\ GoOn("apply", lastApplied + 1, thread["apply"].last)
            /\ UNCHANGED <<role, indexToApply, lastApplied, log, decided, db,
                       dbApplied, mainTxn, client, asserts, elections, restarts>>
        BY <2>2 DEF Start, dbVars, bounds
      <3>2. thread["apply"].last <= decided /\ lastApplied + 1 \in Nat
        BY <1>a, <3>1 DEF StructInv, ThreadsOK
      <3>3. AfterLoop("apply") = disallowUpdates
        BY DEF AfterLoop
      <3>4. /\ thread' \in [Thread -> ThreadRec]
            /\ thread'["vote"] = thread["vote"]
            /\ disallowUpdates' = disallowUpdates
            /\ \/ thread'["apply"].step = "wait"
               \/ /\ thread'["apply"].step = "check"
                  /\ thread'["apply"].idx = lastApplied + 1
                  /\ thread'["apply"].idx <= thread'["apply"].last
                  /\ thread'["apply"].last = thread["apply"].last
        BY <1>a, <1>b, <3>1, <3>2, <3>3, GoOnProperties
      <3> QED
        BY <1>a, <3>1, <3>2, <3>4
    <2> QED
      BY <2>1, <2>2
  <1>2. TypeOK' /\ BoundsOK' /\ MainTxnOK' /\ ClientOK'
    BY <1>1 DEF StructInv, TypeOK, BoundsOK, MainTxnOK, ClientOK, ThreadRec
  <1>3. ThreadsOK'
    BY <1>a, <1>1 DEF StructInv, ThreadsOK, InLoop, Thread
  <1> QED
    BY <1>2, <1>3 DEF StructInv

\* ElectionTimeout, StepDown: the role of the server changes, and nothing else.
LEMMA StructRole ==
    ASSUME StructInv, ElectionTimeout \/ StepDown
    PROVE  StructInv'
  <1>1. /\ UNCHANGED <<indexToApply, lastApplied, disallowUpdates, log, decided, db, dbApplied,
                       mainTxn, thread, client, asserts, restarts>>
        /\ role' \in {"follower", "candidate"}
        /\ elections' \in Nat
        /\ client.step # "commit"
    BY DEF ElectionTimeout, StepDown, StructInv, TypeOK, dbVars, bounds, StateMutexFree
  <1> QED
    BY <1>1 DEF StructInv, TypeOK, BoundsOK, ThreadsOK, InLoop, MainTxnOK, ClientOK

\* _VmDirEvaluateVoteResult, up to the wait for consensus
LEMMA StructElected ==
    ASSUME StructInv, Elected
    PROVE  StructInv'
  <1>a. /\ thread \in [Thread -> ThreadRec] /\ "apply" \in Thread /\ "vote" \in Thread
        /\ "apply" # "vote"
        /\ log \in Seq(LogRec) /\ Noop \in LogRec
        /\ lastApplied \in 1..Len(log) /\ decided \in 1..Len(log) /\ Len(log) \in Nat
    BY ThreadRecords DEF StructInv, TypeOK, ThreadRec, LogRec
  <1>1. /\ UNCHANGED <<indexToApply, lastApplied, decided, db, dbApplied, client, asserts,
                       elections, restarts>>
        /\ role' = "leader" /\ mainTxn' = "vote" /\ disallowUpdates' = TRUE
        /\ log' = Append(log, Noop)
        /\ thread' = [thread EXCEPT !["vote"] =
                        [step |-> "consensus", idx |-> lastApplied + 1, last |-> Len(log)]]
        /\ mainTxn = "none" /\ client.step # "commit"
    BY DEF Elected, dbVars, bounds, StateMutexFree
  <1>2. /\ log' \in Seq(LogRec) /\ Len(log') = Len(log) + 1
        /\ \A i \in 1..Len(log) : log'[i] = log[i]
    BY <1>a, <1>1, LogGrows
  <1>3. /\ thread' \in [Thread -> ThreadRec]
        /\ thread'["apply"] = thread["apply"]
        /\ thread'["vote"].step = "consensus"
        /\ thread'["vote"].idx = lastApplied + 1
        /\ thread'["vote"].last = Len(log)
    <2>1. [step |-> "consensus", idx |-> lastApplied + 1, last |-> Len(log)] \in ThreadRec
      BY <1>a DEF ThreadRec, Step
    <2> QED
      BY <1>a, <1>1, <2>1
  <1>4. client.step = "idle"
    BY <1>1 DEF StructInv, MainTxnOK, TypeOK
  <1>5. TypeOK'
    BY <1>1, <1>2, <1>3, <1>a DEF StructInv, TypeOK, ThreadRec, LogRec
  <1>6. BoundsOK' /\ ThreadsOK'
    BY <1>a, <1>1, <1>2, <1>3 DEF StructInv, BoundsOK, ThreadsOK, InLoop, Thread
  <1>7. MainTxnOK' /\ ClientOK'
    BY <1>a, <1>1, <1>3, <1>4 DEF MainTxnOK, ClientOK
  <1> QED
    BY <1>5, <1>6, <1>7 DEF StructInv

\* The wait for consensus on the no-op log ends, well or badly.
LEMMA StructVote ==
    ASSUME StructInv, VoteConsensus \/ VoteFail
    PROVE  StructInv'
  <1>a. /\ thread \in [Thread -> ThreadRec] /\ "apply" \in Thread /\ "vote" \in Thread
        /\ "apply" # "vote"
        /\ lastApplied \in 1..Len(log) /\ decided \in 1..Len(log) /\ Len(log) \in Nat
    BY ThreadRecords DEF StructInv, TypeOK, ThreadRec
  <1>b. thread["vote"].idx \in Nat /\ thread["vote"].last \in Nat
    BY <1>a DEF ThreadRec
  <1>c. client.step = "idle" /\ 1 <= thread["vote"].idx /\ thread["vote"].last < Len(log)
    BY DEF VoteConsensus, VoteFail, StructInv, ThreadsOK, MainTxnOK
  <1>1. /\ UNCHANGED <<indexToApply, lastApplied, log, db, dbApplied, client, asserts,
                       elections, restarts>>
        /\ role' \in {"follower", "leader"}
        /\ decided' \in {decided, Len(log)}
        /\ mainTxn' = "none"
        /\ thread' \in [Thread -> ThreadRec]
        /\ thread'["apply"] = thread["apply"]
        /\ \/ thread'["vote"].step = "wait" /\ disallowUpdates' = FALSE
           \/ /\ thread'["vote"].step = "check" /\ disallowUpdates' = disallowUpdates
              /\ 1 <= thread'["vote"].idx /\ thread'["vote"].idx <= thread'["vote"].last
              /\ thread'["vote"].last <= decided'
    <2>1. CASE VoteConsensus
      <3>1. GoOn("vote", thread["vote"].idx, thread["vote"].last) /\ decided' = Len(log)
        BY <2>1 DEF VoteConsensus
      <3>2. /\ thread' \in [Thread -> ThreadRec]
            /\ thread'["apply"] = thread["apply"]
            /\ \/ thread'["vote"].step = "wait" /\ disallowUpdates' = FALSE
               \/ /\ thread'["vote"].step = "check" /\ disallowUpdates' = disallowUpdates
                  /\ 1 <= thread'["vote"].idx /\ thread'["vote"].idx <= thread'["vote"].last
                  /\ thread'["vote"].last <= decided'
        <4>1. AfterLoop("vote") = FALSE
          BY DEF AfterLoop
        <4>2. \/ thread'["vote"].step = "wait" /\ disallowUpdates' = AfterLoop("vote")
              \/ /\ thread'["vote"].step = "check" /\ disallowUpdates' = disallowUpdates
                 /\ thread'["vote"].idx = thread["vote"].idx
                 /\ thread'["vote"].idx <= thread'["vote"].last
                 /\ thread'["vote"].last = thread["vote"].last
          BY <1>a, <1>b, <3>1, GoOnProperties
        <4>3. thread' \in [Thread -> ThreadRec] /\ thread'["apply"] = thread["apply"]
          BY <1>a, <1>b, <3>1, GoOnProperties
        <4> QED
          BY <1>a, <1>b, <1>c, <3>1, <4>1, <4>2, <4>3
      <3> QED
        BY <2>1, <3>1, <3>2 DEF VoteConsensus, AppliedWhenDecided, dbVars, bounds
    <2>2. CASE VoteFail
      BY <2>2, <1>a, ThreadRecords DEF VoteFail, NotApplying, dbVars, bounds
    <2> QED
      BY <2>1, <2>2
  <1>2. decided' \in 1..Len(log) /\ decided <= decided' /\ disallowUpdates' \in BOOLEAN
    <2>1. disallowUpdates' \in BOOLEAN
      BY <1>1 DEF StructInv, TypeOK
    <2>2. decided' \in 1..Len(log) /\ decided <= decided'
      BY <1>a, <1>1
    <2> QED
      BY <2>1, <2>2
  <1>5. TypeOK'
    BY <1>1, <1>2 DEF StructInv, TypeOK, ThreadRec
  <1>6. BoundsOK' /\ ClientOK'
    BY <1>a, <1>c, <1>1, <1>2 DEF StructInv, TypeOK, BoundsOK, ClientOK
  <1>3. ThreadsOK'
    <2>1. thread["apply"].last \in Nat
      BY <1>a DEF ThreadRec
    <2>2. /\ InLoop("apply")' \/ thread'["apply"].step \in {"wait", "woken", "start"}
          /\ InLoop("apply")' =>
                /\ 1 <= thread'["apply"].idx /\ thread'["apply"].idx <= thread'["apply"].last
                /\ thread'["apply"].last <= decided'
          /\ thread'["apply"].step = "start" => thread'["apply"].last <= decided'
      BY <1>a, <1>1, <1>2, <2>1 DEF StructInv, ThreadsOK, InLoop
    <2>3. /\ InLoop("vote")' \/ thread'["vote"].step = "wait"
          /\ InLoop("vote")' =>
                /\ 1 <= thread'["vote"].idx /\ thread'["vote"].idx <= thread'["vote"].last
                /\ thread'["vote"].last <= decided'
      BY <1>1 DEF InLoop
    <2>4. thread'["vote"].step # "wait" => disallowUpdates'
      BY <1>1 DEF VoteConsensus, VoteFail, StructInv, ThreadsOK
    <2> QED
      BY <2>2, <2>3, <2>4 DEF ThreadsOK, Thread, InLoop
  <1>4. MainTxnOK'
    BY <1>a, <1>c, <1>1 DEF MainTxnOK
  <1> QED
    BY <1>3, <1>4, <1>5, <1>6 DEF StructInv

\* What a handler of a call leaves of the log and of the apply thread.
LEMMA AppendProperty ==
    ASSUME StructInv, NEW pre \in 1..Len(log), NEW leaderCommit \in Nat \ {0},
           NEW entries \in Seq(LogRec), AppendEntries(pre, entries, leaderCommit)
    PROVE  /\ log' \in Seq(LogRec)
           /\ Len(log') = pre + Len(entries) /\ Len(log') \in Nat
           /\ decided <= pre
           /\ \A i \in 1..pre : log'[i] = log[i]
           /\ \A i \in 1..Len(entries) : log'[pre + i] = entries[i]
           /\ decided' \in 1..pre /\ decided <= decided' /\ indexToApply' <= decided'
           /\ indexToApply' \in Nat
           /\ thread' \in [Thread -> ThreadRec]
           /\ thread["vote"].step = "wait"
           /\ thread'["vote"] = thread["vote"]
           /\ thread'["apply"].idx = thread["apply"].idx
           /\ thread'["apply"].last = thread["apply"].last
           /\ \/ thread'["apply"].step = thread["apply"].step
              \/ thread["apply"].step = "wait" /\ thread'["apply"].step = "woken"
           /\ role # "leader" /\ role' = "follower" /\ client.step # "commit"
           /\ elections' \in Nat
           /\ UNCHANGED <<lastApplied, disallowUpdates, db, dbApplied, mainTxn, client,
                          asserts, restarts>>
  <1>a. /\ thread \in [Thread -> ThreadRec] /\ "apply" \in Thread /\ "vote" \in Thread
        /\ "apply" # "vote"
        /\ log \in Seq(LogRec) /\ decided \in 1..Len(log) /\ Len(log) \in Nat
        /\ elections \in Nat /\ Len(entries) \in Nat
    BY ThreadRecords DEF StructInv, TypeOK, ThreadRec, LogRec
  <1>1. /\ log' \in Seq(LogRec)
        /\ Len(log') = pre + Len(entries)
        /\ \A i \in 1..pre : log'[i] = log[i]
        /\ \A i \in 1..Len(entries) : log'[pre + i] = entries[i]
    BY <1>a, LogReplaced DEF AppendEntries
  <1>2. decided <= pre
    BY <1>a DEF AppendEntries
  <1>3. decided' \in 1..pre /\ decided <= decided' /\ indexToApply' <= decided'
        /\ indexToApply' \in Nat
    <2> DEFINE commit == FollowerCommit(leaderCommit, pre)
    <2>1. commit \in Nat /\ commit <= pre
      BY DEF FollowerCommit
    <2>2. /\ indexToApply' = commit
          /\ decided' = IF commit > decided THEN commit ELSE decided
      BY DEF AppendEntries
    <2> HIDE DEF commit
    <2> QED
      BY <1>a, <1>2, <2>1, <2>2
  <1>4. /\ thread' \in [Thread -> ThreadRec]
        /\ thread'["vote"] = thread["vote"]
        /\ thread'["apply"].idx = thread["apply"].idx
        /\ thread'["apply"].last = thread["apply"].last
        /\ \/ thread'["apply"].step = thread["apply"].step
           \/ thread["apply"].step = "wait" /\ thread'["apply"].step = "woken"
    BY <1>a DEF AppendEntries, Signalled, ThreadRec, Step
  <1>5. /\ role # "leader" /\ role' = "follower" /\ client.step # "commit"
        /\ thread["vote"].step = "wait"
        /\ UNCHANGED <<lastApplied, disallowUpdates, db, dbApplied, mainTxn, client,
                       asserts, restarts>>
    BY DEF AppendEntries, StateMutexFree, RpcReplyMutexFree, dbVars
  <1>6. elections' \in Nat
    BY <1>a DEF AppendEntries
  <1> QED
    BY <1>a, <1>1, <1>2, <1>3, <1>4, <1>5, <1>6

\* _VmDirAppendEntriesGetReply
LEMMA StructAppend ==
    ASSUME StructInv, NEW pre \in 1..Len(log), NEW leaderCommit \in Nat \ {0},
           NEW entries \in Seq(LogRec), AppendEntries(pre, entries, leaderCommit)
    PROVE  StructInv'
  <1>a. /\ lastApplied \in Nat /\ dbApplied \in Nat /\ Len(entries) \in Nat
        /\ db \in [Entry -> Nat] /\ decided \in Nat
        /\ thread["apply"].last \in Nat
    BY ThreadRecords DEF StructInv, TypeOK
  <1>1. TypeOK'
    <2>1. /\ indexToApply' \in 0..Len(log') /\ lastApplied' \in 1..Len(log')
          /\ decided' \in 1..Len(log') /\ dbApplied' \in 1..Len(log')
      <3>1. /\ Len(log') \in Nat /\ decided' <= Len(log') /\ decided' \in Nat \ {0}
            /\ decided <= decided' /\ indexToApply' <= decided' /\ indexToApply' \in Nat
            /\ UNCHANGED <<lastApplied, dbApplied>>
        BY <1>a, AppendProperty
      <3>2. /\ 1 <= lastApplied /\ lastApplied <= decided
            /\ 1 <= dbApplied /\ dbApplied <= decided
        BY DEF StructInv, TypeOK, BoundsOK
      <3> QED
        BY <1>a, <3>1, <3>2
    <2>2. db' \in [Entry -> 0..Len(log')]
      <3>1. db' = db /\ decided <= Len(log') /\ Len(log') \in Nat
        BY <1>a, AppendProperty
      <3>2. \A e \in Entry : db[e] \in 0..Len(log')
        BY <1>a, <3>1 DEF StructInv, BoundsOK
      <3> QED
        BY <1>a, <3>1, <3>2
    <2>3. /\ role' \in {"follower", "candidate", "leader"} /\ elections' \in Nat
          /\ log' \in Seq(LogRec) /\ thread' \in [Thread -> ThreadRec]
          /\ UNCHANGED <<disallowUpdates, mainTxn, client, asserts, restarts>>
      BY AppendProperty
    <2> QED
      BY <2>1, <2>2, <2>3 DEF StructInv, TypeOK, LogRec, ThreadRec
  <1>2. BoundsOK'
    BY <1>a, AppendProperty DEF StructInv, BoundsOK
  <1>3. ThreadsOK'
    <2>1. /\ InLoop("apply")' \/ thread'["apply"].step \in {"wait", "woken", "start"}
          /\ InLoop("apply")' =>
                /\ 1 <= thread'["apply"].idx /\ thread'["apply"].idx <= thread'["apply"].last
                /\ thread'["apply"].last <= decided'
          /\ thread'["apply"].step = "start" => thread'["apply"].last <= decided'
      <3>1. /\ thread'["apply"].idx = thread["apply"].idx
            /\ thread'["apply"].last = thread["apply"].last
            /\ \/ thread'["apply"].step = thread["apply"].step
               \/ thread'["apply"].step = "woken"
            /\ decided' \in Nat /\ decided <= decided'
        BY AppendProperty
      <3> QED
        BY <1>a, <3>1, ThreadRecords DEF StructInv, ThreadsOK, InLoop
    <2>2. thread'["vote"].step = "wait"
      BY AppendProperty
    <2> QED
      BY <2>1, <2>2 DEF ThreadsOK, Thread, InLoop
  <1>4. MainTxnOK' /\ ClientOK'
    BY AppendProperty DEF StructInv, MainTxnOK, ClientOK
  <1> QED
    BY <1>1, <1>2, <1>3, <1>4 DEF StructInv

\* A client's write adds its log.
LEMMA StructClientWrite ==
    ASSUME StructInv, NEW x \in Write, ClientWrite(x)
    PROVE  StructInv'
  <1>a. /\ log \in Seq(LogRec) /\ x \in LogRec /\ Len(log) \in Nat
        /\ decided \in 1..Len(log)
    BY DEF StructInv, TypeOK, LogRec
  <1>1. /\ UNCHANGED <<role, indexToApply, lastApplied, disallowUpdates, decided, db,
                       dbApplied, thread, asserts, elections, restarts>>
        /\ role = "leader" /\ client.step = "idle" /\ ~disallowUpdates
        /\ log' = Append(log, x) /\ mainTxn' = "client"
        /\ client' = [step |-> "consensus", idx |-> Len(log) + 1]
    BY DEF ClientWrite, ValidateOp, dbVars, bounds
  <1>2. /\ log' \in Seq(LogRec) /\ Len(log') = Len(log) + 1
        /\ log'[Len(log')] = x
    BY <1>a, <1>1, LogGrows
  <1>3. /\ client' \in [step : {"idle", "consensus", "commit"}, idx : Nat]
        /\ client'.step = "consensus" /\ client'.idx = Len(log')
    BY <1>a, <1>1, <1>2
  <1>4. thread["vote"].step = "wait"
    BY <1>1 DEF StructInv, ThreadsOK
  <1>5. TypeOK'
    BY <1>a, <1>1, <1>2, <1>3 DEF StructInv, TypeOK, LogRec
  <1>6. BoundsOK' /\ ThreadsOK'
    BY <1>a, <1>1, <1>2, <1>4 DEF StructInv, BoundsOK, ThreadsOK, InLoop
  <1>7. MainTxnOK' /\ ClientOK'
    BY <1>1, <1>2, <1>3, <1>4 DEF MainTxnOK, ClientOK
  <1> QED
    BY <1>5, <1>6, <1>7 DEF StructInv

\* VmDirRaftPrepareCommit: consensus, or none
LEMMA StructClientEnd ==
    ASSUME StructInv, ClientConsensus \/ ClientAbort
    PROVE  StructInv'
  <1>a. /\ Len(log) \in Nat /\ decided \in 1..Len(log) /\ lastApplied \in 1..Len(log)
        /\ client \in [step : {"idle", "consensus", "commit"}, idx : Nat]
        /\ client.step = "consensus"
    BY DEF StructInv, TypeOK, ClientConsensus, ClientAbort
  <1>b. thread["vote"].step = "wait" /\ mainTxn = "client"
    BY <1>a DEF StructInv, MainTxnOK
  <1>1. CASE ClientConsensus
    <2>1. client.idx = Len(log) /\ log[client.idx] \in Write /\ log[client.idx] # Noop
      <3>1. client.idx = Len(log) /\ log[client.idx] \in Write
        BY <1>1 DEF ClientConsensus, StructInv, ClientOK
      <3> QED
        BY <3>1 DEF Write, Noop
    <2>2. /\ UNCHANGED <<role, indexToApply, disallowUpdates, log, db, dbApplied,
                         mainTxn, thread, asserts, elections, restarts>>
          /\ role = "leader"
          /\ decided' = Len(log) /\ lastApplied' = Len(log)
          /\ client' = [client EXCEPT !.step = "commit"]
      BY <1>1, <2>1 DEF ClientConsensus, AppliedWhenDecided, dbVars, bounds
    <2>3. /\ client' \in [step : {"idle", "consensus", "commit"}, idx : Nat]
          /\ client'.step = "commit" /\ client'.idx = client.idx
      BY <1>a, <2>2
    <2>4. TypeOK' /\ BoundsOK'
      BY <1>a, <2>2, <2>3 DEF StructInv, TypeOK, BoundsOK
    <2>5. ThreadsOK'
      <3>1. thread["apply"].last \in Nat /\ decided <= decided'
        BY <1>a, <2>2, ThreadRecords DEF StructInv, TypeOK
      <3> QED
        BY <1>a, <1>b, <2>2, <3>1 DEF StructInv, ThreadsOK, InLoop, Thread
    <2>6. MainTxnOK' /\ ClientOK'
      BY <1>b, <2>1, <2>2, <2>3 DEF MainTxnOK, ClientOK
    <2> QED
      BY <2>4, <2>5, <2>6 DEF StructInv
  <1>2. CASE ClientAbort
    <2>1. /\ UNCHANGED <<indexToApply, lastApplied, disallowUpdates, log, decided, db,
                         dbApplied, thread, asserts, elections, restarts>>
          /\ role' \in {"follower", "candidate", "leader"}
          /\ mainTxn' = "none"
          /\ client' = NoClient
      BY <1>2 DEF ClientAbort, StructInv, TypeOK, dbVars, bounds
    <2>2. /\ client' \in [step : {"idle", "consensus", "commit"}, idx : Nat]
          /\ client'.step = "idle"
      BY <2>1 DEF NoClient
    <2>3. TypeOK' /\ BoundsOK' /\ ThreadsOK'
      BY <2>1, <2>2 DEF StructInv, TypeOK, BoundsOK, ThreadsOK, InLoop
    <2>4. MainTxnOK' /\ ClientOK'
      BY <1>b, <2>1, <2>2 DEF MainTxnOK, ClientOK
    <2> QED
      BY <2>3, <2>4 DEF StructInv
  <1> QED
    BY <1>1, <1>2

\* MDB commits a client's write, or fails.
LEMMA StructCommit ==
    ASSUME StructInv, NEW ok \in BOOLEAN, ClientCommit(ok)
    PROVE  StructInv'
  <1>a. /\ Len(log) \in Nat /\ decided = Len(log) /\ client.idx = Len(log)
        /\ decided \in 1..Len(log) /\ thread["vote"].step = "wait"
    BY DEF ClientCommit, StructInv, TypeOK, ClientOK, MainTxnOK
  <1>1. /\ UNCHANGED <<indexToApply, lastApplied, disallowUpdates, log, decided,
                       thread, asserts, elections, restarts>>
        /\ role' \in {"follower", "candidate", "leader"}
        /\ mainTxn' = "none"
        /\ client' = NoClient
    BY DEF ClientCommit, StructInv, TypeOK, bounds
  <1>2. /\ client' \in [step : {"idle", "consensus", "commit"}, idx : Nat]
        /\ client'.step = "idle"
    BY <1>1 DEF NoClient
  <1>3. /\ dbApplied' \in 1..Len(log) /\ db' \in [Entry -> 0..Len(log)]
    <2>1. CASE ok
      <3>1. db \in [Entry -> 0..Len(log)] /\ \A e \in Entry : db[e] <= Len(log)
        BY <1>a DEF StructInv, TypeOK
      <3> QED
        BY <1>a, <2>1, <3>1, WrittenType DEF ClientCommit, AppliedOnDisk
    <2>2. CASE ~ok
      BY <2>2 DEF ClientCommit, StructInv, TypeOK, dbVars
    <2> QED
      BY <2>1, <2>2
  <1>4. TypeOK'
    BY <1>1, <1>2, <1>3 DEF StructInv, TypeOK
  <1>5. BoundsOK' /\ ThreadsOK'
    BY <1>a, <1>1, <1>3 DEF StructInv, TypeOK, BoundsOK, ThreadsOK, InLoop
  <1>6. MainTxnOK' /\ ClientOK'
    BY <1>a, <1>1, <1>2 DEF MainTxnOK, ClientOK
  <1> QED
    BY <1>4, <1>5, <1>6 DEF StructInv

\* Every step keeps the structural invariant.
LEMMA StructStep == StructInv /\ [Next]_vars => StructInv'
  <1> SUFFICES ASSUME StructInv, [Next]_vars PROVE StructInv'
    OBVIOUS
  <1>1. CASE UNCHANGED vars
    BY <1>1 DEF vars, raftVars, dbVars, bounds, StructInv, TypeOK, BoundsOK, ThreadsOK,
       InLoop, MainTxnOK, ClientOK
  <1>2. ASSUME NEW pre \in 1..Len(log), NEW leaderCommit \in 1..MaxIndex,
               \/ AppendEntries(pre, <<>>, leaderCommit)
               \/ \E x \in Write \cup {Noop} : AppendEntries(pre, <<x>>, leaderCommit)
        PROVE  StructInv'
    <2>1. leaderCommit \in Nat \ {0}
      BY BoundAssumption
    <2>2. <<>> \in Seq(LogRec) /\ \A x \in Write \cup {Noop} : <<x>> \in Seq(LogRec)
      BY DEF LogRec
    <2> QED
      BY <1>2, <2>1, <2>2, StructAppend
  <1>3. CASE \E t \in Thread : ApplyStep(t) \/ ApplyFails(t)
    BY <1>3, StructCheck, StructApply, StructSet DEF ApplyStep
  <1>4. CASE \E ok \in CommitOutcome : ClientCommit(ok)
    BY <1>4, BoundAssumption, StructCommit
  <1>5. CASE Restart
    <2>1. Reload /\ asserts' \in BOOLEAN
      BY <1>5 DEF Restart, StructInv, TypeOK
    <2> QED
      BY <2>1, StructReload
  <1> QED
    BY <1>1, <1>2, <1>3, <1>4, <1>5, StructWake, StructRole, StructElected, StructVote,
       StructClientWrite, StructClientEnd DEF Next

\* Every reachable state has the types of TypeOK, with slow threads and full disks
\* too: no thread applies a log that is not committed, and no call takes a log away
\* that lastApplied, ATTR_RAFT_LAST_APPLIED or an entry of the database comes from.
THEOREM TypeCorrect == Spec => []TypeOK
  <1>1. StructInv => TypeOK
    BY DEF StructInv
  <1> QED
    BY <1>1, StructInit, StructStep, PTL DEF Spec

-----------------------------------------------------------------------------
(* The database that logs make *)

\* A set of indices that is not empty has a largest one, and Max is it.
LEMMA MaxProperties ==
    ASSUME NEW n \in Nat, NEW S \in SUBSET (1..n), S # {}
    PROVE  Max(S) \in S /\ \A i \in S : i <= Max(S)
  <1> DEFINE T == {n - i : i \in S}
             Less == {p \in Nat \X Nat : p[1] < p[2]}
  <1>1. T \subseteq Nat /\ T # {}
    <2>1. \A i \in S : n - i \in Nat
      OBVIOUS
    <2> QED
      BY <2>1
  <1>2. IsWellFoundedOn(Less, Nat)
    BY NatLessThanWellFounded, Zenon DEF OpToRel
  <1> HIDE DEF Less
  <1>3. PICK d \in T : \A b \in T : ~(<<b, d>> \in Less)
    BY <1>1, <1>2, WFMin
  <1>6. \A b \in T : d <= b
    <2>1. ASSUME NEW b \in T, ~(<<b, d>> \in Less) PROVE d <= b
      BY <1>1, <2>1 DEF Less
    <2> QED
      BY <1>3, <2>1
  <1>4. PICK m \in S : d = n - m
    BY <1>3
  <1>5. \A i \in S : m >= i
    <2> SUFFICES ASSUME NEW i \in S PROVE m >= i
      OBVIOUS
    <2>1. n - i \in T /\ i \in Nat /\ m \in Nat
      OBVIOUS
    <2> QED
      BY <1>4, <1>6, <2>1
  <1> QED
    BY <1>4, <1>5 DEF Max

\* The logs among the first n of l that write entry e.
Writes(l, n, e) == {i \in 1..n : l[i].entry = e}

\* What the first n logs of l make of entry e.
LEMMA ContentOf ==
    ASSUME NEW l, NEW n
    PROVE  /\ Content(l, n) = [e \in Entry |-> Content(l, n)[e]]
           /\ \A e \in Entry :
                 Content(l, n)[e] =
                    IF Writes(l, n, e) = {} \/ l[Max(Writes(l, n, e))].op = "delete"
                    THEN 0 ELSE Max(Writes(l, n, e))
  BY DEF Content, Writes

\* The database depends on the first n logs only.
LEMMA ContentAgree ==
    ASSUME NEW k, NEW l, NEW n \in Nat, \A i \in 1..n : k[i] = l[i]
    PROVE  Content(k, n) = Content(l, n)
  <1>1. ASSUME NEW e \in Entry PROVE Content(k, n)[e] = Content(l, n)[e]
    <2>1. Writes(k, n, e) = Writes(l, n, e)
      BY DEF Writes
    <2>2. CASE Writes(l, n, e) = {}
      BY <2>1, <2>2, ContentOf
    <2>3. CASE Writes(l, n, e) # {}
      <3>1. Writes(l, n, e) \in SUBSET (1..n)
        BY DEF Writes
      <3>2. Max(Writes(l, n, e)) \in Writes(l, n, e)
        BY <2>3, <3>1, MaxProperties
      <3>3. k[Max(Writes(l, n, e))] = l[Max(Writes(l, n, e))]
        BY <3>1, <3>2
      <3> QED
        BY <2>1, <2>3, <3>3, ContentOf
    <2> QED
      BY <2>2, <2>3
  <1> QED
    BY <1>1, ContentOf

\* No-op logs leave the database as it is.
LEMMA ContentNoop ==
    ASSUME NEW l, NEW n \in Nat, NEW m \in Nat, n <= m,
           \A i \in (n + 1)..m : l[i] = Noop
    PROVE  Content(l, m) = Content(l, n)
  <1>1. ASSUME NEW e \in Entry PROVE Content(l, m)[e] = Content(l, n)[e]
    <2>1. Noop.entry # e
      BY EntryAssumption DEF Noop
    <2>2. \A i \in 1..m : l[i].entry = e => i \in 1..n
      <3> SUFFICES ASSUME NEW i \in 1..m, ~(i \in 1..n) PROVE l[i].entry # e
        OBVIOUS
      <3>1. i \in (n + 1)..m
        OBVIOUS
      <3> QED
        BY <2>1, <3>1
    <2>3. Writes(l, m, e) = Writes(l, n, e)
      BY <2>2 DEF Writes
    <2> QED
      BY <2>3, ContentOf
  <1> QED
    BY <1>1, ContentOf

\* A write after no-op logs changes the database as a transaction does.
LEMMA ContentWritten ==
    ASSUME NEW l, NEW n \in Nat, NEW i \in Nat, n < i, l[i] \in Write,
           \A j \in (n + 1)..(i - 1) : l[j] = Noop
    PROVE  Content(l, i) = Written(Content(l, n), l[i], i)
  <1> DEFINE e == l[i].entry
  <1>1. e \in Entry
    BY DEF Write
  <1>2. i - 1 \in Nat /\ n <= i - 1 /\ Content(l, i - 1) = Content(l, n)
    <2>1. i - 1 \in Nat /\ n <= i - 1
      OBVIOUS
    <2> QED
      BY <2>1, ContentNoop
  <1>3. Content(l, i)[e] = IF l[i].op = "delete" THEN 0 ELSE i
    <2>1. i \in Writes(l, i, e) /\ Writes(l, i, e) \in SUBSET (1..i)
      BY DEF Writes
    <2>2. /\ Max(Writes(l, i, e)) \in Writes(l, i, e)
          /\ \A j \in Writes(l, i, e) : j <= Max(Writes(l, i, e))
      BY <2>1, MaxProperties
    <2>3. Max(Writes(l, i, e)) = i
      BY <2>1, <2>2
    <2> QED
      BY <1>1, <2>1, <2>3, ContentOf
  <1>4. ASSUME NEW f \in Entry, f # e PROVE Content(l, i)[f] = Content(l, n)[f]
    <2>1. Writes(l, i, f) = Writes(l, i - 1, f)
      BY <1>2, <1>4 DEF Writes
    <2> QED
      BY <1>2, <2>1, ContentOf
  <1>5. /\ Written(Content(l, n), l[i], i) =
             [f \in Entry |-> Written(Content(l, n), l[i], i)[f]]
        /\ Written(Content(l, n), l[i], i)[e] = IF l[i].op = "delete" THEN 0 ELSE i
        /\ \A f \in Entry : f # e => Written(Content(l, n), l[i], i)[f] = Content(l, n)[f]
    BY <1>1, ContentOf DEF Written
  <1>6. \A f \in Entry : Content(l, i)[f] = Written(Content(l, n), l[i], i)[f]
    BY <1>3, <1>4, <1>5
  <1> QED
    BY <1>5, <1>6, ContentOf

-----------------------------------------------------------------------------
(* The database of the server *)

\* A server that has been set up satisfies the invariant of the database.
LEMMA DataInit == Init => DataInv
  <1> SUFFICES ASSUME Init PROVE DataInv
    OBVIOUS
  <1>1. Len(log) = 1 /\ log[1] = Noop
    BY DEF Init
  <1>2. /\ thread["apply"].step = "wait" /\ thread["vote"].step = "wait"
        /\ client.step = "idle" /\ \A t \in Thread : thread[t].step = "wait"
    BY ThreadRecords DEF Init, NotApplying, NoClient
  <1>3. LogFits
    BY <1>1 DEF LogFits, Fits, Noop
  <1>4. OneApplies /\ NoneAhead /\ LeaderOK /\ NoAssert
    BY <1>2 DEF Init, OneApplies, NoneAhead, InLoop, LeaderOK, NoAssert
  <1>5. DatabaseOK
    <2>1. Content(log, 1) = Content(log, 0)
      BY <1>1, ContentNoop
    <2>2. Content(log, 0) = [e \in Entry |-> 0]
      <3>1. \A e \in Entry : Writes(log, 0, e) = {}
        BY DEF Writes
      <3> QED
        BY <3>1, ContentOf
    <2>3. InDatabase(1)
      BY DEF InDatabase, Init
    <2> QED
      BY <1>2, <2>1, <2>2, <2>3 DEF Init, DatabaseOK
  <1> QED
    BY <1>3, <1>4, <1>5 DEF DataInv

\* While a thread works no other does, and no write of a client is being committed.
LEMMA OnlyOne ==
    ASSUME StructInv, DataInv, NEW t \in Thread, thread[t].step # "wait"
    PROVE  /\ \A u \in Thread : u # t => thread[u].step = "wait"
           /\ client.step # "commit"
           /\ t = "apply" => role # "leader"
  BY DEF StructInv, DataInv, OneApplies, MainTxnOK, ClientOK, Thread

\* A thread at its transaction has the next log, and the log fits the database.
LEMMA NextLogFits ==
    ASSUME StructInv, DataInv, NEW t \in Thread, thread[t].step \in {"txn", "failed"}
    PROVE  LET i == thread[t].idx
           IN /\ i \in 2..Len(log) /\ i = lastApplied + 1 /\ log[i] \in LogRec
              /\ dbApplied < i
              /\ \A j \in (dbApplied + 1)..(i - 1) : log[j] = Noop
              /\ Fits(log[i], db)
  <1> DEFINE i == thread[t].idx
  <1>1. /\ i = lastApplied + 1 /\ lastApplied \in 1..Len(log) /\ Len(log) \in Nat
        /\ i <= decided /\ decided \in 1..Len(log)
    BY DEF StructInv, TypeOK, ThreadsOK, InLoop, DataInv, NoneAhead
  <1>2. log[i] \in LogRec
    BY <1>1, ElementOfSeq DEF StructInv, TypeOK, LogRec
  <1>3. dbApplied \in 1..Len(log) /\ dbApplied <= lastApplied
    <2>1. \A u \in Thread : thread[u].step # "set"
      BY OnlyOne
    <2> QED
      BY <2>1 DEF StructInv, TypeOK, DataInv, DatabaseOK
  <1>4. \A j \in (dbApplied + 1)..(i - 1) : log[j] = Noop
    <2>1. InDatabase(lastApplied) /\ DOMAIN log = 1..Len(log)
      BY OnlyOne DEF DataInv, DatabaseOK, StructInv, TypeOK
    <2>2. ASSUME NEW j \in (dbApplied + 1)..(i - 1)
          PROVE  j \in 1..Len(log) /\ dbApplied < j /\ j <= lastApplied
      BY <1>1, <1>3
    <2> QED
      BY <2>1, <2>2 DEF InDatabase
  <1>5. Fits(log[i], db)
    <2>1. i - 1 \in Nat /\ dbApplied \in Nat /\ dbApplied <= i - 1 /\ i \in 1..Len(log)
      BY <1>1, <1>3
    <2>2. Content(log, i - 1) = Content(log, dbApplied)
      BY <1>4, <2>1, ContentNoop
    <2> QED
      BY <2>1, <2>2 DEF DataInv, LogFits, DatabaseOK
  <1> QED
    BY <1>1, <1>2, <1>3, <1>4, <1>5

\* When the vote thread has applied the logs before its no-op log, the leader has
\* applied all its logs.
LEMMA VoteThreadDone ==
    ASSUME StructInv, role = "leader", InDatabase(lastApplied),
           lastApplied >= Len(log) - 1, log[Len(log)] = Noop
    PROVE  InDatabase(Len(log))
  <1>1. Len(log) \in Nat /\ lastApplied \in Nat /\ DOMAIN log = 1..Len(log)
    BY DEF StructInv, TypeOK
  <1> QED
    BY <1>1 DEF InDatabase

\* A thread looks at a log, or fails to apply it.
LEMMA DataCheck ==
    ASSUME StructInv, DataInv, NEW t \in Thread, CheckLog(t) \/ ApplyFails(t)
    PROVE  DataInv'
  <1>1. /\ UNCHANGED <<role, indexToApply, lastApplied, log, decided, db, dbApplied,
                       mainTxn, client, asserts, elections, restarts>>
        /\ InLoop(t) /\ thread[t].step \in {"check", "txn"}
    BY DEF CheckLog, ApplyFails, InLoop, dbVars, raftVars, bounds
  <1>2. LoopMoves(t)
    BY <1>1, NextLogMoves, GotoStepMoves DEF CheckLog, ApplyFails, raftVars
  <1>a. /\ thread[t].step # "wait" /\ \A u \in Thread : u # t => thread[u].step = "wait"
        /\ client.step # "commit"
        /\ t = "apply" => role # "leader"
        /\ \A u \in Thread : u # t => thread'[u] = thread[u]
        /\ t \in {"apply", "vote"} /\ "apply" \in Thread /\ "vote" \in Thread
    BY <1>1, <1>2, OnlyOne, ThreadRecords DEF InLoop, LoopMoves, Thread
  <1>b. lastApplied \in Nat /\ thread[t].idx \in Nat /\ thread[t].last \in Nat
        /\ Len(log) \in Nat
    BY DEF StructInv, TypeOK
  <1>3. /\ thread'[t].step \in {"wait", "check", "txn", "failed"}
        /\ thread'[t].step = "check" =>
              thread[t].idx <= lastApplied \/ (t = "apply" /\ role # "follower")
        /\ thread'[t].step = "check" => thread'[t].idx = thread[t].idx + 1
        /\ thread'[t].step = "wait" /\ t = "vote" =>
              thread[t].idx <= lastApplied /\ thread[t].last <= thread[t].idx
        /\ thread'[t].step \in {"txn", "failed"} =>
              thread'[t].idx = thread[t].idx /\ thread[t].idx = lastApplied + 1
    <2>1. CASE ApplyFails(t)
      <3>1. thread'[t].step = "failed" /\ thread'[t].idx = thread[t].idx
        BY <1>1, <2>1, GotoStepMoves DEF ApplyFails, raftVars
      <3>2. thread[t].idx = lastApplied + 1
        BY <2>1 DEF ApplyFails, DataInv, NoneAhead
      <3> QED
        BY <3>1, <3>2
    <2>2. CASE CheckLog(t) /\ NextLog(t)
               /\ (thread[t].idx <= lastApplied \/ (t = "apply" /\ role # "follower"))
      BY <1>1, <1>a, <1>b, <2>2, NextLogMoves
    <2>3. CASE CheckLog(t) /\ GotoStep(t, "txn") /\ UNCHANGED disallowUpdates
               /\ ~(thread[t].idx <= lastApplied \/ (t = "apply" /\ role # "follower"))
      <3>1. thread'[t].step = "txn" /\ thread'[t].idx = thread[t].idx
        BY <1>1, <2>3, GotoStepMoves
      <3>2. thread[t].idx <= lastApplied + 1
        BY <1>1, <1>a, <2>3 DEF DataInv, NoneAhead
      <3> QED
        BY <1>b, <2>3, <3>1, <3>2
    <2> QED
      BY <2>1, <2>2, <2>3 DEF CheckLog, ApplyFails
  <1>4. LogFits' /\ NoAssert'
    BY <1>1 DEF DataInv, LogFits, NoAssert
  <1>5. OneApplies'
    <2>1. CASE t = "apply"
      BY <1>1, <1>a, <2>1 DEF OneApplies
    <2>2. CASE t = "vote"
      BY <1>1, <1>a, <2>2 DEF OneApplies
    <2> QED
      BY <1>a, <2>1, <2>2
  <1>6. NoneAhead'
    <2>1. CASE t = "apply"
      BY <1>1, <1>a, <1>b, <1>3, <2>1 DEF DataInv, NoneAhead, InLoop
    <2>2. CASE t = "vote"
      BY <1>1, <1>a, <1>b, <1>3, <2>2 DEF DataInv, NoneAhead, InLoop
    <2> QED
      BY <1>a, <2>1, <2>2
  <1>7. DatabaseOK'
    <2>1. \A u \in Thread : thread[u].step # "set" /\ thread'[u].step # "set"
      BY <1>1, <1>a, <1>3
    <2>2. \A n : InDatabase(n) => InDatabase(n)'
      BY <1>1 DEF InDatabase
    <2> QED
      BY <1>1, <1>a, <2>1, <2>2 DEF DataInv, DatabaseOK
  <1>8. LeaderOK'
    <2>1. CASE role = "leader" /\ t = "vote" /\ thread'[t].step = "wait"
      <3>1. /\ thread["vote"].last = Len(log) - 1 /\ log[Len(log)] = Noop
            /\ InDatabase(lastApplied) /\ client.step = "idle"
        BY <1>a, <2>1 DEF DataInv, LeaderOK, DatabaseOK, StructInv, MainTxnOK
      <3>2. InDatabase(Len(log))
        BY <1>b, <1>3, <2>1, <3>1, VoteThreadDone
      <3>3. InDatabase(Len(log))'
        BY <1>1, <3>2 DEF InDatabase
      <3> QED
        BY <1>1, <2>1, <3>1, <3>3 DEF LeaderOK
    <2>2. CASE role = "leader" /\ t = "vote" /\ thread'[t].step # "wait"
      <3>1. thread["vote"].last = Len(log) - 1 /\ log[Len(log)] = Noop /\ client.step = "idle"
        BY <1>a, <2>2 DEF DataInv, LeaderOK, StructInv, MainTxnOK
      <3>2. thread'["vote"].last = thread["vote"].last
        BY <1>2, <2>2 DEF LoopMoves
      <3> QED
        BY <1>1, <2>2, <3>1, <3>2 DEF LeaderOK
    <2>3. CASE role # "leader"
      BY <1>1, <2>3 DEF LeaderOK
    <2> QED
      BY <1>a, <2>1, <2>2, <2>3
  <1> QED
    BY <1>4, <1>5, <1>6, <1>7, <1>8 DEF DataInv

\* A log is applied: the transaction does to the database what the log does.
LEMMA DataApply ==
    ASSUME StructInv, DataInv, NEW t \in Thread, ApplyOneLogEntry(t)
    PROVE  DataInv'
  <1> DEFINE i == thread[t].idx
  <1>1. /\ UNCHANGED <<role, indexToApply, lastApplied, disallowUpdates, log, decided,
                       mainTxn, client, asserts, elections, restarts>>
        /\ InLoop(t) /\ thread[t].step = "txn"
    BY DEF ApplyOneLogEntry, InLoop, raftVars, bounds
  <1>2. /\ i \in 2..Len(log) /\ i = lastApplied + 1 /\ log[i] \in LogRec
        /\ dbApplied < i
        /\ \A j \in (dbApplied + 1)..(i - 1) : log[j] = Noop
        /\ Fits(log[i], db)
    BY <1>1, NextLogFits
  <1>a. /\ \A u \in Thread : u # t => thread[u].step = "wait"
        /\ client.step # "commit"
        /\ t = "apply" => role # "leader"
        /\ t \in {"apply", "vote"} /\ "apply" \in Thread /\ "vote" \in Thread
    BY <1>1, OnlyOne, ThreadRecords DEF Thread
  <1>b. /\ dbApplied \in Nat /\ lastApplied \in Nat /\ Len(log) \in Nat
        /\ DOMAIN log = 1..Len(log)
    BY DEF StructInv, TypeOK
  <1>3. /\ LoopMoves(t) /\ thread'[t].step = "set" /\ thread'[t].idx = i
        /\ \A u \in Thread : u # t => thread'[u] = thread[u]
    <2>1. GotoStep(t, "set")
      BY <1>2 DEF ApplyOneLogEntry
    <2> QED
      BY <1>1, <2>1, GotoStepMoves DEF LoopMoves
  <1>4. /\ db' = Content(log, dbApplied')
        /\ (dbApplied' = dbApplied /\ log[i] = Noop) \/ dbApplied' = i
    <2>1. CASE log[i] = Noop
      BY <2>1 DEF ApplyOneLogEntry, DataInv, DatabaseOK, dbVars
    <2>2. CASE log[i] # Noop
      <3>1. log[i] \in Write
        BY <1>2, <2>2 DEF LogRec
      <3>2. db' = Written(db, log[i], i) /\ dbApplied' = i
        BY <1>2, <2>2 DEF ApplyOneLogEntry, AppliedOnDisk
      <3>3. db = Content(log, dbApplied)
        BY DEF DataInv, DatabaseOK
      <3>4. Content(log, i) = Written(Content(log, dbApplied), log[i], i)
        BY <1>2, <1>b, <3>1, ContentWritten
      <3> QED
        BY <3>2, <3>3, <3>4
    <2> QED
      BY <2>1, <2>2
  <1>5. \A j \in 1..Len(log) : dbApplied' < j /\ j <= i => log[j] = Noop
    <2>1. CASE dbApplied' = i
      BY <1>2, <1>b, <2>1
    <2>2. CASE dbApplied' = dbApplied /\ log[i] = Noop
      <3>1. ASSUME NEW j \in 1..Len(log), dbApplied < j, j <= i PROVE log[j] = Noop
        <4>1. CASE j = i
          BY <2>2, <4>1
        <4>2. CASE j # i
          <5>1. j \in (dbApplied + 1)..(i - 1)
            BY <1>2, <1>b, <3>1, <4>2
          <5> QED
            BY <1>2, <5>1
        <4> QED
          BY <4>1, <4>2
      <3> QED
        BY <2>2, <3>1
    <2> QED
      BY <1>4, <2>1, <2>2
  <1>6. InDatabase(lastApplied)' /\ InDatabase(thread[t].idx)'
    <2>1. dbApplied' \in Nat
      BY <1>2, <1>4, <1>b
    <2> QED
      BY <1>1, <1>2, <1>3, <1>5, <1>b, <2>1 DEF InDatabase
  <1>7. LogFits' /\ NoAssert'
    BY <1>1 DEF DataInv, LogFits, NoAssert
  <1>8. OneApplies' /\ NoneAhead'
    <2>1. CASE t = "apply"
      BY <1>1, <1>2, <1>3, <1>a, <1>b, <2>1 DEF DataInv, OneApplies, NoneAhead, InLoop
    <2>2. CASE t = "vote"
      BY <1>1, <1>2, <1>3, <1>a, <1>b, <2>2 DEF DataInv, OneApplies, NoneAhead, InLoop
    <2> QED
      BY <1>a, <2>1, <2>2
  <1>9. DatabaseOK'
    <2>1. dbApplied' <= lastApplied' \/ (thread'[t].step = "set" /\ dbApplied' = thread'[t].idx)
      BY <1>1, <1>2, <1>3, <1>4, <1>b
    <2>2. \A u \in Thread : thread'[u].step = "set" => u = t
      BY <1>3, <1>a
    <2> QED
      BY <1>1, <1>4, <1>6, <1>a, <2>1, <2>2 DEF DatabaseOK
  <1>10. LeaderOK'
    <2>1. CASE t = "vote"
      <3>1. thread'["vote"].last = thread["vote"].last /\ thread["vote"].step # "wait"
        BY <1>1, <1>3, <2>1 DEF LoopMoves
      <3>2. client.step = "idle"
        BY <3>1 DEF StructInv, MainTxnOK
      <3> QED
        BY <1>1, <1>3, <2>1, <3>1, <3>2 DEF DataInv, LeaderOK
    <2>2. CASE t = "apply"
      BY <1>1, <1>a, <2>2 DEF LeaderOK
    <2> QED
      BY <1>a, <2>1, <2>2
  <1> QED
    BY <1>7, <1>8, <1>9, <1>10 DEF DataInv

\* A crash, and the start after it: lastApplied is what is on disk.
LEMMA DataReload ==
    ASSUME StructInv, DataInv, Reload, asserts' = FALSE
    PROVE  DataInv'
  <1>1. /\ role' = "follower" /\ lastApplied' = dbApplied
        /\ client'.step = "idle" /\ \A t \in Thread : thread'[t].step = "wait"
        /\ UNCHANGED <<log, decided, db, dbApplied>>
    BY DEF Reload, NotApplying, NoClient, dbVars
  <1>2. dbApplied \in Nat /\ DOMAIN log = 1..Len(log) /\ Len(log) \in Nat
    BY DEF StructInv, TypeOK
  <1>3. LogFits' /\ NoAssert'
    BY <1>1 DEF DataInv, LogFits, NoAssert
  <1>4. OneApplies' /\ NoneAhead' /\ LeaderOK'
    BY <1>1, ThreadRecords DEF OneApplies, NoneAhead, InLoop, LeaderOK
  <1>5. InDatabase(lastApplied)'
    BY <1>1, <1>2 DEF InDatabase
  <1>6. DatabaseOK'
    BY <1>1, <1>2, <1>5 DEF DataInv, DatabaseOK
  <1> QED
    BY <1>3, <1>4, <1>6 DEF DataInv

\* lastApplied follows, or assert(0) ends the process for an error that goes away.
LEMMA DataSet ==
    ASSUME StructInv, DataInv, NEW t \in Thread, SetLastApplied(t) \/ LogFailed(t)
    PROVE  DataInv'
  <1>1. CASE LogFailed(t)
    <2>1. thread[t].idx = lastApplied + 1 /\ Fits(log[thread[t].idx], db)
      BY <1>1, NextLogFits DEF LogFailed
    <2>2. lastApplied \in Nat
      BY DEF StructInv, TypeOK
    <2>3. Reload /\ asserts' = (asserts \/ ~Fits(log[thread[t].idx], db))
      BY <1>1, <2>1, <2>2 DEF LogFailed
    <2>4. asserts' = FALSE
      BY <2>1, <2>3 DEF DataInv, NoAssert
    <2> QED
      BY <2>3, <2>4, DataReload
  <1>2. CASE SetLastApplied(t)
    <2>1. /\ UNCHANGED <<role, indexToApply, log, decided, db, dbApplied,
                         mainTxn, client, asserts, elections, restarts>>
          /\ InLoop(t) /\ thread[t].step = "set" /\ NextLog(t)
          /\ lastApplied' = thread[t].idx
      BY <1>2 DEF SetLastApplied, InLoop, dbVars, bounds
    <2>2. /\ LoopMoves(t)
          /\ thread'[t].step \in {"wait", "check"}
          /\ thread'[t].step = "check" => thread'[t].idx = thread[t].idx + 1
          /\ thread'[t].step = "wait" => thread[t].idx >= thread[t].last
          /\ \A u \in Thread : u # t => thread'[u] = thread[u]
      BY <2>1, NextLogMoves DEF LoopMoves
    <2>a. /\ \A u \in Thread : u # t => thread[u].step = "wait"
          /\ client.step # "commit"
          /\ t = "apply" => role # "leader"
          /\ t \in {"apply", "vote"} /\ "apply" \in Thread /\ "vote" \in Thread
      BY <2>1, OnlyOne, ThreadRecords DEF Thread
    <2>b. /\ lastApplied \in Nat /\ thread[t].idx \in Nat /\ thread[t].last \in Nat
          /\ Len(log) \in Nat /\ dbApplied \in Nat
          /\ thread[t].idx = lastApplied + 1
      BY <2>1 DEF StructInv, TypeOK, DataInv, NoneAhead
    <2>3. LogFits' /\ NoAssert'
      BY <2>1 DEF DataInv, LogFits, NoAssert
    <2>4. OneApplies' /\ NoneAhead'
      <3>1. CASE t = "apply"
        BY <2>1, <2>2, <2>a, <2>b, <3>1 DEF DataInv, OneApplies, NoneAhead, InLoop
      <3>2. CASE t = "vote"
        BY <2>1, <2>2, <2>a, <2>b, <3>2 DEF DataInv, OneApplies, NoneAhead, InLoop
      <3> QED
        BY <2>a, <3>1, <3>2
    <2>5. InDatabase(lastApplied)'
      <3>1. InDatabase(thread[t].idx)
        BY <2>1 DEF DataInv, DatabaseOK
      <3> QED
        BY <2>1, <3>1 DEF InDatabase
    <2>6. DatabaseOK'
      <3>1. \A u \in Thread : thread'[u].step # "set"
        BY <2>2, <2>a
      <3>2. dbApplied <= thread[t].idx
        BY <2>1, <2>a, <2>b DEF DataInv, DatabaseOK
      <3> QED
        BY <2>1, <2>5, <2>a, <3>1, <3>2 DEF DataInv, DatabaseOK
    <2>7. LeaderOK'
      <3>1. CASE role # "leader"
        BY <2>1, <3>1 DEF LeaderOK
      <3>2. CASE role = "leader" /\ t = "vote"
        <4>1. /\ thread["vote"].last = Len(log) - 1 /\ log[Len(log)] = Noop
              /\ client.step = "idle"
          BY <2>1, <3>2 DEF DataInv, LeaderOK, StructInv, MainTxnOK
        <4>2. CASE thread'[t].step = "wait"
          <5>1. StructInv'
            BY <1>2, StructSet
          <5>2. lastApplied' >= Len(log') - 1 /\ log'[Len(log')] = Noop /\ role' = "leader"
            BY <2>1, <2>2, <2>b, <3>2, <4>1, <4>2
          <5>3. InDatabase(Len(log))'
            <6>1. Len(log) \in Nat /\ DOMAIN log' = 1..Len(log)
              BY <2>1 DEF StructInv, TypeOK
            <6>2. lastApplied' \in Nat
              BY <2>1, <2>b
            <6> QED
              BY <2>1, <2>5, <5>2, <6>1, <6>2 DEF InDatabase
          <5> QED
            BY <2>1, <3>2, <4>1, <4>2, <5>3 DEF LeaderOK
        <4>3. CASE thread'[t].step # "wait"
          <5>1. thread'["vote"].last = thread["vote"].last
            BY <2>2, <3>2, <4>3 DEF LoopMoves
          <5> QED
            BY <2>1, <3>2, <4>1, <4>3, <5>1 DEF LeaderOK
        <4> QED
          BY <4>2, <4>3
      <3> QED
        BY <2>a, <3>1, <3>2
    <2> QED
      BY <2>3, <2>4, <2>6, <2>7 DEF DataInv
  <1> QED
    BY <1>1, <1>2

\* The apply thread takes up the logs to apply, from lastApplied on.
LEMMA DataWake ==
    ASSUME StructInv, DataInv, Wake \/ Start
    PROVE  DataInv'
  <1>a. /\ thread \in [Thread -> ThreadRec] /\ "apply" \in Thread /\ "vote" \in Thread
        /\ "apply" # "vote" /\ lastApplied \in Nat /\ lastApplied + 1 \in Nat
        /\ thread["apply"].last \in Nat
    BY ThreadRecords DEF StructInv, TypeOK, ThreadRec
  <1>b. thread["vote"].step = "wait" /\ client.step # "commit" /\ role # "leader"
    BY <1>a, OnlyOne DEF Wake, Start
  <1>1. /\ UNCHANGED <<role, lastApplied, log, db, dbApplied, client, asserts>>
        /\ thread'["vote"].step = "wait"
        /\ thread'["apply"].step \in {"wait", "start", "check"}
        /\ thread'["apply"].step = "check" => thread'["apply"].idx = lastApplied + 1
    <2>1. CASE Wake
      BY <2>1, <1>a, <1>b DEF Wake, NotApplying, raftVars, dbVars, bounds
    <2>2. CASE Start
      <3>1. /\ GoOn("apply", lastApplied + 1, thread["apply"].last)
            /\ UNCHANGED <<role, lastApplied, log, db, dbApplied, client, asserts>>
        BY <2>2 DEF Start, dbVars
      <3> QED
        BY <1>a, <1>b, <3>1, GoOnProperties
    <2> QED
      BY <2>1, <2>2
  <1>2. LogFits' /\ NoAssert' /\ LeaderOK'
    BY <1>1, <1>b DEF DataInv, LogFits, NoAssert, LeaderOK
  <1>3. OneApplies' /\ NoneAhead'
    BY <1>1, <1>a, <1>b DEF OneApplies, NoneAhead, InLoop, Thread
  <1>4. DatabaseOK'
    <2>1. thread["apply"].step # "set" /\ \A t \in Thread : thread'[t].step # "set"
      BY <1>1 DEF Wake, Start, Thread
    <2>2. dbApplied <= lastApplied
      BY <1>b, <2>1 DEF DataInv, DatabaseOK, Thread
    <2>3. InDatabase(lastApplied)'
      BY <1>1, <1>b DEF DataInv, DatabaseOK, InDatabase
    <2> QED
      BY <1>1, <1>b, <2>1, <2>2, <2>3 DEF DataInv, DatabaseOK
  <1> QED
    BY <1>2, <1>3, <1>4 DEF DataInv

\* The role of the server changes while the apply thread rests, or the server becomes
\* a candidate.
LEMMA DataRole ==
    ASSUME ~SlowApply, StructInv, DataInv, ElectionTimeout \/ StepDown
    PROVE  DataInv'
  <1>1. /\ UNCHANGED <<lastApplied, log, db, dbApplied, thread, client, asserts>>
        /\ role' = "candidate" \/ (role' = "follower" /\ thread["apply"].step = "wait")
    BY DEF ElectionTimeout, StepDown, dbVars, bounds, ApplyThreadWaits
  <1>2. LogFits' /\ NoAssert' /\ LeaderOK'
    BY <1>1 DEF DataInv, LogFits, NoAssert, LeaderOK
  <1>3. OneApplies' /\ NoneAhead'
    BY <1>1 DEF DataInv, OneApplies, NoneAhead, InLoop
  <1>4. DatabaseOK'
    BY <1>1 DEF DataInv, DatabaseOK, InDatabase
  <1> QED
    BY <1>2, <1>3, <1>4 DEF DataInv

\* Logs that are added to the log leave what the first ones make, and fit.
LEMMA LogFitsGrows ==
    ASSUME StructInv, LogFits, NEW x, log' = Append(log, x), x \in LogRec,
           Fits(x, Content(log, Len(log)))
    PROVE  /\ LogFits'
           /\ \A n \in 0..Len(log) : Content(log', n) = Content(log, n)
  <1>a. log \in Seq(LogRec) /\ Len(log) \in Nat
    BY DEF StructInv, TypeOK, LogRec
  <1>1. /\ Len(log') = Len(log) + 1
        /\ \A i \in 1..Len(log) : log'[i] = log[i]
        /\ log'[Len(log) + 1] = x
    BY <1>a, LogGrows
  <1>2. ASSUME NEW n \in 0..Len(log) PROVE Content(log', n) = Content(log, n)
    <2>1. n \in Nat /\ \A i \in 1..n : log'[i] = log[i]
      BY <1>a, <1>1
    <2> QED
      BY <2>1, ContentAgree
  <1>3. ASSUME NEW i \in 1..Len(log') PROVE Fits(log'[i], Content(log', i - 1))
    <2>1. i - 1 \in 0..Len(log)
      BY <1>a, <1>1
    <2>2. CASE i = Len(log) + 1
      BY <1>1, <1>2, <2>1, <2>2, <1>a
    <2>3. CASE i # Len(log) + 1
      <3>1. i \in 1..Len(log)
        BY <1>a, <1>1, <2>3
      <3> QED
        BY <1>1, <1>2, <2>1, <3>1 DEF LogFits
    <2> QED
      BY <2>2, <2>3
  <1> QED
    BY <1>2, <1>3 DEF LogFits

\* The server becomes the leader.
LEMMA DataElected ==
    ASSUME ~SlowApply, StructInv, DataInv, Elected
    PROVE  DataInv'
  <1>a. /\ thread \in [Thread -> ThreadRec] /\ "apply" \in Thread /\ "vote" \in Thread
        /\ "apply" # "vote" /\ log \in Seq(LogRec) /\ Noop \in LogRec
        /\ lastApplied \in 1..Len(log) /\ dbApplied \in 1..Len(log) /\ Len(log) \in Nat
    BY ThreadRecords DEF StructInv, TypeOK, ThreadRec, LogRec
  <1>1. /\ UNCHANGED <<lastApplied, db, dbApplied, client, asserts>>
        /\ role' = "leader" /\ log' = Append(log, Noop)
        /\ thread' = [thread EXCEPT !["vote"] =
                        [step |-> "consensus", idx |-> lastApplied + 1, last |-> Len(log)]]
        /\ mainTxn = "none" /\ thread["apply"].step = "wait" /\ thread["vote"].step = "wait"
    BY DEF Elected, dbVars, ApplyThreadWaits, RpcReplyMutexFree
  <1>2. client.step = "idle"
    BY <1>1 DEF StructInv, MainTxnOK, TypeOK
  <1>3. /\ thread'["apply"].step = "wait" /\ thread'["vote"].step = "consensus"
        /\ thread'["vote"].idx = lastApplied + 1 /\ thread'["vote"].last = Len(log)
    BY <1>a, <1>1
  <1>4. /\ Len(log') = Len(log) + 1 /\ log'[Len(log')] = Noop
        /\ \A i \in 1..Len(log) : log'[i] = log[i]
        /\ log' \in Seq(LogRec)
    BY <1>a, <1>1, LogGrows
  <1>5. LogFits' /\ \A n \in 0..Len(log) : Content(log', n) = Content(log, n)
    <2>1. Fits(Noop, Content(log, Len(log)))
      BY DEF Fits, Noop
    <2> QED
      BY <1>1, <1>a, <2>1, LogFitsGrows DEF DataInv
  <1>6. OneApplies' /\ NoneAhead' /\ NoAssert'
    BY <1>1, <1>3, <1>a DEF DataInv, OneApplies, NoneAhead, InLoop, Thread, NoAssert
  <1>7. InDatabase(lastApplied)'
    <2>1. InDatabase(lastApplied) /\ DOMAIN log = 1..Len(log) /\ DOMAIN log' = 1..Len(log')
      BY <1>2, <1>4, <1>a DEF DataInv, DatabaseOK
    <2>2. ASSUME NEW i \in 1..Len(log'), dbApplied < i, i <= lastApplied PROVE log'[i] = Noop
      <3>1. i \in 1..Len(log)
        BY <1>a, <1>4, <2>2
      <3> QED
        BY <1>4, <2>1, <2>2, <3>1 DEF InDatabase
    <2> QED
      BY <1>1, <2>1, <2>2 DEF InDatabase
  <1>8. DatabaseOK'
    <2>1. dbApplied <= lastApplied
      BY <1>1 DEF DataInv, DatabaseOK, Thread
    <2>2. db = Content(log', dbApplied)
      BY <1>5, <1>a DEF DataInv, DatabaseOK
    <2>3. \A t \in Thread : thread'[t].step # "set"
      BY <1>3 DEF Thread
    <2> QED
      BY <1>1, <1>2, <1>7, <2>1, <2>2, <2>3 DEF DatabaseOK
  <1>9. LeaderOK'
    BY <1>1, <1>2, <1>3, <1>4, <1>a DEF LeaderOK
  <1> QED
    BY <1>5, <1>6, <1>8, <1>9 DEF DataInv

\* The wait for consensus on the no-op log ends.
LEMMA DataVote ==
    ASSUME StructInv, DataInv, VoteConsensus \/ VoteFail
    PROVE  DataInv'
  <1>a. /\ thread \in [Thread -> ThreadRec] /\ "apply" \in Thread /\ "vote" \in Thread
        /\ "apply" # "vote" /\ lastApplied \in Nat /\ Len(log) \in Nat
        /\ thread["vote"].idx \in Nat /\ thread["vote"].last \in Nat
        /\ thread["vote"].step = "consensus"
    BY ThreadRecords DEF StructInv, TypeOK, ThreadRec, VoteConsensus, VoteFail
  <1>b. thread["apply"].step = "wait" /\ client.step = "idle"
    BY <1>a, OnlyOne DEF StructInv, MainTxnOK
  <1>1. /\ UNCHANGED <<lastApplied, log, db, dbApplied, client, asserts>>
        /\ thread'["apply"] = thread["apply"]
        /\ \/ role' = "follower" /\ thread'["vote"].step = "wait"
           \/ /\ role' = role /\ role = "leader" /\ thread'["vote"].step = "wait"
              /\ thread["vote"].idx > thread["vote"].last
           \/ /\ role' = role /\ role = "leader" /\ thread'["vote"].step = "check"
              /\ thread'["vote"].idx = thread["vote"].idx
              /\ thread'["vote"].last = thread["vote"].last
    <2>1. CASE VoteConsensus
      <3>1. /\ GoOn("vote", thread["vote"].idx, thread["vote"].last)
            /\ role = "leader"
            /\ UNCHANGED <<role, lastApplied, log, db, dbApplied, client, asserts>>
        BY <2>1 DEF VoteConsensus, AppliedWhenDecided, dbVars
      <3> QED
        BY <1>a, <3>1, GoOnProperties
    <2>2. CASE VoteFail
      BY <2>2, <1>a DEF VoteFail, NotApplying, dbVars
    <2> QED
      BY <2>1, <2>2
  <1>2. LogFits' /\ NoAssert' /\ OneApplies'
    BY <1>1, <1>b DEF DataInv, LogFits, NoAssert, OneApplies
  <1>3. NoneAhead'
    BY <1>1, <1>a, <1>b DEF DataInv, NoneAhead, InLoop, Thread
  <1>4. DatabaseOK'
    <2>1. \A t \in Thread : thread[t].step # "set" /\ thread'[t].step # "set"
      BY <1>1, <1>a, <1>b DEF Thread
    <2>2. InDatabase(lastApplied)'
      BY <1>1, <1>b DEF DataInv, DatabaseOK, InDatabase
    <2> QED
      BY <1>1, <1>b, <2>1, <2>2 DEF DataInv, DatabaseOK
  <1>5. LeaderOK'
    <2>1. CASE role' = "follower"
      BY <2>1 DEF LeaderOK
    <2>2. CASE role' = role /\ role = "leader" /\ thread'["vote"].step = "wait"
               /\ thread["vote"].idx > thread["vote"].last
      <3>1. /\ thread["vote"].last = Len(log) - 1 /\ log[Len(log)] = Noop
            /\ InDatabase(lastApplied) /\ thread["vote"].idx <= lastApplied + 1
        BY <1>a, <1>b, <2>2 DEF DataInv, LeaderOK, DatabaseOK, NoneAhead
      <3>2. InDatabase(Len(log))
        BY <1>a, <2>2, <3>1, VoteThreadDone
      <3>3. InDatabase(Len(log))'
        BY <1>1, <3>2 DEF InDatabase
      <3> QED
        BY <1>1, <1>b, <2>2, <3>3 DEF LeaderOK
    <2>3. CASE role' = role /\ role = "leader" /\ thread'["vote"].step = "check"
               /\ thread'["vote"].last = thread["vote"].last
      BY <1>1, <1>a, <1>b, <2>3 DEF DataInv, LeaderOK
    <2> QED
      BY <1>1, <2>1, <2>2, <2>3
  <1> QED
    BY <1>2, <1>3, <1>4, <1>5 DEF DataInv

\* A handler of a call replaces no committed log, and what it adds fits.
LEMMA DataAppend ==
    ASSUME ~SlowApply, StructInv, DataInv,
           NEW pre \in 1..Len(log), NEW leaderCommit \in Nat \ {0},
           NEW entries \in Seq(LogRec), Len(entries) <= 1,
           AppendEntries(pre, entries, leaderCommit)
    PROVE  DataInv'
  <1>a. /\ lastApplied \in Nat /\ dbApplied \in Nat /\ Len(entries) \in Nat
        /\ decided \in Nat /\ lastApplied <= decided /\ dbApplied <= decided
        /\ log \in Seq(LogRec) /\ DOMAIN log = 1..Len(log) /\ Len(log) \in Nat
        /\ "apply" \in Thread /\ "vote" \in Thread
    BY ThreadRecords DEF StructInv, TypeOK, BoundsOK, LogRec
  <1>1. /\ log' \in Seq(LogRec)
        /\ Len(log') = pre + Len(entries) /\ Len(log') \in Nat
        /\ decided <= pre
        /\ \A i \in 1..pre : log'[i] = log[i]
        /\ \A i \in 1..Len(entries) : log'[pre + i] = entries[i]
    BY AppendProperty
  <1>2. /\ thread["vote"].step = "wait" /\ thread'["vote"] = thread["vote"]
        /\ thread'["apply"].idx = thread["apply"].idx
        /\ \/ thread'["apply"].step = thread["apply"].step
           \/ thread["apply"].step = "wait" /\ thread'["apply"].step = "woken"
        /\ role # "leader" /\ role' = "follower" /\ client.step # "commit"
        /\ UNCHANGED <<lastApplied, db, dbApplied, client, asserts>>
    BY AppendProperty
  <1>3. role = "follower" \/ thread["apply"].step = "wait"
    BY <1>2 DEF AppendEntries, ApplyThreadWaits, StructInv, TypeOK
  <1>4. ASSUME NEW n \in 0..pre PROVE Content(log', n) = Content(log, n)
    <2>1. n \in Nat /\ \A i \in 1..n : log'[i] = log[i]
      BY <1>1
    <2> QED
      BY <2>1, ContentAgree
  <1>5. ASSUME NEW n \in 0..pre, InDatabase(n)
        PROVE  \A i \in DOMAIN log' : dbApplied' < i /\ i <= n => log'[i] = Noop
    <2>1. DOMAIN log' = 1..Len(log') /\ dbApplied' = dbApplied
      BY <1>1, <1>2
    <2>2. ASSUME NEW i \in 1..Len(log'), dbApplied < i, i <= n PROVE log'[i] = Noop
      <3>1. i \in 1..pre /\ i \in 1..Len(log)
        BY <1>a, <2>2
      <3> QED
        BY <1>1, <1>a, <1>5, <2>2, <3>1 DEF InDatabase
    <2> QED
      BY <2>1, <2>2
  <1>6. LogFits'
    <2> SUFFICES ASSUME NEW i \in 1..Len(log') PROVE Fits(log'[i], Content(log', i - 1))
      BY DEF LogFits
    <2>1. CASE i <= pre
      <3>1. i \in 1..Len(log) /\ i - 1 \in 0..pre /\ i \in 1..pre
        BY <1>1, <1>a, <2>1
      <3> QED
        BY <1>1, <1>4, <3>1 DEF DataInv, LogFits
    <2>2. CASE i > pre
      <3>1. i = pre + 1 /\ 1 \in 1..Len(entries) /\ log'[i] = entries[1]
        BY <1>1, <1>a, <2>2
      <3>2. Fits(entries[1], Content(SubSeq(log, 1, pre), pre))
        BY <3>1 DEF AppendEntries
      <3>3. \A j \in 1..pre : SubSeq(log, 1, pre)[j] = log[j]
        <4>1. \A j \in 1..pre : log[j] \in LogRec
          BY <1>a, ElementOfSeq
        <4> QED
          BY <4>1, SubSeqProperties
      <3>4. Content(SubSeq(log, 1, pre), pre) = Content(log, pre)
        <4>1. pre \in Nat
          BY <1>a
        <4> QED
          BY <3>3, <4>1, ContentAgree
      <3>5. i - 1 = pre /\ pre \in 0..pre
        BY <3>1
      <3> QED
        BY <1>4, <3>1, <3>2, <3>4, <3>5
    <2> QED
      BY <1>1, <2>1, <2>2
  <1>7. OneApplies' /\ LeaderOK' /\ NoAssert'
    BY <1>2 DEF DataInv, OneApplies, LeaderOK, NoAssert
  <1>8. NoneAhead'
    BY <1>2, <1>3 DEF DataInv, NoneAhead, InLoop, Thread
  <1>9. DatabaseOK'
    <2>1. db' = Content(log', dbApplied')
      BY <1>1, <1>2, <1>4, <1>a DEF DataInv, DatabaseOK
    <2>2. InDatabase(lastApplied)'
      <3>1. InDatabase(lastApplied) /\ lastApplied \in 0..pre
        BY <1>1, <1>2, <1>a DEF DataInv, DatabaseOK
      <3> QED
        BY <1>2, <1>5, <3>1 DEF InDatabase
    <2>3. \A t \in Thread : thread'[t].step = "set" => InDatabase(thread[t].idx)'
      <3> SUFFICES ASSUME NEW t \in Thread, thread'[t].step = "set"
                   PROVE  InDatabase(thread[t].idx)'
        OBVIOUS
      <3>1. /\ thread[t].step = "set" /\ thread'[t].idx = thread[t].idx
        BY <1>2 DEF Thread
      <3>2. /\ thread[t].idx \in Nat /\ thread[t].idx <= decided
        BY <3>1, <1>a DEF StructInv, TypeOK, ThreadsOK, InLoop
      <3>3. InDatabase(thread[t].idx) /\ thread[t].idx \in 0..pre
        BY <1>1, <1>a, <3>1, <3>2 DEF DataInv, DatabaseOK
      <3> QED
        BY <1>5, <3>1, <3>3 DEF InDatabase
    <2>4. \/ dbApplied' <= lastApplied'
          \/ \E t \in Thread : thread'[t].step = "set" /\ dbApplied' = thread'[t].idx
      BY <1>2 DEF DataInv, DatabaseOK, Thread
    <2> QED
      BY <1>2, <2>1, <2>2, <2>3, <2>4 DEF DatabaseOK
  <1> QED
    BY <1>6, <1>7, <1>8, <1>9 DEF DataInv

\* A client's write: its log fits, as the leader has applied all its logs.
LEMMA DataClientWrite ==
    ASSUME StructInv, DataInv, NEW x \in Write, ClientWrite(x)
    PROVE  DataInv'
  <1>a. /\ log \in Seq(LogRec) /\ x \in LogRec /\ Len(log) \in Nat
        /\ dbApplied \in 1..Len(log) /\ lastApplied \in 1..Len(log)
        /\ DOMAIN log = 1..Len(log) /\ "apply" \in Thread /\ "vote" \in Thread
    BY ThreadRecords DEF StructInv, TypeOK, LogRec
  <1>1. /\ UNCHANGED <<role, lastApplied, db, dbApplied, thread, asserts>>
        /\ role = "leader" /\ client.step = "idle" /\ ~disallowUpdates
        /\ log' = Append(log, x) /\ client'.step = "consensus"
        /\ Fits(x, db)
    BY DEF ClientWrite, ValidateOp, dbVars
  <1>2. /\ log' \in Seq(LogRec) /\ Len(log') = Len(log) + 1
        /\ \A i \in 1..Len(log) : log'[i] = log[i]
    BY <1>a, <1>1, LogGrows
  <1>3. thread["vote"].step = "wait" /\ thread["apply"].step = "wait"
    BY <1>1 DEF StructInv, ThreadsOK, DataInv, OneApplies
  <1>4. InDatabase(Len(log))
    BY <1>1, <1>3 DEF DataInv, LeaderOK
  <1>5. db = Content(log, Len(log))
    <2>1. \A i \in (dbApplied + 1)..Len(log) : log[i] = Noop
      BY <1>4, <1>a DEF InDatabase
    <2> QED
      BY <1>a, <2>1, ContentNoop DEF DataInv, DatabaseOK
  <1>6. LogFits' /\ \A n \in 0..Len(log) : Content(log', n) = Content(log, n)
    BY <1>1, <1>5, <1>a, LogFitsGrows DEF DataInv
  <1>7. ASSUME NEW n \in 0..Len(log)
        PROVE  \A i \in DOMAIN log' : dbApplied' < i /\ i <= n => log'[i] = Noop
    <2>1. DOMAIN log' = 1..Len(log')
      BY <1>2
    <2>2. ASSUME NEW i \in 1..Len(log'), dbApplied < i, i <= n PROVE log'[i] = Noop
      <3>1. i \in 1..Len(log)
        BY <1>a, <1>2, <2>2
      <3> QED
        BY <1>2, <1>4, <1>a, <2>2, <3>1 DEF InDatabase
    <2> QED
      BY <1>1, <2>1, <2>2
  <1>8. OneApplies' /\ NoneAhead' /\ NoAssert'
    BY <1>1, <1>3 DEF DataInv, OneApplies, NoneAhead, InLoop, Thread, NoAssert
  <1>9. DatabaseOK'
    <2>1. db' = Content(log', dbApplied')
      BY <1>1, <1>6, <1>a DEF DataInv, DatabaseOK
    <2>2. InDatabase(lastApplied)'
      BY <1>1, <1>7, <1>a DEF InDatabase
    <2>3. \A t \in Thread : thread[t].step # "set"
      BY <1>3 DEF Thread
    <2> QED
      BY <1>1, <2>1, <2>2, <2>3 DEF DataInv, DatabaseOK
  <1>10. LeaderOK'
    <2>1. dbApplied' < Len(log')
      BY <1>1, <1>2, <1>a
    <2>2. Len(log') - 1 = Len(log) /\ Len(log) \in 0..Len(log)
      BY <1>2, <1>a
    <2>3. InDatabase(Len(log) - 1)'
      BY <1>7, <2>2 DEF InDatabase
    <2> QED
      BY <1>1, <1>3, <2>1, <2>3 DEF LeaderOK
  <1> QED
    BY <1>6, <1>8, <1>9, <1>10 DEF DataInv

\* VmDirRaftPrepareCommit: consensus on a client's write, or none
LEMMA DataClientEnd ==
    ASSUME StructInv, DataInv, ClientConsensus \/ ClientAbort
    PROVE  DataInv'
  <1>a. /\ Len(log) \in Nat /\ lastApplied \in Nat /\ dbApplied \in Nat
        /\ client \in [step : {"idle", "consensus", "commit"}, idx : Nat]
        /\ client.step = "consensus" /\ "apply" \in Thread /\ "vote" \in Thread
    BY ThreadRecords DEF StructInv, TypeOK, ClientConsensus, ClientAbort
  <1>b. thread["vote"].step = "wait" /\ (role = "leader" => thread["apply"].step = "wait")
    BY <1>a DEF StructInv, MainTxnOK, DataInv, OneApplies
  <1>1. CASE ClientConsensus
    <2>1. client.idx = Len(log) /\ log[client.idx] \in Write /\ log[client.idx] # Noop
      <3>1. client.idx = Len(log) /\ log[client.idx] \in Write
        BY <1>1 DEF ClientConsensus, StructInv, ClientOK
      <3> QED
        BY <3>1 DEF Write, Noop
    <2>2. /\ UNCHANGED <<role, log, db, dbApplied, thread, asserts>>
          /\ role = "leader"
          /\ lastApplied' = Len(log)
          /\ client'.step = "commit"
      BY <1>1, <1>a, <2>1 DEF ClientConsensus, AppliedWhenDecided, dbVars
    <2>3. dbApplied < Len(log) /\ InDatabase(Len(log) - 1)
      BY <1>a, <2>2 DEF DataInv, LeaderOK
    <2>4. LogFits' /\ NoAssert' /\ OneApplies' /\ LeaderOK'
      BY <1>b, <2>2 DEF DataInv, LogFits, NoAssert, OneApplies, LeaderOK
    <2>5. NoneAhead'
      BY <1>b, <2>2 DEF NoneAhead, InLoop, Thread
    <2>6. DatabaseOK'
      <3>1. InDatabase(lastApplied - 1)'
        BY <2>2, <2>3 DEF InDatabase
      <3>2. \A t \in Thread : thread'[t].step # "set"
        BY <1>b, <2>2 DEF Thread
      <3> QED
        BY <1>a, <2>2, <2>3, <3>1, <3>2 DEF DataInv, DatabaseOK
    <2> QED
      BY <2>4, <2>5, <2>6 DEF DataInv
  <1>2. CASE ClientAbort
    <2>1. /\ UNCHANGED <<lastApplied, log, db, dbApplied, thread, asserts>>
          /\ role' # "leader" /\ (role' # role => role = "leader")
          /\ client'.step = "idle"
      BY <1>2 DEF ClientAbort, NoClient, dbVars
    <2>2. LogFits' /\ NoAssert' /\ OneApplies' /\ LeaderOK'
      BY <1>b, <2>1 DEF DataInv, LogFits, NoAssert, OneApplies, LeaderOK
    <2>3. NoneAhead'
      BY <1>b, <2>1 DEF DataInv, NoneAhead, InLoop
    <2>4. DatabaseOK'
      BY <1>a, <2>1 DEF DataInv, DatabaseOK, InDatabase
    <2> QED
      BY <2>2, <2>3, <2>4 DEF DataInv
  <1> QED
    BY <1>1, <1>2

\* MDB commits a client's write.
LEMMA DataCommit ==
    ASSUME StructInv, DataInv, ClientCommit(TRUE)
    PROVE  DataInv'
  <1>a. /\ Len(log) \in Nat /\ client.idx = Len(log) /\ log[Len(log)] \in Write
        /\ lastApplied = Len(log) /\ role = "leader" /\ client.step = "commit"
        /\ dbApplied \in Nat /\ DOMAIN log = 1..Len(log)
    BY DEF ClientCommit, StructInv, TypeOK, ClientOK
  <1>b. thread["vote"].step = "wait" /\ thread["apply"].step = "wait"
    BY <1>a DEF StructInv, MainTxnOK, DataInv, OneApplies
  <1>1. /\ UNCHANGED <<role, lastApplied, log, thread, asserts>>
        /\ db' = Written(db, log[Len(log)], Len(log)) /\ dbApplied' = Len(log)
        /\ client'.step = "idle"
    BY <1>a DEF ClientCommit, NoClient, AppliedOnDisk
  <1>2. db' = Content(log, Len(log))
    <2>1. dbApplied < Len(log) /\ InDatabase(Len(log) - 1) /\ db = Content(log, dbApplied)
      BY <1>a DEF DataInv, DatabaseOK
    <2>2. \A j \in (dbApplied + 1)..(Len(log) - 1) : log[j] = Noop
      BY <1>a, <2>1 DEF InDatabase
    <2> QED
      BY <1>a, <1>1, <2>1, <2>2, ContentWritten
  <1>3. InDatabase(Len(log))'
    BY <1>1, <1>a DEF InDatabase
  <1>4. LogFits' /\ NoAssert' /\ OneApplies' /\ NoneAhead'
    BY <1>1, <1>b DEF DataInv, LogFits, NoAssert, OneApplies, NoneAhead, InLoop, Thread
  <1>5. DatabaseOK'
    <2>1. \A t \in Thread : thread'[t].step # "set"
      BY <1>b, <1>1 DEF Thread
    <2>2. InDatabase(lastApplied)'
      BY <1>1, <1>3, <1>a DEF InDatabase
    <2> QED
      BY <1>1, <1>2, <1>a, <2>1, <2>2 DEF DatabaseOK
  <1>6. LeaderOK'
    BY <1>1, <1>3, <1>b DEF LeaderOK
  <1> QED
    BY <1>4, <1>5, <1>6 DEF DataInv

\* Every step keeps the invariant of the database, when the apply thread is not
\* overtaken and the disk has room.
LEMMA DataStep ==
    ASSUME ~SlowApply, CommitOutcome = {TRUE}
    PROVE  StructInv /\ DataInv /\ [Next]_vars => DataInv'
  <1> SUFFICES ASSUME StructInv, DataInv, [Next]_vars PROVE DataInv'
    OBVIOUS
  <1>1. CASE UNCHANGED vars
    BY <1>1 DEF vars, raftVars, dbVars, bounds, DataInv, LogFits, OneApplies, NoneAhead,
       InLoop, DatabaseOK, InDatabase, LeaderOK, NoAssert
  <1>2. ASSUME NEW pre \in 1..Len(log), NEW leaderCommit \in 1..MaxIndex,
               \/ AppendEntries(pre, <<>>, leaderCommit)
               \/ \E x \in Write \cup {Noop} : AppendEntries(pre, <<x>>, leaderCommit)
        PROVE  DataInv'
    <2>1. leaderCommit \in Nat \ {0}
      BY BoundAssumption
    <2>2. /\ <<>> \in Seq(LogRec) /\ Len(<<>>) <= 1
          /\ \A x \in Write \cup {Noop} : <<x>> \in Seq(LogRec) /\ Len(<<x>>) <= 1
      BY DEF LogRec
    <2> QED
      BY <1>2, <2>1, <2>2, DataAppend
  <1>3. CASE \E t \in Thread : ApplyStep(t) \/ ApplyFails(t)
    BY <1>3, DataCheck, DataApply, DataSet DEF ApplyStep
  <1>4. CASE \E ok \in CommitOutcome : ClientCommit(ok)
    BY <1>4, DataCommit
  <1>5. CASE Restart
    <2>1. Reload /\ asserts' = FALSE
      BY <1>5 DEF Restart, DataInv, NoAssert, StructInv, TypeOK
    <2> QED
      BY <2>1, DataReload
  <1> QED
    BY <1>1, <1>2, <1>3, <1>4, <1>5, DataWake, DataRole, DataElected, DataVote,
       DataClientWrite, DataClientEnd DEF Next

\* The two invariants hold in every reachable state.
THEOREM InvariantHolds ==
    ASSUME ~SlowApply, CommitOutcome = {TRUE}
    PROVE  Spec => [](StructInv /\ DataInv)
  <1>1. StructInv /\ DataInv /\ [Next]_vars => StructInv' /\ DataInv'
    BY StructStep, DataStep
  <1> QED
    BY <1>1, StructInit, DataInit, PTL DEF Spec

\* The database on disk is at any time the one that the committed logs up to
\* ATTR_RAFT_LAST_APPLIED make, whichever of the three writers of the main database
\* ran and whenever the server crashed.  It takes that the role does not change and
\* change back while the apply thread works (CheckLog would skip a log), and that
\* MDB does not fail a client's write that has consensus.
THEOREM DatabaseFollowsLog ==
    ASSUME ~SlowApply, CommitOutcome = {TRUE}
    PROVE  Spec => []DatabaseIsLog
  <1>1. StructInv /\ DataInv => DatabaseIsLog
    BY DEF StructInv, BoundsOK, DataInv, DatabaseOK, DatabaseIsLog
  <1> QED
    BY <1>1, InvariantHolds, PTL

\* lastApplied claims no write that is not in the database, but for the one whose
\* transaction VmDirRaftPrepareCommit has let through and MDB is about to commit.
THEOREM LastAppliedTrue ==
    ASSUME ~SlowApply, CommitOutcome = {TRUE}
    PROVE  Spec => []LastAppliedIsTrue
  <1>1. StructInv /\ DataInv => LastAppliedIsTrue
    BY DEF DataInv, DatabaseOK, LastAppliedIsTrue
  <1> QED
    BY <1>1, InvariantHolds, PTL

\* The assert(0) of _VmDirApplyLog never meets a log that does not fit the database.
THEOREM AssertNeverFails ==
    ASSUME ~SlowApply, CommitOutcome = {TRUE}
    PROVE  Spec => []NoAssert
  <1>1. StructInv /\ DataInv => NoAssert
    BY DEF DataInv
  <1> QED
    BY <1>1, InvariantHolds, PTL
=============================================================================
