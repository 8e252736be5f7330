----------------------------- MODULE RaftApply -----------------------------
(***************************************************************************)
(* How one lwraft server turns its log into its database                   *)
(* (lwraft/server/replication/thread.c, raftldaprpc.c, replentry.c).       *)
(*                                                                         *)
(* Three threads write the main database: the apply thread                 *)
(* (_VmDirRaftLogApplyThread) while the server is a follower, the vote     *)
(* thread (_VmDirEvaluateVoteResult) when it has become the leader, and a  *)
(* client's write (VmDirRaftPrepareCommit) while it is the leader.  All    *)
(* three move lastApplied, in memory, and ATTR_RAFT_LAST_APPLIED, on disk  *)
(* and in the transaction of the change itself.                            *)
(*                                                                         *)
(* An action is one critical section of gRaftStateMutex, or one            *)
(* transaction of the main database.  The cluster is what RaftReplication  *)
(* shows it to be: no call deletes a log that is decided, and a server     *)
(* that lacks one is not elected.                                          *)
(***************************************************************************)
EXTENDS Naturals, Sequences, FiniteSetsExt

CONSTANTS
    Entry,          \* the entries of the directory
    None,
    SlowApply,      \* may the role of the server change and change back, or an
                    \* election be won, before the apply thread notices?
    CommitOutcome,  \* {TRUE}, or BOOLEAN if the disk may be full
    MaxIndex,       \* bound: logs
    MaxElection,    \* bound: election timeouts, here or elsewhere
    MaxRestart      \* bound: crashes

ASSUME EntryAssumption == None \notin Entry
ASSUME BoundAssumption ==
    /\ SlowApply \in BOOLEAN
    /\ TRUE \in CommitOutcome /\ CommitOutcome \subseteq BOOLEAN
    /\ MaxIndex \in Nat \ {0} /\ MaxElection \in Nat /\ MaxRestart \in Nat

Noop  == [op |-> "noop", entry |-> None]      \* RAFT_NOOP
Write == [op : {"add", "modify", "delete"}, entry : Entry]

\* The threads that call _VmDirApplyLog; at "wait" a thread does something else.
Thread == {"apply", "vote"}
Step == {"wait", "woken", "start", "consensus", "check", "txn", "failed", "set"}

VARIABLES
    role, indexToApply, lastApplied, disallowUpdates,   \* gRaftState
    log,            \* the log database
    decided,        \* history: so many logs are known to be committed
    db,             \* db[e]: the index of the log that wrote entry e, 0 if there is none
    dbApplied,      \* ATTR_RAFT_LAST_APPLIED
    mainTxn,        \* who keeps the write transaction of the main database
    thread,         \* logIdx and the last log of the loop of each thread
    client,         \* the write of a client, with its log index
    asserts,        \* history: has assert(0) met a log that does not fit the database?
    elections, restarts     \* bounds

dbVars   == <<db, dbApplied>>
raftVars == <<role, indexToApply, lastApplied, disallowUpdates, log, decided>>
bounds   == <<elections, restarts>>
vars == <<raftVars, dbVars, mainTxn, thread, client, asserts, bounds>>

NotApplying == [step |-> "wait", idx |-> 0, last |-> 0]
NoClient == [step |-> "idle", idx |-> 0]

TypeOK ==
    /\ role \in {"follower", "candidate", "leader"}
    /\ indexToApply \in 0..Len(log)
    /\ lastApplied \in 1..Len(log)
    /\ disallowUpdates \in BOOLEAN
    /\ log \in Seq(Write \cup {Noop})
    /\ decided \in 1..Len(log)
    /\ db \in [Entry -> 0..Len(log)]
    /\ dbApplied \in 1..Len(log)
    /\ mainTxn \in {"none", "vote", "client"}
    /\ thread \in [Thread -> [step : Step, idx : Nat, last : Nat]]
    /\ client \in [step : {"idle", "consensus", "commit"}, idx : Nat]
    /\ asserts \in BOOLEAN
    /\ elections \in Nat
    /\ restarts \in Nat

\* A server that has been set up: one log, applied.
Init ==
    /\ role = "follower"
    /\ indexToApply = 0
    /\ lastApplied = 1
    /\ disallowUpdates = FALSE
    /\ log = <<Noop>>
    /\ decided = 1
    /\ db = [e \in Entry |-> 0]
    /\ dbApplied = 1
    /\ mainTxn = "none"
    /\ thread = [t \in Thread |-> NotApplying]
    /\ client = NoClient
    /\ asserts = FALSE
    /\ elections = 0
    /\ restarts = 0

-----------------------------------------------------------------------------

\* The database that the first n logs of l make.
Content(l, n) ==
    [e \in Entry |->
       LET written == {i \in 1..n : l[i].entry = e}
       IN IF written = {} \/ l[Max(written)].op = "delete" THEN 0 ELSE Max(written)]

\* An entry is added where there is none, and changed or deleted where there is one.
Fits(x, d) == x.op # "noop" => (x.op = "add") = (d[x.entry] = 0)

\* The database after log x, whose index is i.
Written(d, x, i) == [d EXCEPT ![x.entry] = IF x.op = "delete" THEN 0 ELSE i]

\* VmDirRaftPrepareCommit returns, and MDB commits, with gRaftStateMutex locked.
StateMutexFree == client.step # "commit"

\* _VmDirEvaluateVoteResult keeps gRaftRpcReplyMutex.
RpcReplyMutexFree == thread["vote"].step = "wait"

ApplyThreadWaits == thread["apply"].step = "wait"

-----------------------------------------------------------------------------
(* _VmDirApplyLog, called by both threads in a loop *)

\* What the thread does after its loop: the vote thread allows updates again.
AfterLoop(t) == IF t = "vote" THEN FALSE ELSE disallowUpdates

\* The thread goes on to log i, if its loop is not over.
GoOn(t, i, last) ==
    IF i <= last
    THEN /\ thread' = [thread EXCEPT ![t] = [step |-> "check", idx |-> i, last |-> last]]
         /\ UNCHANGED disallowUpdates
    ELSE /\ thread' = [thread EXCEPT ![t] = NotApplying]
         /\ disallowUpdates' = AfterLoop(t)

NextLog(t) == GoOn(t, thread[t].idx + 1, thread[t].last)

GotoStep(t, step) == thread' = [thread EXCEPT ![t].step = step]

\* A log that has been applied is ignored.  The apply thread wants to be a
\* follower's: that it is not is an error, which is taken for "applied through other
\* thread" as no log has been read (logEntry.index is 0).
CheckLog(t) ==
    /\ thread[t].step = "check"
    /\ StateMutexFree
    /\ IF thread[t].idx <= lastApplied \/ (t = "apply" /\ role # "follower")
       THEN NextLog(t)
       ELSE GotoStep(t, "txn") /\ UNCHANGED disallowUpdates
    /\ UNCHANGED <<role, indexToApply, lastApplied, log, decided, dbVars, mainTxn, client,
                   asserts, bounds>>

\* Mutant of AppliedOnDisk: a transaction of its own, which is not made.
AppliedOnDiskNever(i) == dbApplied

\* ATTR_RAFT_LAST_APPLIED in the transaction of log i
AppliedOnDisk(i) == i

\* _VmDirApplyOneLogEntry and the commit.  A no-op log needs no transaction.
ApplyOneLogEntry(t) ==
    LET i == thread[t].idx
        x == log[i]
    IN /\ thread[t].step = "txn"
       /\ x # Noop => mainTxn = "none"
       /\ IF x # Noop /\ Fits(x, db)
          THEN db' = Written(db, x, i) /\ dbApplied' = AppliedOnDisk(i)
          ELSE UNCHANGED dbVars
       /\ GotoStep(t, IF Fits(x, db) THEN "set" ELSE "failed")
       /\ UNCHANGED <<raftVars, mainTxn, client, asserts, bounds>>

\* The transaction fails for a reason that goes away.
ApplyFails(t) ==
    /\ thread[t].step = "txn"
    /\ log[thread[t].idx] # Noop
    /\ restarts < MaxRestart
    /\ mainTxn = "none"
    /\ GotoStep(t, "failed")
    /\ UNCHANGED <<raftVars, dbVars, mainTxn, client, asserts, bounds>>

\* A crash, and VmDirLoadRaftState
Reload ==
    /\ role' = "follower"
    /\ indexToApply' = 0
    /\ lastApplied' = dbApplied
    /\ disallowUpdates' = FALSE
    /\ mainTxn' = "none"
    /\ thread' = [t \in Thread |-> NotApplying]
    /\ client' = NoClient
    /\ restarts' = IF restarts < MaxRestart THEN restarts + 1 ELSE restarts
    /\ UNCHANGED <<log, decided, dbVars, elections>>

\* The error path of _VmDirApplyLog, without the mutex: the log has been "applied
\* through other thread", or assert(0) ends the process.
LogFailed(t) ==
    /\ thread[t].step = "failed"
    /\ IF thread[t].idx <= lastApplied
       THEN /\ NextLog(t)
            /\ UNCHANGED <<role, indexToApply, lastApplied, log, decided, dbVars, mainTxn,
                           client, asserts, bounds>>
       ELSE /\ asserts' = (asserts \/ ~Fits(log[thread[t].idx], db))
            /\ Reload

SetLastApplied(t) ==
    /\ thread[t].step = "set"
    /\ StateMutexFree
    /\ lastApplied' = thread[t].idx
    /\ NextLog(t)
    /\ UNCHANGED <<role, indexToApply, log, decided, dbVars, mainTxn, client, asserts,
                   bounds>>

-----------------------------------------------------------------------------
(* The apply thread *)

\* Woken by gRaftNewLogCond, or going back to wait if the server is no follower.
Wake ==
    /\ thread["apply"].step = "woken"
    /\ StateMutexFree
    /\ thread' = [thread EXCEPT !["apply"] =
                    IF role = "follower"
                    THEN [step |-> "start", idx |-> 0, last |-> indexToApply]
                    ELSE NotApplying]
    /\ UNCHANGED <<raftVars, dbVars, mainTxn, client, asserts, bounds>>

\* _VmDirApplyLogsUpto
Start ==
    /\ thread["apply"].step = "start"
    /\ StateMutexFree
    /\ GoOn("apply", lastApplied + 1, thread["apply"].last)
    /\ UNCHANGED <<role, indexToApply, lastApplied, log, decided, dbVars, mainTxn, client,
                   asserts, bounds>>

-----------------------------------------------------------------------------
(* The role of the server *)

\* No ping has come for the election timeout.
ElectionTimeout ==
    /\ RpcReplyMutexFree /\ StateMutexFree
    /\ role = "follower"
    /\ elections < MaxElection
    /\ elections' = elections + 1
    /\ role' = "candidate"
    /\ UNCHANGED <<indexToApply, lastApplied, disallowUpdates, log, decided, dbVars,
                   mainTxn, thread, client, asserts, restarts>>

\* A proxy or a handler meets a higher term.
StepDown ==
    /\ role # "follower"
    /\ StateMutexFree
    /\ SlowApply \/ ApplyThreadWaits
    /\ role' = "follower"
    /\ UNCHANGED <<indexToApply, lastApplied, disallowUpdates, log, decided, dbVars,
                   mainTxn, thread, client, asserts, bounds>>

\* _VmDirEvaluateVoteResult, up to the wait for consensus on its no-op log
Elected ==
    /\ role = "candidate"
    /\ RpcReplyMutexFree /\ StateMutexFree
    /\ mainTxn = "none"
    /\ SlowApply \/ ApplyThreadWaits
    /\ Len(log) < MaxIndex
    /\ role' = "leader"
    /\ mainTxn' = "vote"
    /\ disallowUpdates' = TRUE
    /\ log' = Append(log, Noop)
    /\ thread' = [thread EXCEPT !["vote"] =
                    [step |-> "consensus", idx |-> lastApplied + 1, last |-> Len(log)]]
    /\ UNCHANGED <<indexToApply, lastApplied, decided, dbVars, client, asserts, bounds>>

\* Mutant of AppliedWhenDecided: the no-op log counts as applied.
AppliedWhenDecidedAny(x, i) == i

\* lastApplied when VmDirRaftPrepareCommit has consensus on log x, whose index is i.
\* The transaction of a write goes on to commit; a no-op log has none.
AppliedWhenDecided(x, i) == IF x = Noop THEN lastApplied ELSE i

\* The no-op log is committed, and with it the logs before it, which are applied.
VoteConsensus ==
    /\ thread["vote"].step = "consensus"
    /\ role = "leader"
    /\ decided' = Len(log)
    /\ lastApplied' = AppliedWhenDecided(Noop, Len(log))
    /\ mainTxn' = "none"
    /\ GoOn("vote", thread["vote"].idx, thread["vote"].last)
    /\ UNCHANGED <<role, indexToApply, log, dbVars, client, asserts, bounds>>

\* No consensus: the server is not the leader any more, or gives up.
VoteFail ==
    /\ thread["vote"].step = "consensus"
    /\ role' = "follower"
    /\ mainTxn' = "none"
    /\ disallowUpdates' = FALSE
    /\ thread' = [thread EXCEPT !["vote"] = NotApplying]
    /\ UNCHANGED <<indexToApply, lastApplied, log, decided, dbVars, client, asserts, bounds>>

-----------------------------------------------------------------------------
(* The follower *)

\* Mutant of FollowerCommit: what the leader says.
FollowerCommitLeader(leaderCommit, pre) == leaderCommit

\* VMDIR_MIN(leaderCommit, preLogIndex)
FollowerCommit(leaderCommit, pre) == IF leaderCommit < pre THEN leaderCommit ELSE pre

\* Mutant of Signalled: only a new log is worth a signal.
SignalledForLog(entries) == entries # <<>>

\* gRaftNewLogCond is signalled for a new log and for a ping.
Signalled(entries) == TRUE

\* Only a leader that is new knows of fewer commits than the last one, or of other
\* logs that are not committed.
NewLeader(pre, commit) == commit < decided \/ pre < Len(log)

\* _VmDirAppendEntriesGetReply, with a log or without (a ping).  The signal is lost
\* if the apply thread does not wait.
AppendEntries(pre, entries, leaderCommit) ==
    LET commit == FollowerCommit(leaderCommit, pre)
        kept == SubSeq(log, 1, pre)
    IN /\ role # "leader"
       /\ RpcReplyMutexFree /\ StateMutexFree
       /\ role = "candidate" => SlowApply \/ ApplyThreadWaits
       /\ pre >= decided
       /\ NewLeader(pre, commit) => elections < MaxElection
       /\ elections' = IF NewLeader(pre, commit) THEN elections + 1 ELSE elections
       /\ \A i \in 1..Len(entries) : Fits(entries[i], Content(kept, pre))
       /\ role' = "follower"
       /\ log' = kept \o entries
       /\ indexToApply' = commit
       /\ decided' = IF commit > decided THEN commit ELSE decided
       /\ thread' = [thread EXCEPT !["apply"].step =
                       IF @ = "wait" /\ Signalled(entries) THEN "woken" ELSE @]
       /\ UNCHANGED <<lastApplied, disallowUpdates, dbVars, mainTxn, client, asserts,
                      restarts>>

-----------------------------------------------------------------------------
(* A client's write *)

\* Mutant of ValidateOp: an operation is not refused during the transition.
ValidateOpNot == TRUE

\* VmDirValidateOp
ValidateOp == ~disallowUpdates

\* From the begin of the transaction to the wait for consensus; RaftReplication has
\* the steps in between.
ClientWrite(x) ==
    /\ client.step = "idle"
    /\ mainTxn = "none"
    /\ ValidateOp
    /\ role = "leader"
    /\ Len(log) < MaxIndex
    /\ Fits(x, db)
    /\ log' = Append(log, x)
    /\ mainTxn' = "client"
    /\ client' = [step |-> "consensus", idx |-> Len(log) + 1]
    /\ UNCHANGED <<role, indexToApply, lastApplied, disallowUpdates, decided, dbVars,
                   thread, asserts, bounds>>

\* VmDirRaftPrepareCommit has consensus, and keeps gRaftStateMutex.
ClientConsensus ==
    /\ client.step = "consensus"
    /\ role = "leader"
    /\ decided' = client.idx
    /\ lastApplied' = AppliedWhenDecided(log[client.idx], client.idx)
    /\ client' = [client EXCEPT !.step = "commit"]
    /\ UNCHANGED <<role, indexToApply, disallowUpdates, log, dbVars, mainTxn, thread,
                   asserts, bounds>>

\* VmDirRaftPrepareCommit: the server is not the leader any more, or gives up.  The
\* log stays, and may be committed yet.
ClientAbort ==
    /\ client.step = "consensus"
    /\ role' = IF role = "leader" THEN "follower" ELSE role
    /\ client' = NoClient
    /\ mainTxn' = "none"
    /\ UNCHANGED <<indexToApply, lastApplied, disallowUpdates, log, decided, dbVars,
                   thread, asserts, bounds>>

\* MDB commits the transaction (VmDirRaftPostCommit), or fails (VmDirRaftCommitFail).
ClientCommit(ok) ==
    /\ client.step = "commit"
    /\ IF ok
       THEN /\ db' = Written(db, log[client.idx], client.idx)
            /\ dbApplied' = AppliedOnDisk(client.idx)
            /\ UNCHANGED role
       ELSE /\ role' = "follower"
            /\ UNCHANGED dbVars
    /\ client' = NoClient
    /\ mainTxn' = "none"
    /\ UNCHANGED <<indexToApply, lastApplied, disallowUpdates, log, decided, thread,
                   asserts, bounds>>

-----------------------------------------------------------------------------

Restart ==
    /\ restarts < MaxRestart
    /\ Reload
    /\ UNCHANGED asserts

ApplyStep(t) == CheckLog(t) \/ ApplyOneLogEntry(t) \/ LogFailed(t) \/ SetLastApplied(t)

\* What a leader sends to a peer that has all its logs.
Ping == \E leaderCommit \in decided..Len(log) : AppendEntries(Len(log), <<>>, leaderCommit)

Next ==
    \/ \E t \in Thread : ApplyStep(t) \/ ApplyFails(t)
    \/ Wake \/ Start
    \/ ElectionTimeout \/ StepDown \/ Elected \/ VoteConsensus \/ VoteFail
    \/ \E pre \in 1..Len(log), leaderCommit \in 1..MaxIndex :
          \/ AppendEntries(pre, <<>>, leaderCommit)
          \/ /\ pre < MaxIndex
             /\ \E x \in Write \cup {Noop} : AppendEntries(pre, <<x>>, leaderCommit)
    \/ \E x \in Write : ClientWrite(x)
    \/ ClientConsensus \/ ClientAbort
    \/ \E ok \in CommitOutcome : ClientCommit(ok)
    \/ Restart

Spec == Init /\ [][Next]_vars

\* The threads run, waits for consensus end, and a server that is not the leader
\* gets pings from one.
Fairness ==
    /\ \A t \in Thread : WF_vars(ApplyStep(t))
    /\ WF_vars(Wake) /\ WF_vars(Start)
    /\ WF_vars(VoteConsensus \/ VoteFail)
    /\ WF_vars(ClientConsensus \/ ClientAbort)
    /\ WF_vars(ClientCommit(TRUE))
    /\ WF_vars(Ping)

FairSpec == Spec /\ Fairness
-----------------------------------------------------------------------------
(* Correctness *)

\* Whatever happens, and whenever the server stops, the database on its disk is the
\* one that the committed logs up to ATTR_RAFT_LAST_APPLIED make: none is skipped,
\* applied twice or applied before it is committed.
DatabaseIsLog == dbApplied <= decided /\ db = Content(log, dbApplied)

\* The writes among the first n logs are in the database.
InDatabase(n) == \A i \in DOMAIN log : dbApplied < i /\ i <= n => log[i] = Noop

\* lastApplied claims no write that is not in the database, but for a client's write
\* whose transaction is about to be committed.
LastAppliedIsTrue == client.step # "commit" => InDatabase(lastApplied)

\* The assert(0) of _VmDirApplyLog stops the server for an error that goes away, and
\* never for a log that cannot be applied, now or after a restart.
NoAssert == ~asserts

\* Every log that the server knows to be committed comes to be applied, though
\* signals are lost on an apply thread that is busy.
CommittedIsApplied == \A n \in 1..MaxIndex : decided >= n ~> InDatabase(n)
=============================================================================
