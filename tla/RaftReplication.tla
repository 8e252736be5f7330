-------------------------- MODULE RaftReplication --------------------------
(***************************************************************************)
(* Log replication of the lwraft directory server                          *)
(* (lwraft/server/replication/thread.c, raftldaprpc.c, replentry.c).       *)
(*                                                                         *)
(* A write holds the server's MDB write lock from its first change to its  *)
(* commit.  Just before the commit the leader puts a log entry, already    *)
(* durable, in its own log database; the commit then calls                 *)
(* VmDirRaftPrepareCommit, which waits until a majority has the entry.     *)
(* A new leader does the same with a no-op log.  The proxy threads carry   *)
(* the entry to the peers, and bring lagging peers up to date.             *)
(*                                                                         *)
(* An action is one critical section of gRaftStateMutex together with the  *)
(* log accesses that follow it in the same thread.  Votes are cast in one  *)
(* step each: the interleavings of an election are RaftElection's.         *)
(***************************************************************************)
EXTENDS Integers, FiniteSets, FiniteSetsExt

CONSTANTS
    Server,         \* the servers of the cluster
    Nil,            \* "none": no vote, no write, no call
    FetchMargin,    \* RAFT_PREVLOG_FETCH_MARGIN
    RpcOutlivesRound,   \* may a call still be unanswered when its server starts
                    \* the next election round?
    ForgetsVote,    \* may a server crash while the election it voted in is open?
    MaxTerm,        \* bound: highest term
    MaxIndex,       \* bound: highest log index
    MaxCall,        \* bound: calls under way at any time
    MaxFail,        \* bound: calls that fail
    MaxOrphan,      \* bound: failed calls that still reach the peer, later
    MaxRestart      \* bound: crashes

ASSUME ServerAssumption ==
    /\ IsFiniteSet(Server) /\ Server # {}
    /\ Nil \notin Server
ASSUME BoundAssumption ==
    /\ RpcOutlivesRound \in BOOLEAN /\ ForgetsVote \in BOOLEAN
    /\ FetchMargin \in Nat \ {0}
    /\ MaxTerm \in Nat \ {0} /\ MaxIndex \in Nat \ {0}
    /\ MaxCall \in Nat \ {0} /\ MaxFail \in Nat /\ MaxOrphan \in Nat /\ MaxRestart \in Nat

clusterSize == Cardinality(Server)
Majority    == clusterSize \div 2 + 1
Peer(s)     == Server \ {s}
Term        == 1..MaxTerm
Index       == 1..MaxIndex

\* log[s][i] is the term of the log with index i, or NoLog.  What a log says does
\* not matter here: index and term identify it as long as no leader uses the same
\* pair for two writes, which NoReuse checks.
NoLog == 0

VARIABLES
    role, currentTerm, votedFor, votedForTerm,  \* gRaftState, as in RaftElection
    votes,          \* the peers behind voteConsensusCnt, and the server itself
    log,            \* the log database
    lastLogIndex, lastLogTerm,                  \* gRaftState
    commitIndex, indexToApply, lastApplied,     \* gRaftState
    write,          \* the write that holds the MDB write lock, gLogEntry included
    replicated,     \* the peers whose proxy has bLogReplicated
    call,           \* call[s][p]: the AppendEntries call of s's proxy for p
    orphans,        \* calls given up by their caller but not yet executed
    fails, restarts,                            \* bounds
    written,        \* history: <<index, term, term of the log before it>> of the
                    \* logs that writes have added
    reused,         \* history: has a pair of index and term been used twice?
    committed,      \* history: <<index, term, t>>, a log committed in term t
    fatal           \* servers whose "assert(!bFatalError)" has failed

votedVars == <<votedFor, votedForTerm, votes>>
logVars   == <<log, lastLogIndex, lastLogTerm>>
bounds    == <<fails, restarts>>
history   == <<written, reused, committed, fatal>>
vars == <<role, currentTerm, votedVars, logVars, commitIndex, indexToApply,
          lastApplied, write, replicated, call, orphans, bounds, history>>

Role == {"follower", "candidate", "leader"}

\* A write in progress: st is "chosen" from the PreCommit plugin to
\* VmDirAddRaftEntry, "logged" from there on (VmDirRaftPrepareCommit).
Write == [st : {"chosen", "logged"}, noop : BOOLEAN, index : Index \ {1}, term : Term]

\* The arguments of an AppendEntries call.  start is the proxy's startLogIndex;
\* append tells ExecAppendEntries from ExecPing; entry is NoLog when none is sent.
Args == [append : BOOLEAN, start : Index, pre : Index, preTerm : Term,
         index : Index, entry : Term \cup {NoLog}, term : Term, commit : Index]

\* An AppendEntries call: on its way, or answered with the peer's term and status
\* (0 for success, else the peer's lastLogIndex).
Call == [st : {"sent"}, args : Args]
   \cup [st : {"answered"}, args : Args, term : Term, status : 0..MaxIndex]

\* The term and the status a handler answers with.
Reply == Term \X (0..MaxIndex)

ASSUME NilAssumption == Nil \notin Write /\ Nil \notin Call /\ Nil \notin Reply

TypeOK ==
    /\ role \in [Server -> Role]
    /\ currentTerm \in [Server -> Term]
    /\ votedFor \in [Server -> Server \cup {Nil}]
    /\ votedForTerm \in [Server -> 0..MaxTerm]
    /\ votes \in [Server -> SUBSET Server]
    /\ log \in [Server -> [Index -> Term \cup {NoLog}]]
    /\ lastLogIndex \in [Server -> Index]
    /\ lastLogTerm \in [Server -> Term]
    /\ commitIndex \in [Server -> Index]
    /\ indexToApply \in [Server -> 0..MaxIndex]
    /\ lastApplied \in [Server -> Index]
    /\ write \in [Server -> Write \cup {Nil}]
    /\ replicated \in [Server -> SUBSET Server]
    /\ call \in [Server -> [Server -> Call \cup {Nil}]]
    /\ orphans \subseteq Args \X Server
    /\ fails \in Nat /\ restarts \in Nat
    /\ written \subseteq Index \X Term \X (Term \cup {NoLog})
    /\ reused \in BOOLEAN
    /\ committed \subseteq Index \X (Term \cup {NoLog}) \X Term
    /\ fatal \subseteq Server

\* A cluster that has been set up: one log, applied everywhere.
Init ==
    /\ role = [s \in Server |-> "follower"]
    /\ currentTerm = [s \in Server |-> 1]
    /\ votedFor = [s \in Server |-> Nil]
    /\ votedForTerm = [s \in Server |-> 0]
    /\ votes = [s \in Server |-> {}]
    /\ log = [s \in Server |-> [i \in Index |-> IF i = 1 THEN 1 ELSE NoLog]]
    /\ lastLogIndex = [s \in Server |-> 1]
    /\ lastLogTerm = [s \in Server |-> 1]
    /\ commitIndex = [s \in Server |-> 1]
    /\ indexToApply = [s \in Server |-> 0]
    /\ lastApplied = [s \in Server |-> 1]
    /\ write = [s \in Server |-> Nil]
    /\ replicated = [s \in Server |-> {}]
    /\ call = [s \in Server |-> [p \in Server |-> Nil]]
    /\ orphans = {}
    /\ fails = 0 /\ restarts = 0
    /\ written = {<<1, 1, NoLog>>}
    /\ reused = FALSE
    /\ committed = {<<1, 1, 1>>}
    /\ fatal = {}

\* _VmDirGetPrevLogArgs: the highest index up to i that has a log, or 0.
PrevIndex(s, i) == Max({0} \cup {j \in Index : j <= i /\ log[s][j] # NoLog})

\* gRaftRpcReplyMutex is held by _VmDirEvaluateVoteResult until its no-op log is
\* committed or given up.
RpcReplyMutexFree(p) == write[p] # Nil => ~write[p].noop

-----------------------------------------------------------------------------
(* Elections *)

\* The vote scheduler waits until half of the proxies are idle, which without
\* RpcOutlivesRound all of them are.
PeersReady(s) ==
    LET idle == {p \in Peer(s) : call[s][p] = Nil} IN
    /\ Cardinality(idle) >= clusterSize \div 2
    /\ ~RpcOutlivesRound => idle = Peer(s)

\* The election timeout: a new term, and a vote for itself.
StartVote(s) ==
    /\ role[s] # "leader"
    /\ PeersReady(s)
    /\ currentTerm[s] < MaxTerm
    /\ role' = [role EXCEPT ![s] = "candidate"]
    /\ currentTerm' = [currentTerm EXCEPT ![s] = @ + 1]
    /\ votedFor' = [votedFor EXCEPT ![s] = s]
    /\ votedForTerm' = [votedForTerm EXCEPT ![s] = currentTerm[s] + 1]
    /\ votes' = [votes EXCEPT ![s] = {s}]
    /\ UNCHANGED <<logVars, commitIndex, indexToApply, lastApplied, write, replicated,
                   call, orphans, bounds, history>>

\* Mutant of LogAhead: logs of the same term are not compared.
LogAheadByTerm(p, s) == lastLogTerm[p] > lastLogTerm[s]

\* The voter's last log, as gRaftState has it, is ahead of the candidate's.
LogAhead(p, s) ==
    \/ lastLogTerm[p] > lastLogTerm[s]
    \/ lastLogTerm[p] = lastLogTerm[s] /\ lastLogIndex[p] > lastLogIndex[s]

\* Mutant of VoteFree: the voter does not look at its earlier votes.
VoteAlwaysFree(p, s) == TRUE

\* p has not voted for another candidate in s's term.
VoteFree(p, s) == votedForTerm[p] = currentTerm[s] => votedFor[p] \in {Nil, s}

\* p grants its vote to candidate s (_VmDirRequestVoteGetReply), which counts it.
GrantVote(s, p) ==
    /\ role[s] = "candidate"
    /\ p \notin votes[s]
    /\ call[s][p] = Nil
    /\ RpcReplyMutexFree(p)
    /\ currentTerm[p] <= currentTerm[s]
    /\ ~LogAhead(p, s)
    /\ ~(role[p] = "leader" /\ currentTerm[p] = currentTerm[s])
    /\ VoteFree(p, s)
    /\ currentTerm' = [currentTerm EXCEPT ![p] = currentTerm[s]]
    /\ role' = [role EXCEPT ![p] =
                  IF currentTerm[p] < currentTerm[s] THEN "follower" ELSE @]
    /\ votedFor' = [votedFor EXCEPT ![p] = s]
    /\ votedForTerm' = [votedForTerm EXCEPT ![p] = currentTerm[s]]
    /\ votes' = [votes EXCEPT ![s] = @ \cup {p}]
    /\ UNCHANGED <<logVars, commitIndex, indexToApply, lastApplied, write, replicated,
                   call, orphans, bounds, history>>

\* p refuses: a candidate of a higher term still moves p to that term, and a p
\* of a higher term moves the candidate; a candidate whose log is behind gives up.
DenyVote(s, p) ==
    /\ role[s] = "candidate"
    /\ p \notin votes[s]
    /\ call[s][p] = Nil
    /\ RpcReplyMutexFree(p)
    /\ \/ currentTerm[p] > currentTerm[s]
       \/ LogAhead(p, s)
    /\ LET t == IF currentTerm[p] > currentTerm[s] THEN currentTerm[p] ELSE currentTerm[s] IN
       /\ currentTerm' = [currentTerm EXCEPT ![s] = t, ![p] = t]
       /\ role' = [role EXCEPT ![s] = "follower",
                               ![p] = IF currentTerm[p] < t THEN "follower" ELSE @]
    /\ UNCHANGED <<votedVars, logVars, commitIndex, indexToApply, lastApplied, write,
                   replicated, call, orphans, bounds, history>>

-----------------------------------------------------------------------------
(* Writes at the leader *)

\* A log is put in the log database, which refuses an index it already has.
\* lastLogTerm is not updated here.
AddLog(s, w) ==
    /\ log' = [log EXCEPT ![s][w.index] = w.term]
    /\ written' = written \cup {<<w.index, w.term, log[s][w.index - 1]>>}
    /\ reused' = (reused \/ \E l \in written : l[1] = w.index /\ l[2] = w.term)
    /\ lastLogIndex' = [lastLogIndex EXCEPT ![s] = w.index]
    /\ write' = [write EXCEPT ![s] = [w EXCEPT !.st = "logged"]]
    /\ replicated' = [replicated EXCEPT ![s] = {}]
    /\ UNCHANGED lastLogTerm

NoLogAdded == UNCHANGED <<logVars, replicated, written, reused>>

\* The log the next write of s would have.
NextWrite(s, noop) ==
    [st |-> "chosen", noop |-> noop, index |-> lastLogIndex[s] + 1,
     term |-> currentTerm[s]]

\* _VmDirEvaluateVoteResult: a candidate with a majority becomes leader and adds
\* its no-op log, in one critical section.
EvaluateVoteResult(s) ==
    /\ write[s] = Nil
    /\ role[s] = "candidate"
    /\ Cardinality(votes[s]) >= Majority
    /\ lastLogIndex[s] < MaxIndex
    /\ votes' = [votes EXCEPT ![s] = {}]    \* dead until the next round
    /\ IF log[s][lastLogIndex[s] + 1] = NoLog
       THEN role' = [role EXCEPT ![s] = "leader"] /\ AddLog(s, NextWrite(s, TRUE))
       ELSE role' = [role EXCEPT ![s] = "follower"] /\ NoLogAdded /\ UNCHANGED write
    /\ UNCHANGED <<currentTerm, votedFor, votedForTerm, commitIndex, indexToApply,
                   lastApplied, call, orphans, bounds, committed, fatal>>

\* The PreCommit plugins choose the index and the term of a client's log.
PreCommit(s) ==
    /\ write[s] = Nil
    /\ role[s] = "leader"
    /\ lastLogIndex[s] < MaxIndex
    /\ write' = [write EXCEPT ![s] = NextWrite(s, FALSE)]
    /\ UNCHANGED <<role, currentTerm, votedVars, logVars, commitIndex, indexToApply,
                   lastApplied, replicated, call, orphans, bounds, history>>

\* VmDirAddRaftEntry adds the log chosen earlier, whatever has happened since.
AddRaftEntry(s) ==
    /\ write[s] # Nil
    /\ write[s].st = "chosen"
    /\ IF log[s][write[s].index] = NoLog
       THEN AddLog(s, write[s])
       ELSE write' = [write EXCEPT ![s] = Nil] /\ NoLogAdded
    /\ UNCHANGED <<role, currentTerm, votedVars, commitIndex, indexToApply, lastApplied,
                   call, orphans, bounds, committed, fatal>>

\* The write gives up gLogEntry and the MDB write lock.
EndWrite(s) ==
    /\ write' = [write EXCEPT ![s] = Nil]
    /\ replicated' = [replicated EXCEPT ![s] = {}]    \* cleared before it is used again

\* Mutant of Consensus: one server short of a majority.
ConsensusMinusOne(s) == Cardinality(replicated[s]) + 1 >= Majority - 1

\* _VmDirGetAppendEntriesConsensusCountInLock counts the leader and the proxies
\* that have bLogReplicated.
Consensus(s) == Cardinality(replicated[s]) + 1 >= Majority

IsCommitted(i, term) == \E t \in Term : <<i, term, t>> \in committed

\* VmDirRaftPrepareCommit finds consensus.  A client's write is then committed
\* and applied; after a no-op the new leader applies everything before it.
CommitWrite(s) ==
    /\ write[s] # Nil
    /\ write[s].st = "logged"
    /\ role[s] = "leader"
    /\ currentTerm[s] = write[s].term
    /\ Consensus(s)
    /\ LET n    == write[s].index
           upto == IF write[s].noop THEN Max({n - 1, lastApplied[s]}) ELSE n IN
       /\ commitIndex' = [commitIndex EXCEPT ![s] = n]
       /\ lastLogIndex' = [lastLogIndex EXCEPT ![s] = n]
       /\ lastLogTerm' = [lastLogTerm EXCEPT ![s] = write[s].term]
       /\ lastApplied' = [lastApplied EXCEPT ![s] = upto]
       /\ committed' = committed \cup
            {<<i, log[s][i], currentTerm[s]>> : i \in {j \in 1..n : ~IsCommitted(j, log[s][j])}}
    /\ EndWrite(s)
    /\ UNCHANGED <<role, currentTerm, votedVars, log, indexToApply, call, orphans, bounds,
                   written, reused, fatal>>

\* VmDirRaftPrepareCommit fails: the server is no leader any more, or is not in
\* the term of the log, or has tried 32 times without consensus.  The log stays.
AbortWrite(s) ==
    /\ write[s] # Nil
    /\ write[s].st = "logged"
    /\ \/ role[s] # "leader"
       \/ currentTerm[s] # write[s].term
       \/ ~Consensus(s)
    /\ role' = [role EXCEPT ![s] =
                  IF write[s].noop \/ (@ = "leader" /\ currentTerm[s] = write[s].term)
                  THEN "follower" ELSE @]
    /\ EndWrite(s)
    /\ UNCHANGED <<currentTerm, votedVars, logVars, commitIndex, indexToApply, lastApplied,
                   call, orphans, bounds, history>>

\* Without consensus in time VmDirRaftPrepareCommit starts the count again.
RetryConsensus(s) ==
    /\ write[s] # Nil
    /\ write[s].st = "logged"
    /\ role[s] = "leader"
    /\ currentTerm[s] = write[s].term
    /\ ~Consensus(s)
    /\ replicated' = [replicated EXCEPT ![s] = {}]
    /\ UNCHANGED <<role, currentTerm, votedVars, logVars, commitIndex, indexToApply,
                   lastApplied, write, call, orphans, bounds, history>>

-----------------------------------------------------------------------------
(* The proxy threads: _VmDirAppendEntriesRpc *)

\* Send the log <<i, entry>>, or none when entry is NoLog, after the log at pre.
\* The term and the commit index are read at this moment.
SendCall(s, p, append, start, pre, i, entry) ==
    call' = [call EXCEPT ![s][p] =
               [st |-> "sent",
                args |-> [append |-> append, start |-> start, pre |-> pre,
                          preTerm |-> log[s][pre],
                          index |-> IF entry = NoLog THEN 1 ELSE i,
                          entry |-> entry,
                          term |-> currentTerm[s], commit |-> commitIndex[s]]]]

EndCall(s, p) == call' = [call EXCEPT ![s][p] = Nil]

\* A proxy of leader s is free to start a call.
ProxyFree(s, p) ==
    /\ role[s] = "leader"
    /\ call[s][p] = Nil
    /\ Cardinality({c \in Server \X Server : call[c[1]][c[2]] # Nil}) < MaxCall

\* A free proxy sends the log that waits for consensus (gEntries).
SendAppend(s, p) ==
    /\ ProxyFree(s, p)
    /\ write[s] # Nil
    /\ write[s].st = "logged"
    /\ LET n == write[s].index IN
       /\ PrevIndex(s, n - 1) > 0
       /\ SendCall(s, p, TRUE, n, PrevIndex(s, n - 1), n, write[s].term)
    /\ UNCHANGED <<role, currentTerm, votedVars, logVars, commitIndex, indexToApply,
                   lastApplied, write, replicated, orphans, bounds, history>>

\* A free proxy of a leader pings.
SendPing(s, p) ==
    /\ ProxyFree(s, p)
    /\ PrevIndex(s, lastLogIndex[s] + 1) > 0
    /\ SendCall(s, p, FALSE, lastLogIndex[s], PrevIndex(s, lastLogIndex[s] + 1), 0, NoLog)
    /\ UNCHANGED <<role, currentTerm, votedVars, logVars, commitIndex, indexToApply,
                   lastApplied, write, replicated, orphans, bounds, history>>

\* The answer tells of a higher term, or finds the caller leader no more.
ReplyAfterLeadership(s, p) ==
    /\ call[s][p] # Nil
    /\ call[s][p].st = "answered"
    /\ \/ call[s][p].term > currentTerm[s]
       \/ role[s] # "leader"
    /\ IF call[s][p].term > currentTerm[s]
       THEN /\ currentTerm' = [currentTerm EXCEPT ![s] = call[s][p].term]
            /\ role' = [role EXCEPT ![s] = "follower"]
       ELSE UNCHANGED <<currentTerm, role>>
    /\ EndCall(s, p)
    /\ UNCHANGED <<votedVars, logVars, commitIndex, indexToApply, lastApplied, write,
                   replicated, orphans, bounds, history>>

\* An answer the caller, still leader, looks at.
Answer(s, p) ==
    /\ call[s][p] # Nil
    /\ call[s][p].st = "answered"
    /\ call[s][p].term <= currentTerm[s]
    /\ role[s] = "leader"

\* Mutant of SearchFrom: the margin is left out.
SearchFromPeersLast(a, status) == IF a.pre > status THEN status ELSE a.pre

\* The log to try next: the one before, but at most FetchMargin above the peer's
\* last log.
SearchFrom(a, status) ==
    IF a.pre > status + FetchMargin THEN status + FetchMargin ELSE a.pre

\* The peer has no log that matches: try an earlier one.  A caller that has not got
\* the log to try (VmDirAllocateAndCopyMemory fails), or has none before it, ends the
\* call.
ReplyMismatch(s, p) ==
    /\ Answer(s, p)
    /\ call[s][p].status # 0
    /\ LET a == call[s][p].args
           i == SearchFrom(a, call[s][p].status) IN
       IF log[s][i] # NoLog /\ PrevIndex(s, i - 1) > 0
       THEN SendCall(s, p, a.append, a.start, PrevIndex(s, i - 1), i, log[s][i])
       ELSE EndCall(s, p)
    /\ UNCHANGED <<role, currentTerm, votedVars, logVars, commitIndex, indexToApply,
                   lastApplied, write, replicated, orphans, bounds, history>>

\* The log confirmed is the one that waits for consensus: the indexes agree.
ConfirmsWrite(s, a) ==
    /\ a.append
    /\ a.entry # NoLog
    /\ write[s] # Nil
    /\ write[s].st = "logged"
    /\ a.index = write[s].index

\* The peer has confirmed a match: count the log, or go on closing the gap.
ReplyMatch(s, p) ==
    /\ Answer(s, p)
    /\ call[s][p].status = 0
    /\ LET a == call[s][p].args IN
       IF ConfirmsWrite(s, a)
       THEN /\ replicated' = [replicated EXCEPT ![s] = @ \cup {p}]
            /\ EndCall(s, p)
       ELSE /\ UNCHANGED replicated
            /\ IF a.pre >= a.start \/ log[s][a.pre + 1] = NoLog
               THEN EndCall(s, p)
               ELSE SendCall(s, p, a.append, a.start, a.pre + 1, a.pre + 2,
                             IF a.pre + 2 \in Index THEN log[s][a.pre + 2] ELSE NoLog)
    /\ UNCHANGED <<role, currentTerm, votedVars, logVars, commitIndex, indexToApply,
                   lastApplied, write, orphans, bounds, history>>

\* The call fails and the proxy gives it up.  The peer may still execute it.
CallFail(s, p) ==
    /\ fails < MaxFail
    /\ call[s][p] # Nil
    /\ fails' = fails + 1
    /\ EndCall(s, p)
    /\ \/ UNCHANGED orphans
       \/ /\ call[s][p].st = "sent"
          /\ Cardinality(orphans) < MaxOrphan
          /\ orphans' = orphans \cup {<<call[s][p].args, p>>}
    /\ UNCHANGED <<role, currentTerm, votedVars, logVars, commitIndex, indexToApply,
                   lastApplied, write, replicated, restarts, history>>

-----------------------------------------------------------------------------
(* The handler: _VmDirAppendEntriesGetReply *)

\* Mutants of FollowerCommitIndex: off by one; the match is not waited for.
FollowerCommitIndexLow(a) == Min({a.commit, a.pre}) - 1
FollowerCommitIndexLeader(a) == a.commit

\* VMDIR_MIN(leaderCommit, preLogIndex)
FollowerCommitIndex(a) == Min({a.commit, a.pre})

\* VmDirDeleteAllLogs(pre + 1), the new log if there is one, and the new
\* commit index.
StoreLogs(p, a) ==
    LET deleted == {i \in Index : i > a.pre /\ log[p][i] # NoLog}
        kept    == [i \in Index |-> IF i \in deleted THEN NoLog ELSE log[p][i]]
        upto    == FollowerCommitIndex(a)
    IN  /\ commitIndex' = [commitIndex EXCEPT ![p] = upto]
        /\ indexToApply' = [indexToApply EXCEPT ![p] = upto]
        /\ IF a.entry # NoLog
           THEN /\ log' = [log EXCEPT ![p] = [kept EXCEPT ![a.index] = a.entry]]
                /\ lastLogIndex' = [lastLogIndex EXCEPT ![p] = a.index]
                /\ lastLogTerm' = [lastLogTerm EXCEPT ![p] = a.entry]
           ELSE /\ log' = [log EXCEPT ![p] = kept]
                /\ IF \E i \in deleted : i <= lastLogIndex[p]
                   THEN /\ lastLogIndex' = [lastLogIndex EXCEPT ![p] = a.pre]
                        /\ lastLogTerm' = [lastLogTerm EXCEPT ![p] = a.preTerm]
                   ELSE UNCHANGED <<lastLogIndex, lastLogTerm>>
        /\ UNCHANGED fatal

\* Mutant of DeletesApplied: logs are deleted without a look at lastApplied.
DeletesUnchecked(p, a) == FALSE

\* The logs to delete include an applied one.
DeletesApplied(p, a) == \E i \in Index : i > a.pre /\ i <= lastApplied[p] /\ log[p][i] # NoLog

\* VmDirDeleteAllLogs deletes from the highest index down, meets an applied log
\* and reports a fatal error, for which the process ends (assert).
DieOfFatalError(p) ==
    /\ fatal' = fatal \cup {p}
    /\ log' = [log EXCEPT ![p] =
                 [i \in Index |-> IF i > lastApplied[p] THEN NoLog ELSE log[p][i]]]
    /\ UNCHANGED <<lastLogIndex, lastLogTerm, commitIndex, indexToApply>>

\* Mutant of Matches: a log of another term will do.
MatchesIndex(p, a) == log[p][a.pre] # NoLog

\* Does p have the log the caller's logs continue (_VmDirLogLookup)?
Matches(p, a) == log[p][a.pre] = a.preTerm

\* What the handler of p does with the arguments a; the answer is <<term, status>>,
\* or Nil for an error.
Handler(p, a, answer) ==
    \/ /\ a.term < currentTerm[p]
       /\ answer = <<currentTerm[p], lastLogIndex[p]>>
       /\ UNCHANGED <<role, currentTerm, logVars, commitIndex, indexToApply, fatal>>
    \/ /\ a.term > currentTerm[p]
       /\ role[p] # "follower"
       /\ answer = Nil
       /\ role' = [role EXCEPT ![p] = "follower"]
       /\ currentTerm' = [currentTerm EXCEPT ![p] = a.term]
       /\ UNCHANGED <<logVars, commitIndex, indexToApply, fatal>>
    \/ /\ a.term = currentTerm[p] \/ (a.term > currentTerm[p] /\ role[p] = "follower")
       /\ role' = [role EXCEPT ![p] = "follower"]
       /\ currentTerm' = [currentTerm EXCEPT ![p] = a.term]
       /\ \/ /\ ~Matches(p, a)
             /\ answer = <<a.term, lastLogIndex[p]>>
             /\ UNCHANGED <<logVars, commitIndex, indexToApply, fatal>>
          \/ /\ Matches(p, a)
             /\ ~DeletesApplied(p, a)
             /\ answer = <<a.term, 0>>
             /\ StoreLogs(p, a)
          \/ /\ Matches(p, a)
             /\ DeletesApplied(p, a)
             /\ answer = Nil
             /\ DieOfFatalError(p)

\* The handler serves a call whose caller waits for the answer.
AppendEntriesGetReply(s, p) ==
    /\ call[s][p] # Nil
    /\ call[s][p].st = "sent"
    /\ RpcReplyMutexFree(p)
    /\ \E answer \in {Nil} \cup Reply :
          /\ Handler(p, call[s][p].args, answer)
          /\ IF answer = Nil THEN EndCall(s, p)
             ELSE call' = [call EXCEPT ![s][p] =
                             [st |-> "answered", args |-> @.args,
                              term |-> answer[1], status |-> answer[2]]]
    /\ UNCHANGED <<votedVars, lastApplied, write, replicated, orphans, bounds, written,
                   reused, committed>>

\* The handler serves a call that its caller has given up.
ServeOrphan(o) ==
    /\ RpcReplyMutexFree(o[2])
    /\ orphans' = orphans \ {o}
    /\ \E answer \in {Nil} \cup Reply : Handler(o[2], o[1], answer)
    /\ UNCHANGED <<votedVars, lastApplied, write, replicated, call, bounds, written,
                   reused, committed>>

-----------------------------------------------------------------------------

\* Mutant of MayApply: the loop stops before indexToApply.
MayApplyBefore(s) == lastApplied[s] + 1 < indexToApply[s]

\* The bound of the loop of _VmDirApplyLogsUpto.
MayApply(s) == lastApplied[s] < indexToApply[s]

\* _VmDirRaftLogApplyThread: a follower applies the next log it may apply.  A log
\* that is missing reads as a no-op (RAFT_NOOP is 0).
ApplyLog(s) ==
    /\ role[s] = "follower"
    /\ MayApply(s)
    /\ LET n == lastApplied[s] + 1 IN
       /\ lastApplied' = [lastApplied EXCEPT ![s] = n]
       /\ commitIndex' = [commitIndex EXCEPT ![s] =
                            IF log[s][n] # NoLog /\ @ < n THEN n ELSE @]
    /\ UNCHANGED <<role, currentTerm, votedVars, logVars, indexToApply, write, replicated,
                   call, orphans, bounds, history>>

\* Somebody may still ask for a vote in the term s last voted in.
VoteOpen(s) ==
    \E c \in Peer(s) :
        \/ currentTerm[c] < votedForTerm[s]
        \/ currentTerm[c] = votedForTerm[s] /\ role[c] = "candidate"

\* The lastApplied on disk: applying a no-op, the first log of a term, does not
\* write it.
DurablyApplied(s) ==
    Max({1} \cup {i \in 2..lastApplied[s] : log[s][i] = log[s][i - 1]})

\* Mutant of LastLogOnDisk: the last log applied is taken for the last log.
LastLogApplied(s) == lastApplied[s]

\* The log of the highest index, found with pfnBEMaxEntryId.
LastLogOnDisk(s) == PrevIndex(s, MaxIndex)

\* s crashes; VmDirLoadRaftState reads its state back.  Logs, term and
\* lastApplied are on disk; the vote is not.
Restart(s) ==
    /\ restarts < MaxRestart
    /\ restarts' = restarts + 1
    /\ ForgetsVote \/ ~VoteOpen(s)
    /\ role' = [role EXCEPT ![s] = "follower"]
    /\ votedFor' = [votedFor EXCEPT ![s] = Nil]
    /\ votedForTerm' = [votedForTerm EXCEPT ![s] = 0]
    /\ votes' = [votes EXCEPT ![s] = {}]
    /\ LET last == LastLogOnDisk(s) IN
       /\ lastLogIndex' = [lastLogIndex EXCEPT ![s] = last]
       /\ lastLogTerm' = [lastLogTerm EXCEPT ![s] = log[s][last]]
    /\ lastApplied' = [lastApplied EXCEPT ![s] = DurablyApplied(s)]
    /\ commitIndex' = [commitIndex EXCEPT ![s] = DurablyApplied(s)]
    /\ indexToApply' = [indexToApply EXCEPT ![s] = 0]
    /\ write' = [write EXCEPT ![s] = Nil]
    /\ replicated' = [replicated EXCEPT ![s] = {}]
    /\ call' = [a \in Server |-> [b \in Server |->
                  IF a = s \/ b = s THEN Nil ELSE call[a][b]]]
    /\ orphans' = {o \in orphans : o[2] # s}
    /\ UNCHANGED <<currentTerm, log, fails, history>>

-----------------------------------------------------------------------------

\* The servers whose process has not ended in a fatal error.
Up == Server \ fatal

Next ==
    \/ \E s \in Up :
          \/ StartVote(s) \/ EvaluateVoteResult(s)
          \/ PreCommit(s) \/ AddRaftEntry(s)
          \/ CommitWrite(s) \/ AbortWrite(s) \/ RetryConsensus(s)
          \/ ApplyLog(s) \/ Restart(s)
    \/ \E s \in Up : \E p \in Peer(s) :
          \/ ReplyAfterLeadership(s, p) \/ ReplyMismatch(s, p) \/ ReplyMatch(s, p)
          \/ CallFail(s, p)
    \/ \E s \in Up : \E p \in Up \ {s} :
          \/ GrantVote(s, p) \/ DenyVote(s, p)
          \/ SendAppend(s, p) \/ SendPing(s, p) \/ AppendEntriesGetReply(s, p)
    \/ \E o \in orphans : o[2] \in Up /\ ServeOrphan(o)

Spec == Init /\ [][Next]_vars
-----------------------------------------------------------------------------
(* Correctness *)

\* A leader has every log committed in an earlier term: "the highest committed
\* log must have been persisted in this server per the committing and voting
\* algorithm", as _VmDirEvaluateVoteResult puts it.
LeaderCompleteness ==
    \A s \in Server : role[s] = "leader" =>
        \A c \in committed : c[3] < currentTerm[s] => log[s][c[1]] = c[2]

\* The cluster implements one log that only grows: every log a server applies, as
\* leader at its commit, through its no-op or in the apply thread, is committed,
\* and no index is ever committed twice.
Log == INSTANCE RaftLog WITH
         First   <- 1,
         chosen  <- {<<c[1], c[2]>> : c \in committed},
         applied <- [s \in Server |-> [i \in 1..lastApplied[s] |-> log[s][i]]]
ImplementsRaftLog == Log!Spec

\* No two servers apply different logs at the same index, whether through the
\* leader's commit, its no-op, or the apply thread.
AppliedAgree ==
    \A s, p \in Server : \A i \in 1..lastApplied[s] :
        i <= lastApplied[p] => log[s][i] = log[p][i] /\ log[s][i] # NoLog

\* Two servers that have a log of the same index and term have the same logs up
\* to it: what _VmDirLogLookup's comparison of one log relies on.
LogMatching ==
    \A s, p \in Server : \A i \in Index :
        log[s][i] # NoLog /\ log[s][i] = log[p][i] => \A j \in 1..i : log[s][j] = log[p][j]

\* A log that the client was told is committed stays with a majority, in the
\* face of deletions by VmDirDeleteAllLogs.
CommittedStays ==
    \A c \in committed :
        Cardinality({s \in Server : log[s][c[1]] = c[2]}) >= Majority

\* "attempt to delete log already applied ... This shouldn't occur": the
\* assert(!bFatalError) of _VmDirAppendEntriesGetReply never fails.
NoFatalError == fatal = {}

\* "the longIndex used by the aborted transaction can never be reused": no two
\* writes add logs of the same index and term.
NoReuse == ~reused

\* What a leader has committed every peer applies, however far behind it is: the
\* search for a log the peer has, the closing of the gap and the apply thread all
\* make progress.  (New writes could postpone the moment for ever; MaxIndex ends
\* them.)
FollowersCatchUp ==
    []<>(\A s \in Up : \A p \in Up \ {s} :
            role[s] = "leader" => lastApplied[p] >= commitIndex[s])

\* Threads that can run do run; a ping is due at every ping interval.
Fairness ==
    \A s \in Server :
        /\ WF_vars(s \in Up /\ (AddRaftEntry(s) \/ CommitWrite(s)))
        /\ WF_vars(s \in Up /\ ApplyLog(s))
        /\ \A p \in Peer(s) :
              /\ WF_vars({s, p} \subseteq Up /\ (SendAppend(s, p) \/ SendPing(s, p)))
              /\ WF_vars({s, p} \subseteq Up /\ AppendEntriesGetReply(s, p))
              /\ WF_vars(s \in Up /\ (ReplyAfterLeadership(s, p) \/ ReplyMismatch(s, p)
                                       \/ ReplyMatch(s, p)))

FairSpec == Spec /\ Fairness
=============================================================================
