---------------------------- MODULE RaftElection ----------------------------
(***************************************************************************)
(* Leader election of the lwraft directory server                          *)
(* (lwraft/server/replication/thread.c, raftldaprpc.c, replentry.c).       *)
(*                                                                         *)
(* Every server runs one vote scheduler thread, one proxy thread per peer, *)
(* and LDAP threads that execute the RPC handlers.  They share gRaftState, *)
(* protected by gRaftStateMutex; an action of this module is one critical  *)
(* section of that mutex (or one MDB transaction), so every place where    *)
(* the code drops the mutex is a place where the threads interleave.       *)
(*                                                                         *)
(* A proxy thread calls its peer synchronously, so a call, the handler     *)
(* that serves it and its reply are one record, rpc[s][p]: the call from   *)
(* server s to peer p.                                                     *)
(***************************************************************************)
EXTENDS Integers, FiniteSets

CONSTANTS
    Server,             \* the servers of the cluster
    Nil,                \* "no server": an empty gRaftState.votedFor
    LogRank,            \* LogRank[s]: position of s's (lastLogTerm, lastLogIndex)
                        \* in the order the vote handler compares
    RpcOutlivesRound,   \* may an RPC still be unanswered when its server
                        \* starts the next election round?
    MaxRound,           \* bound: number of election rounds started
    MaxFail,            \* bound: number of calls that fail
    MaxRestart          \* bound: number of crashes

ASSUME ServerAssumption ==
    /\ IsFiniteSet(Server)
    /\ Cardinality(Server) \in Nat \ {0}
    /\ Nil \notin Server
    /\ LogRank \in [Server -> Nat]
ASSUME BoundAssumption ==
    /\ RpcOutlivesRound \in BOOLEAN
    /\ MaxRound \in Nat
    /\ MaxFail \in Nat
    /\ MaxRestart \in Nat

clusterSize == Cardinality(Server)

\* Mutant of Majority: half is enough.
HalfOfCluster == clusterSize \div 2

\* The "clusterSize/2 + 1" of _VmDirEvaluateVoteResult and _VmDirRequestVoteRpc.
Majority == clusterSize \div 2 + 1

Role == {"follower", "candidate", "leader"}

\* Where a server's vote scheduler thread is: waiting for the election timeout,
\* for gPeersReadyCond, for VmDirPersistTerm, for gGotVoteResultCond, about to
\* evaluate the result, or committing the new leader's no-op log.
SchdPc == {"wait", "startVote", "persist", "result", "evaluate", "noop"}

\* A proxy thread is RPC_IDLE; has read ExecReqestVote but not yet built the
\* request; waits for the handler; waits for the answer; or has dealt with the
\* answer and is about to write gRaftState.cmd.
RpcState == {"idle", "taken", "request", "handled", "done"}

VARIABLES
    role,               \* gRaftState.role
    currentTerm,        \* gRaftState.currentTerm
    votedFor,           \* gRaftState.votedFor
    votedForTerm,       \* gRaftState.votedForTerm
    voteConsensusCnt,   \* gRaftState.voteConsensusCnt
    voteConsensusTerm,  \* gRaftState.voteConsensusTerm
    cmd,                \* gRaftState.cmd
    psTerm,             \* ATTR_RAFT_TERM of cn=persiststate, on disk
    persisting,         \* terms that some thread is inside VmDirPersistTerm with
    pc,                 \* the vote scheduler thread
    schdTerm,           \* its local variable "term"
    rpc,                \* the proxy threads and the calls they make
    rounds,             \* election rounds started so far
    fails,              \* calls that have failed so far
    restarts,           \* crashes so far
    ballots,            \* history: <<term, voter, candidate>> of every vote given
    tally,              \* history: the voters behind voteConsensusCnt
    elected             \* history: <<term, server>> of every leader elected

state    == <<role, currentTerm, votedFor, votedForTerm, voteConsensusCnt,
              voteConsensusTerm, cmd>>
disk     == <<psTerm, persisting>>
threads  == <<pc, schdTerm, rpc>>
bounds   == <<rounds, fails, restarts>>
history  == <<ballots, tally, elected>>
vars     == <<state, disk, threads, bounds, history>>

Rpc == [st : RpcState, kind : {"none", "vote", "ping"}, term : Nat,
        granted : 0..2, peerTerm : Nat, wait : Nat]

IdleRpc == [st |-> "idle", kind |-> "none", term |-> 0, granted |-> 1,
            peerTerm |-> 0, wait |-> 0]

\* A proxy that has read ExecReqestVote.
Taken == [IdleRpc EXCEPT !.st = "taken", !.kind = "vote"]

\* A call on its way to the peer's handler.
Call(kind, term) == [IdleRpc EXCEPT !.st = "request", !.kind = kind, !.term = term]

\* Mutant of Done: the term to wait for is off by one.
DoneOffByOne(t) == [IdleRpc EXCEPT !.st = "done", !.wait = t - 1]

\* A call that is over; its thread may still be inside VmDirPersistTerm(t).
Done(t) == [IdleRpc EXCEPT !.st = "done", !.wait = t]

SetRpc(s, p, r) == rpc' = [rpc EXCEPT ![s][p] = r]

TypeOK ==
    /\ role \in [Server -> Role]
    /\ currentTerm \in [Server -> Nat]
    /\ votedFor \in [Server -> Server \cup {Nil}]
    /\ votedForTerm \in [Server -> Nat]
    /\ voteConsensusCnt \in [Server -> Nat]
    /\ voteConsensusTerm \in [Server -> Nat]
    /\ cmd \in [Server -> {"ExecNone", "ExecReqestVote"}]
    /\ psTerm \in [Server -> Nat]
    /\ persisting \in [Server -> SUBSET Nat]
    /\ pc \in [Server -> SchdPc]
    /\ schdTerm \in [Server -> Nat]
    /\ rpc \in [Server -> [Server -> Rpc]]
    /\ rounds \in Nat /\ fails \in Nat /\ restarts \in Nat
    /\ ballots \in SUBSET (Nat \X Server \X Server)
    /\ tally \in [Server -> SUBSET Server]
    /\ elected \in SUBSET (Nat \X Server)

\* VmDirInitRaftPsState and VmDirLoadRaftState on a freshly installed cluster.
Init ==
    /\ role = [s \in Server |-> "follower"]
    /\ currentTerm = [s \in Server |-> 1]
    /\ votedFor = [s \in Server |-> Nil]
    /\ votedForTerm = [s \in Server |-> 0]
    /\ voteConsensusCnt = [s \in Server |-> 0]
    /\ voteConsensusTerm = [s \in Server |-> 0]
    /\ cmd = [s \in Server |-> "ExecNone"]
    /\ psTerm = [s \in Server |-> 1]
    /\ persisting = [s \in Server |-> {}]
    /\ pc = [s \in Server |-> "wait"]
    /\ schdTerm = [s \in Server |-> 0]
    /\ rpc = [s \in Server |-> [p \in Server |-> IdleRpc]]
    /\ rounds = 0 /\ fails = 0 /\ restarts = 0
    /\ ballots = {}
    /\ tally = [s \in Server |-> {}]
    /\ elected = {}

-----------------------------------------------------------------------------
(* The vote scheduler thread, _VmDirRaftVoteSchdThread *)

Peer(s) == Server \ {s}

IdlePeers(s) == {p \in Peer(s) : rpc[s][p].st = "idle"}

\* The wait for gPeersReadyCond: half of the proxies are idle.  Without
\* RpcOutlivesRound every call has been answered, or has failed, by then.
PeersReady(s) ==
    /\ Cardinality(IdlePeers(s)) >= clusterSize \div 2
    /\ ~RpcOutlivesRound => IdlePeers(s) = Peer(s)

\* term = ++gRaftState.currentTerm, and the call of VmDirPersistTerm(term).
BeginTerm(s) ==
    /\ rounds < MaxRound
    /\ rounds' = rounds + 1
    /\ currentTerm' = [currentTerm EXCEPT ![s] = @ + 1]
    /\ schdTerm' = [schdTerm EXCEPT ![s] = currentTerm[s] + 1]
    /\ persisting' = [persisting EXCEPT ![s] = @ \cup {currentTerm[s] + 1}]
    /\ pc' = [pc EXCEPT ![s] = "persist"]

\* No ping for an election timeout, or a split vote to repeat.  The mutex is
\* kept up to ++currentTerm unless the thread must wait for idle proxies.
ElectionTimeout(s) ==
    /\ pc[s] = "wait"
    /\ clusterSize >= 2
    /\ role[s] # "leader"
    /\ role' = [role EXCEPT ![s] = "candidate"]
    /\ \/ PeersReady(s) /\ BeginTerm(s)
       \/ /\ ~PeersReady(s)
          /\ pc' = [pc EXCEPT ![s] = "startVote"]
          /\ UNCHANGED <<currentTerm, schdTerm, persisting, rounds>>
    /\ UNCHANGED <<votedFor, votedForTerm, voteConsensusCnt, voteConsensusTerm,
                   cmd, psTerm, rpc, fails, restarts, history>>

\* gPeersReadyCond has arrived.  The role is not looked at again.
PeersBecameReady(s) ==
    /\ pc[s] = "startVote"
    /\ PeersReady(s)
    /\ BeginTerm(s)
    /\ UNCHANGED <<role, votedFor, votedForTerm, voteConsensusCnt,
                   voteConsensusTerm, cmd, psTerm, rpc, fails, restarts,
                   history>>

\* Mutant of AlreadyVoted: the vote given meanwhile is overlooked.
NeverVoted(s) == FALSE

\* The vote handler has given the vote of this term away meanwhile.
AlreadyVoted(s) == votedForTerm[s] = currentTerm[s] /\ votedFor[s] # Nil

\* The server votes for itself and has the proxies ask for the other votes.
OpenBallot(s) ==
    /\ pc' = [pc EXCEPT ![s] = "result"]
    /\ votedFor' = [votedFor EXCEPT ![s] = s]
    /\ votedForTerm' = [votedForTerm EXCEPT ![s] = currentTerm[s]]
    /\ voteConsensusCnt' = [voteConsensusCnt EXCEPT ![s] = 1]
    /\ voteConsensusTerm' = [voteConsensusTerm EXCEPT ![s] = currentTerm[s]]
    /\ cmd' = [cmd EXCEPT ![s] = "ExecReqestVote"]
    /\ ballots' = ballots \cup {<<currentTerm[s], s, s>>}
    /\ tally' = [tally EXCEPT ![s] = {s}]
    /\ UNCHANGED <<role, currentTerm>>

\* VmDirPersistTerm has returned: the mutex is taken again.
VoteForSelf(s) ==
    /\ pc[s] = "persist"
    /\ schdTerm[s] \notin persisting[s]
    /\ IF currentTerm[s] # schdTerm[s]
       THEN /\ pc' = [pc EXCEPT ![s] = "wait"]
            /\ UNCHANGED <<state, ballots, tally>>
       ELSE IF AlreadyVoted(s)
       THEN /\ pc' = [pc EXCEPT ![s] = "wait"]
            /\ role' = [role EXCEPT ![s] = "follower"]
            /\ UNCHANGED <<currentTerm, votedFor, votedForTerm, voteConsensusCnt,
                           voteConsensusTerm, cmd, ballots, tally>>
       ELSE OpenBallot(s)
    /\ schdTerm' = [schdTerm EXCEPT ![s] = 0]    \* dead until the next round
    /\ UNCHANGED <<disk, rpc, bounds, elected>>

\* gGotVoteResultCond is signalled, or the wait for it times out.
VoteResult(s) ==
    /\ pc[s] = "result"
    /\ cmd' = [cmd EXCEPT ![s] = "ExecNone"]
    /\ pc' = [pc EXCEPT ![s] = "evaluate"]
    /\ UNCHANGED <<role, currentTerm, votedFor, votedForTerm, voteConsensusCnt,
                   voteConsensusTerm, disk, schdTerm, rpc, bounds, history>>

\* _VmDirEvaluateVoteResult up to the commit of the no-op log.
EvaluateVoteResult(s) ==
    /\ pc[s] = "evaluate"
    /\ IF /\ role[s] = "candidate"
          /\ currentTerm[s] = voteConsensusTerm[s]
          /\ voteConsensusCnt[s] >= Majority
       THEN /\ role' = [role EXCEPT ![s] = "leader"]
            /\ elected' = elected \cup {<<currentTerm[s], s>>}
            /\ pc' = [pc EXCEPT ![s] = "noop"]
       ELSE /\ pc' = [pc EXCEPT ![s] = "wait"]
            /\ UNCHANGED <<role, elected>>
    /\ UNCHANGED <<currentTerm, votedFor, votedForTerm, voteConsensusCnt,
                   voteConsensusTerm, cmd, disk, schdTerm, rpc, bounds,
                   ballots, tally>>

\* The rest of _VmDirEvaluateVoteResult: the no-op log is committed, which needs
\* the server to be leader still, or it is not and the server is a follower.
\* (How the no-op gets its consensus is the business of RaftReplication.)
NoopDone(s) ==
    /\ pc[s] = "noop"
    /\ \/ role[s] = "leader" /\ UNCHANGED role
       \/ role' = [role EXCEPT ![s] = "follower"]
    /\ pc' = [pc EXCEPT ![s] = "wait"]
    /\ UNCHANGED <<currentTerm, votedFor, votedForTerm, voteConsensusCnt,
                   voteConsensusTerm, cmd, disk, schdTerm, rpc, bounds, history>>

-----------------------------------------------------------------------------
(* The proxy threads, _VmDirRaftPeerThread *)

\* The thread is woken by gRaftRequestPendingCond and reads gRaftState.cmd.
TakeCmd(s, p) ==
    /\ rpc[s][p].st = "idle"
    /\ cmd[s] = "ExecReqestVote"
    /\ SetRpc(s, p, Taken)
    /\ UNCHANGED <<state, disk, pc, schdTerm, bounds, history>>

\* _VmDirRequestVoteRpc reads the term in a critical section of its own.
SendRequestVote(s, p) ==
    /\ rpc[s][p].st = "taken"
    /\ SetRpc(s, p, Call("vote", currentTerm[s]))
    /\ UNCHANGED <<state, disk, pc, schdTerm, bounds, history>>

\* A leader with nothing to do pings (_VmDirAppendEntriesRpc, ExecPing).
SendPing(s, p) ==
    /\ rpc[s][p].st = "idle"
    /\ cmd[s] = "ExecNone"
    /\ role[s] = "leader"
    /\ SetRpc(s, p, Call("ping", currentTerm[s]))
    /\ UNCHANGED <<state, disk, pc, schdTerm, bounds, history>>

\* The call or its answer is lost: the thread reconnects and gives it up.
RpcFail(s, p) ==
    /\ fails < MaxFail
    /\ fails' = fails + 1
    /\ rpc[s][p].st \in {"request", "handled"}
    /\ SetRpc(s, p, Done(0))
    /\ UNCHANGED <<state, disk, pc, schdTerm, rounds, restarts,
                   history>>

\* After every call the thread ends the command for all the proxies.
RpcDone(s, p) ==
    /\ rpc[s][p].st = "done"
    /\ rpc[s][p].wait \notin persisting[s]
    /\ cmd' = [cmd EXCEPT ![s] = "ExecNone"]
    /\ SetRpc(s, p, IdleRpc)
    /\ UNCHANGED <<role, currentTerm, votedFor, votedForTerm, voteConsensusCnt,
                   voteConsensusTerm, disk, pc, schdTerm, bounds, history>>

\* A call is answered once its handler is back from VmDirPersistTerm.
Answered(s, p) ==
    /\ rpc[s][p].st = "handled"
    /\ rpc[s][p].wait \notin persisting[p]

\* Mutant of AdoptPeerTerm: the server does not step down.
AdoptPeerTermInOffice(s, p) ==
    /\ rpc[s][p].peerTerm > currentTerm[s]
    /\ currentTerm' = [currentTerm EXCEPT ![s] = rpc[s][p].peerTerm]
    /\ persisting' = [persisting EXCEPT ![s] = @ \cup {rpc[s][p].peerTerm}]
    /\ SetRpc(s, p, Done(rpc[s][p].peerTerm))
    /\ UNCHANGED <<role, voteConsensusCnt, tally>>

\* The peer's term is higher: follow it, and call VmDirPersistTerm.
AdoptPeerTerm(s, p) ==
    /\ rpc[s][p].peerTerm > currentTerm[s]
    /\ role' = [role EXCEPT ![s] = "follower"]
    /\ currentTerm' = [currentTerm EXCEPT ![s] = rpc[s][p].peerTerm]
    /\ persisting' = [persisting EXCEPT ![s] = @ \cup {rpc[s][p].peerTerm}]
    /\ SetRpc(s, p, Done(rpc[s][p].peerTerm))
    /\ UNCHANGED <<voteConsensusCnt, tally>>

\* Mutant of VoteCounts: every answer is a vote.
AnswerCounts(s, p) == role[s] = "candidate" /\ currentTerm[s] = voteConsensusTerm[s]

\* The vote is counted when the server is a candidate whose current term is the
\* term of the count.  The term the vote was asked in is not consulted.
VoteCounts(s, p) ==
    /\ role[s] = "candidate"
    /\ rpc[s][p].granted = 0
    /\ currentTerm[s] = voteConsensusTerm[s]

\* The peer's term is not higher: count its vote, or step back from the election.
CountVote(s, p) ==
    /\ rpc[s][p].peerTerm <= currentTerm[s]
    /\ IF VoteCounts(s, p)
       THEN /\ voteConsensusCnt' = [voteConsensusCnt EXCEPT ![s] = @ + 1]
            /\ tally' = [tally EXCEPT ![s] = @ \cup {p}]
       ELSE UNCHANGED <<voteConsensusCnt, tally>>
    /\ role' = [role EXCEPT ![s] =
                  IF @ = "candidate" /\ rpc[s][p].granted = 2 THEN "follower" ELSE @]
    /\ SetRpc(s, p, Done(0))
    /\ UNCHANGED <<currentTerm, persisting>>

\* The answer of a RequestVote call, in _VmDirRequestVoteRpc.
RequestVoteReply(s, p) ==
    /\ Answered(s, p)
    /\ rpc[s][p].kind = "vote"
    /\ AdoptPeerTerm(s, p) \/ CountVote(s, p)
    /\ UNCHANGED <<votedFor, votedForTerm, voteConsensusTerm, cmd, psTerm, pc,
                   schdTerm, bounds, ballots, elected>>

\* The answer of a ping, in _VmDirAppendEntriesRpc (its log part is in
\* RaftReplication).
PingReply(s, p) ==
    /\ Answered(s, p)
    /\ rpc[s][p].kind = "ping"
    /\ \/ AdoptPeerTerm(s, p)
       \/ /\ rpc[s][p].peerTerm <= currentTerm[s]
          /\ SetRpc(s, p, Done(0))
          /\ UNCHANGED <<role, currentTerm, persisting, voteConsensusCnt, tally>>
    /\ UNCHANGED <<votedFor, votedForTerm, voteConsensusTerm, cmd, psTerm, pc,
                   schdTerm, bounds, ballots, elected>>

-----------------------------------------------------------------------------
(* The RPC handlers *)

\* gRaftRpcReplyMutex is held by _VmDirEvaluateVoteResult to its very end.
RpcReplyMutexFree(p) == pc[p] # "noop"

\* A handler that moved the server to a new term calls VmDirPersistTerm with it
\* before it answers.
HandlerDone(s, p, granted, newTerm) ==
    /\ currentTerm' = [currentTerm EXCEPT ![p] = newTerm]
    /\ persisting' = [persisting EXCEPT ![p] =
                        IF newTerm > currentTerm[p] THEN @ \cup {newTerm} ELSE @]
    /\ SetRpc(s, p, [rpc[s][p] EXCEPT
          !.st = "handled", !.granted = granted, !.peerTerm = newTerm,
          !.wait = IF newTerm > currentTerm[p] THEN newTerm ELSE 0])

\* Mutant of VoteDenied: votes given before are forgotten.
VoteDeniedForgetful(s, p, term) ==
    \/ term < currentTerm[p]
    \/ LogRank[p] > LogRank[s]
    \/ role[p] = "leader" /\ term = currentTerm[p]

\* The vote is refused: 2 when the voter's log is ahead, else 1.
VoteDenied(s, p, term) ==
    \/ term < currentTerm[p]
    \/ LogRank[p] > LogRank[s]
    \/ role[p] = "leader" /\ term = currentTerm[p]
    \/ votedFor[p] \notin {Nil, s} /\ votedForTerm[p] = term

\* _VmDirRequestVoteGetReply: server p serves the call of candidate s.
RequestVoteGetReply(s, p) ==
    LET term == rpc[s][p].term IN
    /\ rpc[s][p].st = "request"
    /\ rpc[s][p].kind = "vote"
    /\ RpcReplyMutexFree(p)
    /\ HandlerDone(s, p,
          IF ~VoteDenied(s, p, term) THEN 0
          ELSE IF LogRank[p] > LogRank[s] THEN 2 ELSE 1,
          IF term > currentTerm[p] THEN term ELSE currentTerm[p])
    /\ role' = [role EXCEPT ![p] = IF term > currentTerm[p] THEN "follower" ELSE @]
    /\ IF VoteDenied(s, p, term)
       THEN UNCHANGED <<votedFor, votedForTerm, ballots>>
       ELSE /\ votedFor' = [votedFor EXCEPT ![p] = s]
            /\ votedForTerm' = [votedForTerm EXCEPT ![p] = term]
            /\ ballots' = ballots \cup {<<term, p, s>>}
    /\ UNCHANGED <<voteConsensusCnt, voteConsensusTerm, cmd, psTerm, pc,
                   schdTerm, bounds, tally, elected>>

\* The role and term part of _VmDirAppendEntriesGetReply: a stale leader is told
\* the term; a candidate or leader of a lower term follows but answers with an
\* error; everybody else follows.
AppendEntriesGetReply(s, p) ==
    LET term == rpc[s][p].term IN
    /\ rpc[s][p].st = "request"
    /\ rpc[s][p].kind = "ping"
    /\ RpcReplyMutexFree(p)
    /\ \/ /\ term < currentTerm[p]
          /\ HandlerDone(s, p, 1, currentTerm[p])
          /\ UNCHANGED role
       \/ /\ term > currentTerm[p]
          /\ role[p] # "follower"
          /\ role' = [role EXCEPT ![p] = "follower"]
          /\ currentTerm' = [currentTerm EXCEPT ![p] = term]
          /\ persisting' = [persisting EXCEPT ![p] = @ \cup {term}]
          /\ SetRpc(s, p, Done(0))
       \/ /\ term = currentTerm[p] \/ (term > currentTerm[p] /\ role[p] = "follower")
          /\ HandlerDone(s, p, 1, term)
          /\ role' = [role EXCEPT ![p] = "follower"]
    /\ UNCHANGED <<votedFor, votedForTerm, voteConsensusCnt, voteConsensusTerm,
                   cmd, psTerm, pc, schdTerm, bounds, history>>

-----------------------------------------------------------------------------
(* The disk *)

\* One VmDirPersistTerm call gets the MDB write lock.  Nothing orders the calls
\* of different threads.
PersistTerm(s, t) ==
    /\ t \in persisting[s]
    /\ psTerm' = [psTerm EXCEPT ![s] = t]
    /\ persisting' = [persisting EXCEPT ![s] = @ \ {t}]
    /\ UNCHANGED <<state, threads, bounds, history>>

\* The server crashes and VmDirLoadRaftState reads what is on disk: the term,
\* but no vote.  The calls it was making and the calls it was serving fail.
Restart(s) ==
    /\ restarts < MaxRestart
    /\ restarts' = restarts + 1
    /\ role' = [role EXCEPT ![s] = "follower"]
    /\ currentTerm' = [currentTerm EXCEPT ![s] = psTerm[s]]
    /\ votedFor' = [votedFor EXCEPT ![s] = Nil]
    /\ votedForTerm' = [votedForTerm EXCEPT ![s] = 0]
    /\ voteConsensusCnt' = [voteConsensusCnt EXCEPT ![s] = 0]
    /\ voteConsensusTerm' = [voteConsensusTerm EXCEPT ![s] = 0]
    /\ cmd' = [cmd EXCEPT ![s] = "ExecNone"]
    /\ persisting' = [persisting EXCEPT ![s] = {}]
    /\ pc' = [pc EXCEPT ![s] = "wait"]
    /\ schdTerm' = [schdTerm EXCEPT ![s] = 0]
    /\ tally' = [tally EXCEPT ![s] = {}]
    /\ rpc' = [a \in Server |-> [b \in Server |->
                 IF a = s THEN IdleRpc
                 ELSE IF b = s /\ rpc[a][b].st \in {"request", "handled"}
                 THEN Done(0)
                 ELSE rpc[a][b]]]
    /\ UNCHANGED <<psTerm, rounds, fails, ballots, elected>>

-----------------------------------------------------------------------------

SchdStep(s) ==
    \/ ElectionTimeout(s) \/ PeersBecameReady(s) \/ VoteForSelf(s)
    \/ VoteResult(s) \/ EvaluateVoteResult(s) \/ NoopDone(s)

ProxyStep(s, p) ==
    \/ TakeCmd(s, p) \/ SendRequestVote(s, p) \/ SendPing(s, p)
    \/ RpcFail(s, p) \/ RpcDone(s, p)
    \/ RequestVoteReply(s, p) \/ PingReply(s, p)
    \/ RequestVoteGetReply(s, p) \/ AppendEntriesGetReply(s, p)

Next ==
    \/ \E s \in Server : SchdStep(s)
    \/ \E s \in Server : \E p \in Peer(s) : ProxyStep(s, p)
    \/ \E s \in Server : \E t \in persisting[s] : PersistTerm(s, t)
    \/ \E s \in Server : Restart(s)

Spec == Init /\ [][Next]_vars
-----------------------------------------------------------------------------
(* Correctness *)

\* No two servers are elected leader in the same term (the paper's Election
\* Safety): what _VmDirEvaluateVoteResult must guarantee over all the ballots
\* counted by _VmDirRequestVoteRpc on all the servers.
ElectionSafety ==
    \A e1, e2 \in elected : e1[1] = e2[1] => e1[2] = e2[2]

\* A server gives its vote to one candidate per term, however its scheduler
\* thread, which votes for itself after an unlocked VmDirPersistTerm, and its
\* vote handler interleave.
OneVotePerTerm ==
    \A b1, b2 \in ballots :
        b1[1] = b2[1] /\ b1[2] = b2[2] => b1[3] = b2[3]

\* gRaftState.voteConsensusCnt never exceeds the number of votes the server has
\* really been given in voteConsensusTerm, whenever an answer arrives.
TallyIsReal ==
    \A s \in Server :
        voteConsensusCnt[s] <=
            Cardinality({v \in Server : <<voteConsensusTerm[s], v, s>> \in ballots})

\* Once the election of a term is over, a server that voted in that term or has
\* moved past it cannot make another server leader of it: while a leader is in
\* office, no other server holds a live majority for the leader's term.
LeaderNotChallenged ==
    \A s, t \in Server :
        /\ role[s] = "leader"
        /\ s # t
        /\ role[t] = "candidate"
        /\ currentTerm[t] = currentTerm[s]
        /\ voteConsensusTerm[t] = currentTerm[t]
        => voteConsensusCnt[t] < Majority

\* A leader learns of a peer's higher term and steps down, unless the peer crashes
\* and forgets the term.
StaleLeaderStepsDown ==
    \A s \in Server : \A p \in Peer(s) : \A t \in 1..MaxRound :
        (role[s] = "leader" /\ currentTerm[s] = t /\ currentTerm[p] > t)
            ~> (role[s] # "leader" \/ currentTerm[p] <= t)

\* Threads that can run do run, the MDB lock is granted, and a call that is
\* repeated for ever does not fail for ever.
Fairness ==
    \A s \in Server :
        /\ WF_vars(VoteForSelf(s) \/ VoteResult(s) \/ EvaluateVoteResult(s) \/ NoopDone(s))
        /\ \A t \in 1..(MaxRound + 1) : WF_vars(PersistTerm(s, t))
        /\ \A p \in Peer(s) :
              /\ WF_vars(TakeCmd(s, p) \/ SendRequestVote(s, p) \/ SendPing(s, p)
                         \/ RpcDone(s, p))
              /\ SF_vars(RequestVoteGetReply(s, p) \/ AppendEntriesGetReply(s, p))
              /\ WF_vars(RequestVoteReply(s, p) \/ PingReply(s, p))

FairSpec == Spec /\ Fairness
-----------------------------------------------------------------------------
(* Why elections are safe when no call outlives its round and no server       *)
(* crashes: the inductive invariant behind ElectionSafety.                    *)

\* A vote is being asked of p on behalf of s.
VoteRpc(s, p) ==
    rpc[s][p].kind = "vote" /\ rpc[s][p].st \in {"taken", "request", "handled"}

\* Terms only grow: no recorded vote or count is ahead of the current term.
TermsOrdered ==
    \A s \in Server :
        /\ currentTerm[s] >= 1
        /\ votedForTerm[s] <= currentTerm[s]
        /\ voteConsensusTerm[s] <= currentTerm[s]
        /\ votedFor[s] = Nil => votedForTerm[s] = 0

\* gRaftState remembers the last vote, and there was one per term.
VotesRemembered ==
    /\ OneVotePerTerm
    /\ \A b \in ballots :
          /\ b[1] <= votedForTerm[b[2]]
          /\ b[1] = votedForTerm[b[2]] => b[3] = votedFor[b[2]]

\* A vote asked for is of the round being counted, or of a later term.
RpcOfThisRound(s, p) ==
    /\ rpc[s][p].st \in {"idle", "done"} => rpc[s][p].kind = "none"
    /\ rpc[s][p].st = "taken" => rpc[s][p].kind = "vote"
    /\ VoteRpc(s, p) /\ rpc[s][p].st # "taken" =>
         /\ voteConsensusTerm[s] <= rpc[s][p].term
         /\ rpc[s][p].term <= currentTerm[s]
    /\ VoteRpc(s, p) /\ rpc[s][p].st = "handled" /\ rpc[s][p].granted = 0 =>
         <<rpc[s][p].term, p, s>> \in ballots
RpcsOfThisRound == \A s \in Server : \A p \in Peer(s) : RpcOfThisRound(s, p)

\* Every count is backed by that many ballots of its term.
TallyBacked ==
    \A s \in Server :
        /\ voteConsensusCnt[s] = Cardinality(tally[s])
        /\ \A v \in tally[s] : <<voteConsensusTerm[s], v, s>> \in ballots

\* A peer that has been counted is not asked again in the round.
CountedOnce(s, p) ==
    p \in tally[s] =>
        /\ ~VoteRpc(s, p)
        /\ cmd[s] = "ExecReqestVote" => rpc[s][p].st = "done"
PeersCountedOnce == \A s \in Server : \A p \in Peer(s) : CountedOnce(s, p)

\* ExecReqestVote is only up while its round waits for the result, and no vote
\* is being asked when a new round starts.
RoundSeparate(s, p) ==
    /\ cmd[s] = "ExecReqestVote" => pc[s] = "result"
    /\ pc[s] = "persist" => ~VoteRpc(s, p)
RoundsSeparate == \A s \in Server : \A p \in Peer(s) : RoundSeparate(s, p)

\* Every leader was elected by a majority of the ballots of its term.
LeadersBacked ==
    \A e \in elected :
        \E Q \in SUBSET Server :
            /\ Cardinality(Q) >= Majority
            /\ \A v \in Q : <<e[1], v, e[2]>> \in ballots

\* The conjunction of the above is kept by every step of the code, provided no
\* call outlives its round and no server restarts.
ElectionInv ==
    /\ TypeOK
    /\ TermsOrdered
    /\ VotesRemembered
    /\ RpcsOfThisRound
    /\ TallyBacked
    /\ PeersCountedOnce
    /\ RoundsSeparate
    /\ LeadersBacked
=============================================================================
