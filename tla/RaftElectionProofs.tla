------------------------- MODULE RaftElectionProofs -------------------------
(***************************************************************************)
(* Election safety of the lwraft election, for every cluster, log and      *)
(* bound, on two conditions that the code itself does not enforce: no call *)
(* outlives the election round it was made in, and no server restarts.     *)
(***************************************************************************)
EXTENDS RaftElection, FiniteSetTheorems, TLAPS

\* The size of the cluster and its majority are numbers.
LEMMA ClusterSizeNat == clusterSize \in Nat /\ Majority \in Nat
  BY ServerAssumption DEF clusterSize, Majority

\* Two majorities, as the code computes them, share a server.
LEMMA MajoritiesIntersect ==
    ASSUME NEW Q1 \in SUBSET Server, NEW Q2 \in SUBSET Server,
           Cardinality(Q1) >= Majority, Cardinality(Q2) >= Majority
    PROVE  Q1 \cap Q2 # {}
  <1>1. IsFiniteSet(Q1) /\ IsFiniteSet(Q2)
    BY ServerAssumption, FS_Subset
  <1>2. Cardinality(Q1) \in Nat /\ Cardinality(Q2) \in Nat
    BY <1>1, FS_CardinalityType
  <1>3. Cardinality(Q1) + Cardinality(Q2) > Cardinality(Server)
    BY <1>2, ServerAssumption DEF Majority, clusterSize
  <1> QED
    BY <1>3, ServerAssumption, FS_MajoritiesIntersect

-----------------------------------------------------------------------------

\* The initial state of a freshly installed cluster satisfies the invariant.
LEMMA InitInv == Init => ElectionInv
  <1> SUFFICES ASSUME Init PROVE ElectionInv
    OBVIOUS
  <1>1. TypeOK
    BY ServerAssumption DEF Init, TypeOK, Rpc, IdleRpc, Role, SchdPc, RpcState
  <1>2. TermsOrdered /\ VotesRemembered /\ LeadersBacked
    BY ServerAssumption
    DEF Init, TermsOrdered, VotesRemembered, OneVotePerTerm, LeadersBacked
  <1>3. RpcsOfThisRound /\ RoundsSeparate /\ PeersCountedOnce
    BY DEF Init, RpcsOfThisRound, RpcOfThisRound, RoundsSeparate, RoundSeparate,
       PeersCountedOnce, CountedOnce, VoteRpc, IdleRpc, Peer
  <1>4. TallyBacked
    BY FS_EmptySet DEF Init, TallyBacked
  <1> QED
    BY <1>1, <1>2, <1>3, <1>4 DEF ElectionInv

\* Updating one call of the table of calls.
LEMMA RpcUpdate ==
    ASSUME rpc \in [Server -> [Server -> Rpc]], NEW s \in Server, NEW p \in Server,
           NEW r \in Rpc, SetRpc(s, p, r)
    PROVE  /\ rpc' \in [Server -> [Server -> Rpc]]
           /\ rpc'[s][p] = r
           /\ \A a, b \in Server : a # s \/ b # p => rpc'[a][b] = rpc[a][b]
  BY DEF SetRpc

\* The records that calls are made of.
LEMMA RpcRecords ==
    /\ IdleRpc \in Rpc
    /\ Taken \in Rpc
    /\ \A t \in Nat : Done(t) \in Rpc /\ Call("vote", t) \in Rpc /\ Call("ping", t) \in Rpc
  <1>1. IdleRpc \in Rpc
    BY DEF IdleRpc, Rpc, RpcState
  <1>2. Taken \in Rpc
    BY <1>1 DEF Rpc, RpcState, Taken
  <1>3. ASSUME NEW t \in Nat PROVE Done(t) \in Rpc
    BY <1>1 DEF Rpc, RpcState, Done
  <1>4. ASSUME NEW t \in Nat PROVE Call("vote", t) \in Rpc
    BY <1>1 DEF Rpc, RpcState, Call
  <1>5. ASSUME NEW t \in Nat PROVE Call("ping", t) \in Rpc
    BY <1>1 DEF Rpc, RpcState, Call
  <1> QED
    BY <1>1, <1>2, <1>3, <1>4, <1>5

\* The record a handler leaves behind is well formed.
LEMMA HandledRpc ==
    ASSUME NEW r \in Rpc, NEW g \in 0..2, NEW t \in Nat, NEW w \in Nat
    PROVE  [r EXCEPT !.st = "handled", !.granted = g, !.peerTerm = t, !.wait = w] \in Rpc
  BY DEF Rpc, RpcState

\* Every step keeps the types.
LEMMA TypeStep == TypeOK /\ [Next]_vars => TypeOK'
  <1> SUFFICES ASSUME TypeOK, [Next]_vars PROVE TypeOK'
    OBVIOUS
  <1> USE DEF TypeOK, vars, state, disk, threads, bounds, history
  <1>1. ASSUME NEW s \in Server, SchdStep(s) PROVE TypeOK'
    <2> USE DEF Role, SchdPc
    <2>1. CASE ElectionTimeout(s)
      <3>1. currentTerm[s] + 1 \in Nat /\ rounds + 1 \in Nat
        OBVIOUS
      <3>2. CASE PeersReady(s) /\ BeginTerm(s)
        BY <2>1, <3>1, <3>2 DEF ElectionTimeout, BeginTerm
      <3>3. CASE ~PeersReady(s)
        BY <2>1, <3>3 DEF ElectionTimeout
      <3> QED
        BY <2>1, <3>2, <3>3 DEF ElectionTimeout
    <2>2. CASE PeersBecameReady(s)
      BY <2>2 DEF PeersBecameReady, BeginTerm
    <2>3. CASE VoteForSelf(s)
      <3>1. CASE ~OpenBallot(s)
        BY <2>3, <3>1 DEF VoteForSelf
      <3>2. <<currentTerm[s], s, s>> \in Nat \X Server \X Server
        OBVIOUS
      <3>3. CASE OpenBallot(s)
        <4>1. ballots' \in SUBSET (Nat \X Server \X Server)
          BY <3>2, <3>3 DEF OpenBallot
        <4>2. /\ votedFor' \in [Server -> Server \cup {Nil}]
              /\ votedForTerm' \in [Server -> Nat]
          BY <3>3 DEF OpenBallot
        <4>3. /\ voteConsensusCnt' \in [Server -> Nat]
              /\ voteConsensusTerm' \in [Server -> Nat]
          BY <3>3 DEF OpenBallot
        <4>4. /\ cmd' \in [Server -> {"ExecNone", "ExecReqestVote"}]
              /\ tally' \in [Server -> SUBSET Server]
              /\ pc' \in [Server -> SchdPc]
          BY <3>3 DEF OpenBallot
        <4>5. UNCHANGED <<role, currentTerm, disk, rpc, bounds, elected>>
              /\ schdTerm' \in [Server -> Nat]
          BY <2>3, <3>3 DEF VoteForSelf, OpenBallot
        <4> QED
          BY <4>1, <4>2, <4>3, <4>4, <4>5
      <3> QED
        BY <3>1, <3>3
    <2>4. CASE VoteResult(s)
      BY <2>4 DEF VoteResult
    <2>5. CASE EvaluateVoteResult(s)
      <3>1. elected' \in SUBSET (Nat \X Server)
        BY <2>5 DEF EvaluateVoteResult
      <3> QED
        BY <2>5, <3>1 DEF EvaluateVoteResult
    <2>6. CASE NoopDone(s)
      BY <2>6 DEF NoopDone
    <2> QED
      BY <1>1, <2>1, <2>2, <2>3, <2>4, <2>5, <2>6 DEF SchdStep
  <1>2. ASSUME NEW s \in Server, NEW p \in Peer(s), ProxyStep(s, p) PROVE TypeOK'
    <2>a. p \in Server
      BY DEF Peer
    <2>b. rpc[s][p] \in Rpc
      BY <2>a
    <2>c. rpc[s][p].peerTerm \in Nat /\ rpc[s][p].term \in Nat
      BY <2>b DEF Rpc
    <2>d. Done(0) \in Rpc /\ Done(rpc[s][p].peerTerm) \in Rpc
      BY <2>c, RpcRecords
    <2>1. CASE TakeCmd(s, p)
      <3>1. rpc' \in [Server -> [Server -> Rpc]]
        BY <2>1, <2>a, RpcUpdate, RpcRecords DEF TakeCmd
      <3> QED
        BY <2>1, <3>1 DEF TakeCmd
    <2>2. CASE SendRequestVote(s, p)
      <3>1. rpc' \in [Server -> [Server -> Rpc]]
        BY <2>2, <2>a, RpcUpdate, RpcRecords DEF SendRequestVote
      <3> QED
        BY <2>2, <3>1 DEF SendRequestVote
    <2>3. CASE SendPing(s, p)
      <3>1. rpc' \in [Server -> [Server -> Rpc]]
        BY <2>3, <2>a, RpcUpdate, RpcRecords DEF SendPing
      <3> QED
        BY <2>3, <3>1 DEF SendPing
    <2>4. CASE RpcFail(s, p)
      <3>1. rpc' \in [Server -> [Server -> Rpc]]
        BY <2>4, <2>a, <2>d, RpcUpdate DEF RpcFail
      <3> QED
        BY <2>4, <3>1 DEF RpcFail
    <2>5. CASE RpcDone(s, p)
      <3>1. rpc' \in [Server -> [Server -> Rpc]]
        BY <2>5, <2>a, RpcUpdate, RpcRecords DEF RpcDone
      <3> QED
        BY <2>5, <3>1 DEF RpcDone
    <2>e. ASSUME AdoptPeerTerm(s, p)
          PROVE  /\ rpc' \in [Server -> [Server -> Rpc]]
                 /\ role' \in [Server -> Role]
                 /\ currentTerm' \in [Server -> Nat]
                 /\ persisting' \in [Server -> SUBSET Nat]
                 /\ voteConsensusCnt' \in [Server -> Nat]
                 /\ tally' \in [Server -> SUBSET Server]
      <3>1. rpc' \in [Server -> [Server -> Rpc]]
        BY <2>e, <2>a, <2>d, RpcUpdate DEF AdoptPeerTerm
      <3> QED
        BY <2>e, <3>1, <2>c DEF AdoptPeerTerm, Role
    <2>6. CASE RequestVoteReply(s, p)
      <3>1. CASE AdoptPeerTerm(s, p)
        BY <2>6, <3>1, <2>e DEF RequestVoteReply
      <3>2. CASE CountVote(s, p)
        <4>1. rpc' \in [Server -> [Server -> Rpc]]
          BY <3>2, <2>a, <2>d, RpcUpdate DEF CountVote, VoteCounts
        <4>2. role' \in [Server -> Role]
          BY <3>2 DEF CountVote, VoteCounts, Role
        <4>3. /\ voteConsensusCnt' \in [Server -> Nat]
              /\ tally' \in [Server -> SUBSET Server]
          <5>1. CASE UNCHANGED <<voteConsensusCnt, tally>>
            BY <5>1
          <5>2. CASE /\ voteConsensusCnt' = [voteConsensusCnt EXCEPT ![s] = @ + 1]
                     /\ tally' = [tally EXCEPT ![s] = @ \cup {p}]
            BY <5>2, <2>a
          <5> QED
            BY <3>2, <5>1, <5>2 DEF CountVote, VoteCounts
        <4> QED
          BY <2>6, <3>2, <4>1, <4>2, <4>3 DEF RequestVoteReply, CountVote, VoteCounts
      <3> QED
        BY <2>6, <3>1, <3>2 DEF RequestVoteReply
    <2>7. CASE PingReply(s, p)
      <3>1. CASE AdoptPeerTerm(s, p)
        BY <2>7, <3>1, <2>e DEF PingReply
      <3>2. CASE ~AdoptPeerTerm(s, p)
        <4>1. rpc' \in [Server -> [Server -> Rpc]]
          BY <2>7, <3>2, <2>a, <2>d, RpcUpdate DEF PingReply
        <4> QED
          BY <2>7, <3>2, <4>1 DEF PingReply
      <3> QED
        BY <3>1, <3>2
    <2>f. ASSUME NEW g \in 0..2, NEW t \in Nat, HandlerDone(s, p, g, t)
          PROVE  /\ rpc' \in [Server -> [Server -> Rpc]]
                 /\ currentTerm' \in [Server -> Nat]
                 /\ persisting' \in [Server -> SUBSET Nat]
      <3>1. rpc' \in [Server -> [Server -> Rpc]]
        <4> DEFINE w == IF t > currentTerm[p] THEN t ELSE 0
                   r == [rpc[s][p] EXCEPT !.st = "handled", !.granted = g,
                                          !.peerTerm = t, !.wait = w]
        <4>1. w \in Nat
          OBVIOUS
        <4>2. r \in Rpc
          BY <2>b, <4>1, HandledRpc
        <4>3. SetRpc(s, p, r)
          BY <2>f DEF HandlerDone
        <4> HIDE DEF r
        <4> QED
          BY <2>a, <4>2, <4>3, RpcUpdate
      <3> QED
        BY <2>f, <2>a, <3>1 DEF HandlerDone
    <2>8. CASE RequestVoteGetReply(s, p)
      <3> DEFINE term == rpc[s][p].term
                 g == IF ~VoteDenied(s, p, term) THEN 0
                      ELSE IF LogRank[p] > LogRank[s] THEN 2 ELSE 1
                 t == IF term > currentTerm[p] THEN term ELSE currentTerm[p]
      <3>1. g \in 0..2 /\ t \in Nat
        BY <2>a, <2>c
      <3>2. HandlerDone(s, p, g, t)
        BY <2>8 DEF RequestVoteGetReply
      <3>3. /\ rpc' \in [Server -> [Server -> Rpc]]
            /\ currentTerm' \in [Server -> Nat]
            /\ persisting' \in [Server -> SUBSET Nat]
        <4> HIDE DEF g, t
        <4> QED
          BY <3>1, <3>2, <2>f
      <3>4. <<term, p, s>> \in Nat \X Server \X Server
        BY <2>a, <2>c
      <3>5. ballots' \in SUBSET (Nat \X Server \X Server)
        BY <2>8, <3>4 DEF RequestVoteGetReply
      <3>6. /\ votedFor' \in [Server -> Server \cup {Nil}]
            /\ votedForTerm' \in [Server -> Nat]
        <4>1. CASE UNCHANGED <<votedFor, votedForTerm>>
          BY <4>1
        <4>2. CASE /\ votedFor' = [votedFor EXCEPT ![p] = s]
                   /\ votedForTerm' = [votedForTerm EXCEPT ![p] = rpc[s][p].term]
          BY <4>2, <2>a, <2>c
        <4> QED
          BY <2>8, <4>1, <4>2 DEF RequestVoteGetReply
      <3>7. role' \in [Server -> Role]
        BY <2>8, <2>a DEF RequestVoteGetReply, Role
      <3> QED
        BY <2>8, <3>3, <3>5, <3>6, <3>7 DEF RequestVoteGetReply
    <2>9. CASE AppendEntriesGetReply(s, p)
      <3> DEFINE term == rpc[s][p].term
      <3>1. role' \in [Server -> Role]
        BY <2>9, <2>a DEF AppendEntriesGetReply, Role
      <3>2. /\ rpc' \in [Server -> [Server -> Rpc]]
            /\ currentTerm' \in [Server -> Nat]
            /\ persisting' \in [Server -> SUBSET Nat]
        <4>1. CASE HandlerDone(s, p, 1, currentTerm[p]) \/ HandlerDone(s, p, 1, term)
          BY <4>1, <2>a, <2>c, <2>f
        <4>2. CASE /\ currentTerm' = [currentTerm EXCEPT ![p] = term]
                   /\ persisting' = [persisting EXCEPT ![p] = @ \cup {term}]
                   /\ SetRpc(s, p, Done(0))
          <5>1. rpc' \in [Server -> [Server -> Rpc]]
            BY <4>2, <2>a, <2>d, RpcUpdate
          <5> QED
            BY <4>2, <5>1, <2>a, <2>c
        <4> QED
          BY <2>9, <4>1, <4>2 DEF AppendEntriesGetReply
      <3> QED
        BY <2>9, <3>1, <3>2 DEF AppendEntriesGetReply
    <2> QED
      BY <1>2, <2>1, <2>2, <2>3, <2>4, <2>5, <2>6, <2>7, <2>8, <2>9 DEF ProxyStep
  <1>3. ASSUME NEW s \in Server, NEW t \in persisting[s], PersistTerm(s, t)
        PROVE  TypeOK'
    BY <1>3 DEF PersistTerm
  <1>4. ASSUME NEW s \in Server, Restart(s) PROVE TypeOK'
    <2>1. rpc' \in [Server -> [Server -> Rpc]]
      BY <1>4, RpcRecords DEF Restart
    <2> QED
      BY <1>4, <2>1 DEF Restart, Role, SchdPc
  <1>5. CASE UNCHANGED vars
    BY <1>5
  <1> QED
    BY <1>1, <1>2, <1>3, <1>4, <1>5 DEF Next

\* The type invariant holds of every behaviour, with restarts and late answers.
THEOREM TypeCorrect == Spec => []TypeOK
  <1>1. Init => TypeOK
    BY InitInv DEF ElectionInv
  <1> QED
    BY <1>1, TypeStep, PTL DEF Spec
-----------------------------------------------------------------------------
(* The parts of the inductive invariant, one lemma each.  No server restarts *)
(* and no call outlives its round.                                           *)

\* The fields of the records that calls are made of.
LEMMA RpcFields ==
    /\ IdleRpc.st = "idle" /\ IdleRpc.kind = "none"
    /\ Taken.st = "taken"
    /\ Taken.kind = "vote"
    /\ \A t \in Nat : Done(t).st = "done" /\ Done(t).kind = "none"
    /\ \A t \in Nat : \A k \in {"vote", "ping"} :
          Call(k, t).st = "request" /\ Call(k, t).kind = k /\ Call(k, t).term = t
  BY DEF IdleRpc, Taken, Done, Call

\* Without a budget for crashes there is no crash.
LEMMA NoRestart ==
    ASSUME MaxRestart = 0, TypeOK, NEW s \in Server
    PROVE  ~Restart(s)
  BY DEF Restart, TypeOK

\* Terms only grow.
LEMMA TermsOrderedStep ==
    ASSUME MaxRestart = 0, ElectionInv, [Next]_vars
    PROVE  TermsOrdered'
  <1> USE DEF TermsOrdered
  <1>0. TypeOK /\ TermsOrdered
    BY DEF ElectionInv
  <1>1. ASSUME NEW s \in Server, SchdStep(s) PROVE TermsOrdered'
    <2>1. CASE ElectionTimeout(s)
      BY <1>0, <2>1 DEF ElectionTimeout, BeginTerm, TypeOK
    <2>2. CASE PeersBecameReady(s)
      BY <1>0, <2>2 DEF PeersBecameReady, BeginTerm, TypeOK
    <2>3. CASE VoteForSelf(s)
      <3>1. CASE OpenBallot(s)
        BY <1>0, <3>1, ServerAssumption DEF OpenBallot, TypeOK
      <3>2. CASE ~OpenBallot(s)
        BY <1>0, <2>3, <3>2 DEF VoteForSelf, state
      <3> QED
        BY <3>1, <3>2
    <2>4. CASE VoteResult(s)
      BY <1>0, <2>4 DEF VoteResult
    <2>5. CASE EvaluateVoteResult(s)
      BY <1>0, <2>5 DEF EvaluateVoteResult
    <2>6. CASE NoopDone(s)
      BY <1>0, <2>6 DEF NoopDone
    <2> QED
      BY <1>1, <2>1, <2>2, <2>3, <2>4, <2>5, <2>6 DEF SchdStep
  <1>2. ASSUME NEW s \in Server, NEW p \in Peer(s), ProxyStep(s, p)
        PROVE  TermsOrdered'
    <2>a. p \in Server /\ rpc[s][p].peerTerm \in Nat /\ rpc[s][p].term \in Nat
      BY <1>0 DEF Peer, TypeOK, Rpc
    <2>1. CASE TakeCmd(s, p) \/ SendRequestVote(s, p) \/ SendPing(s, p) \/ RpcFail(s, p)
               \/ RpcDone(s, p)
      BY <1>0, <2>1 DEF TakeCmd, SendRequestVote, SendPing, RpcFail, RpcDone, state
    <2>2. ASSUME AdoptPeerTerm(s, p), UNCHANGED <<votedFor, votedForTerm, voteConsensusTerm>>
          PROVE  TermsOrdered'
      BY <1>0, <2>a, <2>2 DEF AdoptPeerTerm, TypeOK
    <2>3. CASE RequestVoteReply(s, p)
      BY <1>0, <2>2, <2>3 DEF RequestVoteReply, CountVote, VoteCounts
    <2>4. CASE PingReply(s, p)
      BY <1>0, <2>2, <2>4 DEF PingReply
    <2>5. CASE RequestVoteGetReply(s, p)
      <3>1. currentTerm' = [currentTerm EXCEPT ![p] =
                              IF rpc[s][p].term > @ THEN rpc[s][p].term ELSE @]
        BY <1>0, <2>5, <2>a DEF RequestVoteGetReply, HandlerDone, TypeOK
      <3>2. voteConsensusTerm' = voteConsensusTerm
        BY <2>5 DEF RequestVoteGetReply
      <3>3. CASE VoteDenied(s, p, rpc[s][p].term)
        <4>1. UNCHANGED <<votedFor, votedForTerm>>
          BY <2>5, <3>3 DEF RequestVoteGetReply
        <4> QED
          BY <1>0, <2>a, <3>1, <3>2, <4>1 DEF TypeOK
      <3>4. CASE ~VoteDenied(s, p, rpc[s][p].term)
        <4>1. /\ votedFor' = [votedFor EXCEPT ![p] = s]
              /\ votedForTerm' = [votedForTerm EXCEPT ![p] = rpc[s][p].term]
          BY <2>5, <3>4 DEF RequestVoteGetReply
        <4> QED
          BY <1>0, <2>a, <3>1, <3>2, <4>1, ServerAssumption DEF TypeOK
      <3> QED
        BY <3>3, <3>4
    <2>6. CASE AppendEntriesGetReply(s, p)
      <3>1. currentTerm' = [currentTerm EXCEPT ![p] =
                              IF rpc[s][p].term > @ THEN rpc[s][p].term ELSE @]
        BY <1>0, <2>6, <2>a DEF AppendEntriesGetReply, HandlerDone, TypeOK
      <3>2. UNCHANGED <<votedFor, votedForTerm, voteConsensusTerm>>
        BY <2>6 DEF AppendEntriesGetReply
      <3> QED
        BY <1>0, <2>a, <3>1, <3>2 DEF TypeOK
    <2> QED
      BY <1>2, <2>1, <2>3, <2>4, <2>5, <2>6 DEF ProxyStep
  <1>3. ASSUME NEW s \in Server, NEW t \in persisting[s], PersistTerm(s, t)
        PROVE  TermsOrdered'
    BY <1>0, <1>3 DEF PersistTerm, state
  <1>4. CASE UNCHANGED vars
    BY <1>0, <1>4 DEF vars, state
  <1> QED
    BY <1>0, <1>1, <1>2, <1>3, <1>4, NoRestart DEF Next

\* A vote given in a term no older than the current one, and not against an
\* earlier vote of that term, keeps the votes consistent.
LEMMA VoteRemembered ==
    ASSUME TypeOK, TermsOrdered, VotesRemembered,
           NEW s \in Server, NEW p \in Server, NEW t \in Nat,
           t >= currentTerm[p],
           votedForTerm[p] = t => votedFor[p] \in {Nil, s},
           votedFor' = [votedFor EXCEPT ![p] = s],
           votedForTerm' = [votedForTerm EXCEPT ![p] = t],
           ballots' = ballots \cup {<<t, p, s>>}
    PROVE  VotesRemembered'
  <1>1. /\ t >= votedForTerm[p]
        /\ votedForTerm[p] = t => votedFor[p] = s
    BY DEF TypeOK, TermsOrdered
  <1>2. \A b \in ballots : /\ b \in Nat \X Server \X Server
                           /\ b[1] \in Nat /\ b[2] \in Server /\ b[3] \in Server
    BY DEF TypeOK
  <1>3. \A b \in ballots : b[2] = p /\ b[1] = t => b[3] = s
    BY <1>1, <1>2 DEF VotesRemembered, TypeOK
  <1>4. OneVotePerTerm'
    BY <1>3 DEF VotesRemembered, OneVotePerTerm
  <1>5. ASSUME NEW b \in ballots'
        PROVE  /\ b[1] <= votedForTerm'[b[2]]
               /\ b[1] = votedForTerm'[b[2]] => b[3] = votedFor'[b[2]]
    <2>1. CASE b = <<t, p, s>>
      BY <2>1 DEF TypeOK
    <2>2. CASE b \in ballots /\ b[2] = p
      BY <1>1, <1>2, <1>3, <2>2 DEF VotesRemembered, TypeOK
    <2>3. CASE b \in ballots /\ b[2] # p
      BY <1>2, <2>3 DEF VotesRemembered, TypeOK
    <2> QED
      BY <2>1, <2>2, <2>3
  <1> QED
    BY <1>4, <1>5 DEF VotesRemembered

\* Every step keeps the votes consistent.
LEMMA VotesRememberedStep ==
    ASSUME MaxRestart = 0, ElectionInv, [Next]_vars
    PROVE  VotesRemembered'
  <1>0. TypeOK /\ TermsOrdered /\ VotesRemembered
    BY DEF ElectionInv
  <1>1. ASSUME UNCHANGED <<votedFor, votedForTerm, ballots>> PROVE VotesRemembered'
    BY <1>0, <1>1 DEF VotesRemembered, OneVotePerTerm
  <1>2. ASSUME NEW s \in Server, SchdStep(s) PROVE VotesRemembered'
    <2>1. CASE VoteForSelf(s) /\ OpenBallot(s)
      <3>1. CASE currentTerm[s] = schdTerm[s]
                 /\ ~(votedForTerm[s] = currentTerm[s] /\ votedFor[s] # Nil)
        <4>1. /\ currentTerm[s] \in Nat
              /\ currentTerm[s] >= currentTerm[s]
              /\ votedForTerm[s] = currentTerm[s] => votedFor[s] \in {Nil, s}
          BY <1>0, <3>1 DEF TypeOK
        <4>2. /\ votedFor' = [votedFor EXCEPT ![s] = s]
              /\ votedForTerm' = [votedForTerm EXCEPT ![s] = currentTerm[s]]
              /\ ballots' = ballots \cup {<<currentTerm[s], s, s>>}
          BY <2>1 DEF OpenBallot
        <4> QED
          BY <1>0, <4>1, <4>2, VoteRemembered
      <3>2. CASE ~(currentTerm[s] = schdTerm[s]
                   /\ ~(votedForTerm[s] = currentTerm[s] /\ votedFor[s] # Nil))
        BY <1>1, <2>1, <3>2 DEF VoteForSelf, AlreadyVoted, state
      <3> QED
        BY <3>1, <3>2
    <2>2. CASE ~(VoteForSelf(s) /\ OpenBallot(s))
      BY <1>1, <1>2, <2>2 DEF SchdStep, ElectionTimeout, PeersBecameReady,
         VoteForSelf, AlreadyVoted, VoteResult, EvaluateVoteResult, NoopDone, history, state
    <2> QED
      BY <2>1, <2>2
  <1>3. ASSUME NEW s \in Server, NEW p \in Peer(s), ProxyStep(s, p)
        PROVE  VotesRemembered'
    <2>1. CASE RequestVoteGetReply(s, p) /\ ~VoteDenied(s, p, rpc[s][p].term)
      <3>1. p \in Server /\ rpc[s][p].term \in Nat
        BY <1>0 DEF Peer, TypeOK, Rpc
      <3>2. /\ rpc[s][p].term >= currentTerm[p]
            /\ votedForTerm[p] = rpc[s][p].term => votedFor[p] \in {Nil, s}
        BY <1>0, <2>1, <3>1 DEF VoteDenied, TypeOK
      <3>3. /\ votedFor' = [votedFor EXCEPT ![p] = s]
            /\ votedForTerm' = [votedForTerm EXCEPT ![p] = rpc[s][p].term]
            /\ ballots' = ballots \cup {<<rpc[s][p].term, p, s>>}
        BY <2>1 DEF RequestVoteGetReply
      <3> QED
        BY <1>0, <3>1, <3>2, <3>3, VoteRemembered
    <2>2. CASE ~(RequestVoteGetReply(s, p) /\ ~VoteDenied(s, p, rpc[s][p].term))
      BY <1>1, <1>3, <2>2 DEF ProxyStep, TakeCmd, SendRequestVote, SendPing, RpcFail,
         RpcDone, RequestVoteReply, PingReply, RequestVoteGetReply,
         AppendEntriesGetReply, state, history
    <2> QED
      BY <2>1, <2>2
  <1>4. ASSUME NEW s \in Server, NEW t \in persisting[s], PersistTerm(s, t)
        PROVE  VotesRemembered'
    BY <1>1, <1>4 DEF PersistTerm, state, history
  <1>5. CASE UNCHANGED vars
    BY <1>1, <1>5 DEF vars, state, history
  <1> QED
    BY <1>0, <1>2, <1>3, <1>4, <1>5, NoRestart DEF Next

\* Only an election adds a leader, and no ballot is ever taken back.
LEMMA LeadersBackedStep ==
    ASSUME MaxRestart = 0, ElectionInv, [Next]_vars
    PROVE  LeadersBacked'
  <1>0. TypeOK /\ TallyBacked /\ LeadersBacked
    BY DEF ElectionInv
  <1>1. ASSUME elected' = elected, ballots \subseteq ballots' PROVE LeadersBacked'
    BY <1>0, <1>1 DEF LeadersBacked
  <1>2. ASSUME NEW s \in Server, SchdStep(s) PROVE LeadersBacked'
    <2>1. CASE EvaluateVoteResult(s) /\ elected' # elected
      <3>1. /\ currentTerm[s] = voteConsensusTerm[s]
            /\ voteConsensusCnt[s] >= Majority
            /\ elected' = elected \cup {<<currentTerm[s], s>>}
            /\ ballots' = ballots
        BY <2>1 DEF EvaluateVoteResult
      <3>2. /\ tally[s] \in SUBSET Server
            /\ Cardinality(tally[s]) >= Majority
            /\ \A v \in tally[s] : <<currentTerm[s], v, s>> \in ballots
        BY <1>0, <3>1 DEF TypeOK, TallyBacked
      <3> QED
        BY <1>0, <3>1, <3>2 DEF LeadersBacked
    <2>2. CASE ~(EvaluateVoteResult(s) /\ elected' # elected)
      BY <1>1, <1>2, <2>2 DEF SchdStep, ElectionTimeout, PeersBecameReady,
         VoteForSelf, OpenBallot, VoteResult, EvaluateVoteResult, NoopDone, history
    <2> QED
      BY <2>1, <2>2
  <1>3. ASSUME NEW s \in Server, NEW p \in Peer(s), ProxyStep(s, p)
        PROVE  LeadersBacked'
    BY <1>1, <1>3 DEF ProxyStep, TakeCmd, SendRequestVote, SendPing, RpcFail, RpcDone,
       RequestVoteReply, PingReply, RequestVoteGetReply, AppendEntriesGetReply, history
  <1>4. ASSUME NEW s \in Server, NEW t \in persisting[s], PersistTerm(s, t)
        PROVE  LeadersBacked'
    BY <1>1, <1>4 DEF PersistTerm, history
  <1>5. CASE UNCHANGED vars
    BY <1>1, <1>5 DEF vars, history
  <1> QED
    BY <1>0, <1>2, <1>3, <1>4, <1>5, NoRestart DEF Next

-----------------------------------------------------------------------------

\* What a step of a proxy thread does to the calls: it touches its own.
LEMMA ProxyRpc ==
    ASSUME TypeOK, NEW s \in Server, NEW p \in Peer(s), ProxyStep(s, p)
    PROVE  /\ \A a, b \in Server : a # s \/ b # p => rpc'[a][b] = rpc[a][b]
           /\ TakeCmd(s, p) => rpc'[s][p].st = "taken" /\ rpc'[s][p].kind = "vote"
           /\ SendRequestVote(s, p) => /\ rpc'[s][p].st = "request"
                                       /\ rpc'[s][p].kind = "vote"
                                       /\ rpc'[s][p].term = currentTerm[s]
           /\ SendPing(s, p) => rpc'[s][p].st = "request" /\ rpc'[s][p].kind = "ping"
           /\ RpcDone(s, p) => rpc'[s][p].st = "idle" /\ rpc'[s][p].kind = "none"
           /\ RpcFail(s, p) \/ RequestVoteReply(s, p) \/ PingReply(s, p) =>
                 rpc'[s][p].st = "done" /\ rpc'[s][p].kind = "none"
           /\ RequestVoteGetReply(s, p) =>
                 /\ rpc[s][p].st = "request" /\ rpc[s][p].kind = "vote"
                 /\ rpc'[s][p].st = "handled" /\ rpc'[s][p].kind = "vote"
                 /\ rpc'[s][p].term = rpc[s][p].term
                 /\ rpc'[s][p].granted = 0 => ~VoteDenied(s, p, rpc[s][p].term)
           /\ AppendEntriesGetReply(s, p) =>
                 \/ rpc'[s][p].st = "handled" /\ rpc'[s][p].kind = "ping"
                 \/ rpc'[s][p].st = "done" /\ rpc'[s][p].kind = "none"
  <1>a. /\ p \in Server /\ rpc[s][p] \in Rpc
        /\ rpc[s][p].peerTerm \in Nat /\ rpc[s][p].term \in Nat /\ currentTerm[s] \in Nat
    BY DEF Peer, TypeOK, Rpc
  <1>b. ASSUME NEW r, SetRpc(s, p, r)
        PROVE  /\ rpc'[s][p] = r
               /\ \A a, b \in Server : a # s \/ b # p => rpc'[a][b] = rpc[a][b]
    BY <1>a, <1>b DEF TypeOK, SetRpc
  <1>1. ASSUME TakeCmd(s, p)
        PROVE  /\ \A a, b \in Server : a # s \/ b # p => rpc'[a][b] = rpc[a][b]
               /\ rpc'[s][p].st = "taken" /\ rpc'[s][p].kind = "vote"
    BY <1>1, <1>b, RpcFields DEF TakeCmd
  <1>2. ASSUME SendRequestVote(s, p)
        PROVE  /\ \A a, b \in Server : a # s \/ b # p => rpc'[a][b] = rpc[a][b]
               /\ rpc'[s][p].st = "request" /\ rpc'[s][p].kind = "vote"
               /\ rpc'[s][p].term = currentTerm[s]
    BY <1>2, <1>a, <1>b, RpcFields DEF SendRequestVote
  <1>3. ASSUME SendPing(s, p)
        PROVE  /\ \A a, b \in Server : a # s \/ b # p => rpc'[a][b] = rpc[a][b]
               /\ rpc'[s][p].st = "request" /\ rpc'[s][p].kind = "ping"
    BY <1>3, <1>a, <1>b, RpcFields DEF SendPing
  <1>4. ASSUME RpcDone(s, p)
        PROVE  /\ \A a, b \in Server : a # s \/ b # p => rpc'[a][b] = rpc[a][b]
               /\ rpc'[s][p].st = "idle" /\ rpc'[s][p].kind = "none"
    BY <1>4, <1>b, RpcFields DEF RpcDone
  <1>5. ASSUME RpcFail(s, p) \/ RequestVoteReply(s, p) \/ PingReply(s, p)
        PROVE  /\ \A a, b \in Server : a # s \/ b # p => rpc'[a][b] = rpc[a][b]
               /\ rpc'[s][p].st = "done" /\ rpc'[s][p].kind = "none"
    <2>1. \E t \in Nat : SetRpc(s, p, Done(t))
      BY <1>5, <1>a DEF RpcFail, RequestVoteReply, PingReply, AdoptPeerTerm, CountVote, VoteCounts
    <2> QED
      BY <2>1, <1>b, RpcFields
  <1>6. ASSUME NEW g, NEW t, HandlerDone(s, p, g, t)
        PROVE  /\ \A a, b \in Server : a # s \/ b # p => rpc'[a][b] = rpc[a][b]
               /\ rpc'[s][p].st = "handled" /\ rpc'[s][p].kind = rpc[s][p].kind
               /\ rpc'[s][p].term = rpc[s][p].term
               /\ rpc'[s][p].granted = g
    <2> DEFINE w == IF t > currentTerm[p] THEN t ELSE 0
               r == [rpc[s][p] EXCEPT !.st = "handled", !.granted = g,
                                      !.peerTerm = t, !.wait = w]
    <2>1. SetRpc(s, p, r)
      BY <1>6 DEF HandlerDone
    <2>2. r.st = "handled" /\ r.kind = rpc[s][p].kind /\ r.term = rpc[s][p].term
          /\ r.granted = g
      BY <1>a DEF Rpc
    <2> HIDE DEF r
    <2> QED
      BY <2>1, <2>2, <1>b
  <1>7. ASSUME RequestVoteGetReply(s, p)
        PROVE  /\ \A a, b \in Server : a # s \/ b # p => rpc'[a][b] = rpc[a][b]
               /\ rpc[s][p].st = "request" /\ rpc[s][p].kind = "vote"
               /\ rpc'[s][p].st = "handled" /\ rpc'[s][p].kind = "vote"
               /\ rpc'[s][p].term = rpc[s][p].term
               /\ rpc'[s][p].granted = 0 => ~VoteDenied(s, p, rpc[s][p].term)
    <2> DEFINE term == rpc[s][p].term
               g == IF ~VoteDenied(s, p, term) THEN 0
                    ELSE IF LogRank[p] > LogRank[s] THEN 2 ELSE 1
               t == IF term > currentTerm[p] THEN term ELSE currentTerm[p]
    <2>1. /\ HandlerDone(s, p, g, t)
          /\ rpc[s][p].st = "request" /\ rpc[s][p].kind = "vote"
      BY <1>7 DEF RequestVoteGetReply
    <2>2. g = 0 => ~VoteDenied(s, p, term)
      OBVIOUS
    <2> HIDE DEF g, t
    <2> QED
      BY <2>1, <2>2, <1>6
  <1>8. ASSUME AppendEntriesGetReply(s, p)
        PROVE  /\ \A a, b \in Server : a # s \/ b # p => rpc'[a][b] = rpc[a][b]
               /\ \/ rpc'[s][p].st = "handled" /\ rpc'[s][p].kind = "ping"
                  \/ rpc'[s][p].st = "done" /\ rpc'[s][p].kind = "none"
    <2>1. /\ rpc[s][p].kind = "ping"
          /\ \/ HandlerDone(s, p, 1, currentTerm[p])
             \/ SetRpc(s, p, Done(0))
             \/ HandlerDone(s, p, 1, rpc[s][p].term)
      BY <1>8 DEF AppendEntriesGetReply
    <2>2. CASE SetRpc(s, p, Done(0))
      BY <2>2, <1>b, RpcFields
    <2>3. CASE HandlerDone(s, p, 1, currentTerm[p]) \/ HandlerDone(s, p, 1, rpc[s][p].term)
      BY <2>1, <2>3, <1>6
    <2> QED
      BY <2>1, <2>2, <2>3
  <1> QED
    BY <1>1, <1>2, <1>3, <1>4, <1>5, <1>7, <1>8 DEF ProxyStep

\* What the other steps do to the calls: nothing.
LEMMA OtherRpc ==
    ASSUME NEW s \in Server,
           SchdStep(s) \/ (\E t \in persisting[s] : PersistTerm(s, t))
    PROVE  rpc' = rpc
  BY DEF SchdStep, ElectionTimeout, PeersBecameReady, VoteForSelf, VoteResult,
     EvaluateVoteResult, NoopDone, PersistTerm, threads

\* No step lowers a term or takes a ballot back.
LEMMA TermsGrow ==
    ASSUME MaxRestart = 0, TypeOK, [Next]_vars
    PROVE  /\ \A x \in Server : currentTerm'[x] >= currentTerm[x]
           /\ ballots \subseteq ballots'
  <1>1. ASSUME NEW s \in Server, SchdStep(s)
        PROVE  /\ \A x \in Server : currentTerm'[x] >= currentTerm[x]
               /\ ballots \subseteq ballots'
    <2>1. CASE VoteForSelf(s)
      BY <2>1 DEF VoteForSelf, OpenBallot, TypeOK, state
    <2>2. CASE ~VoteForSelf(s)
      BY <1>1, <2>2 DEF SchdStep, ElectionTimeout, PeersBecameReady, BeginTerm,
         VoteResult, EvaluateVoteResult, NoopDone, history, TypeOK
    <2> QED
      BY <2>1, <2>2
  <1>2. ASSUME NEW s \in Server, NEW p \in Peer(s), ProxyStep(s, p)
        PROVE  /\ \A x \in Server : currentTerm'[x] >= currentTerm[x]
               /\ ballots \subseteq ballots'
    <2>a. p \in Server /\ rpc[s][p].peerTerm \in Nat /\ rpc[s][p].term \in Nat
      BY DEF Peer, TypeOK, Rpc
    <2>1. CASE AppendEntriesGetReply(s, p)
      BY <2>1, <2>a DEF AppendEntriesGetReply, HandlerDone, TypeOK, history
    <2>2. CASE RequestVoteGetReply(s, p)
      BY <2>2, <2>a DEF RequestVoteGetReply, HandlerDone, TypeOK, history
    <2>3. CASE RequestVoteReply(s, p) \/ PingReply(s, p)
      BY <2>3, <2>a DEF RequestVoteReply, PingReply, AdoptPeerTerm, CountVote, VoteCounts, TypeOK
    <2>4. CASE TakeCmd(s, p) \/ SendRequestVote(s, p) \/ SendPing(s, p)
               \/ RpcFail(s, p) \/ RpcDone(s, p)
      BY <2>4 DEF TakeCmd, SendRequestVote, SendPing, RpcFail, RpcDone, TypeOK,
         state, history
    <2> QED
      BY <1>2, <2>1, <2>2, <2>3, <2>4 DEF ProxyStep
  <1>3. ASSUME NEW s \in Server, NEW t \in persisting[s], PersistTerm(s, t)
        PROVE  /\ \A x \in Server : currentTerm'[x] >= currentTerm[x]
               /\ ballots \subseteq ballots'
    BY <1>3 DEF PersistTerm, TypeOK, state, history
  <1>4. CASE UNCHANGED vars
    BY <1>4 DEF vars, TypeOK, state, history
  <1> QED
    BY <1>1, <1>2, <1>3, <1>4, NoRestart DEF Next

\* Rounds are kept apart: a round opens only when no vote is being asked.
LEMMA RoundsSeparateStep ==
    ASSUME MaxRestart = 0, ~RpcOutlivesRound, ElectionInv, [Next]_vars
    PROVE  RoundsSeparate'
  <1> USE DEF RoundSeparate
  <1>0. TypeOK /\ TypeOK' /\ RoundsSeparate
    BY TypeStep DEF ElectionInv
  <1>1. ASSUME NEW s \in Server, SchdStep(s) PROVE RoundsSeparate'
    <2>0. rpc' = rpc
      BY <1>1, OtherRpc
    <2>a. \A a \in Server, b \in Server : VoteRpc(a, b)' = VoteRpc(a, b)
      BY <2>0 DEF VoteRpc
    <2>b. \A a \in Server : \A b \in Peer(a) : a # s => RoundSeparate(a, b)'
      BY <1>0, <1>1, <2>a DEF RoundsSeparate, Peer, SchdStep, ElectionTimeout,
         PeersBecameReady, BeginTerm, VoteForSelf, OpenBallot, VoteResult,
         EvaluateVoteResult, NoopDone, state, TypeOK
    <2>c. ASSUME NEW b \in Peer(s) PROVE RoundSeparate(s, b)'
      <3>a. b \in Server
        BY DEF Peer
      <3>1. CASE PeersReady(s) /\ BeginTerm(s)
                 /\ cmd' = cmd /\ pc[s] # "result"
        <4>1. rpc[s][b].st = "idle"
          BY <3>1 DEF PeersReady, IdlePeers
        <4>2. ~VoteRpc(s, b)'
          BY <4>1, <3>a, <2>a DEF VoteRpc
        <4> QED
          BY <1>0, <3>1, <4>2 DEF RoundsSeparate
      <3>2. CASE pc'[s] # "persist"
        BY <1>0, <1>1, <2>a, <3>a, <3>2 DEF RoundsSeparate, SchdStep, ElectionTimeout,
           PeersBecameReady, BeginTerm, VoteForSelf, OpenBallot, VoteResult,
           EvaluateVoteResult, NoopDone, state, TypeOK
      <3>3. CASE pc'[s] = "persist"
        BY <1>0, <1>1, <3>1, <3>3 DEF SchdStep, ElectionTimeout,
           PeersBecameReady, VoteForSelf, OpenBallot, VoteResult,
           EvaluateVoteResult, NoopDone, TypeOK
      <3> QED
        BY <3>2, <3>3
    <2> QED
      BY <2>b, <2>c DEF RoundsSeparate
  <1>2. ASSUME NEW s \in Server, NEW p \in Peer(s), ProxyStep(s, p)
        PROVE  RoundsSeparate'
    <2>a. /\ pc' = pc
          /\ \A a \in Server : cmd'[a] = cmd[a] \/ cmd'[a] = "ExecNone"
      BY <1>0, <1>2 DEF ProxyStep, TakeCmd, SendRequestVote, SendPing, RpcFail, RpcDone,
         RequestVoteReply, PingReply, RequestVoteGetReply, AppendEntriesGetReply,
         state, TypeOK
    <2>b. \A a, b \in Server : a # s \/ b # p => VoteRpc(a, b)' = VoteRpc(a, b)
      BY <1>0, <1>2, ProxyRpc DEF VoteRpc
    <2>c. VoteRpc(s, p)' => VoteRpc(s, p) \/ pc[s] = "result"
      <3>1. CASE TakeCmd(s, p)
        BY <1>0, <3>1 DEF TakeCmd, RoundsSeparate
      <3>2. CASE SendRequestVote(s, p)
        BY <3>2 DEF SendRequestVote, VoteRpc, ElectionInv, RpcsOfThisRound, RpcOfThisRound
      <3>3. CASE ~TakeCmd(s, p) /\ ~SendRequestVote(s, p)
        BY <1>0, <1>2, <3>3, ProxyRpc DEF ProxyStep, VoteRpc
      <3> QED
        BY <3>1, <3>2, <3>3
    <2> QED
      BY <1>0, <2>a, <2>b, <2>c DEF RoundsSeparate, Peer
  <1>3. ASSUME NEW s \in Server, NEW t \in persisting[s], PersistTerm(s, t)
        PROVE  RoundsSeparate'
    BY <1>0, <1>3 DEF PersistTerm, state, threads, RoundsSeparate, VoteRpc
  <1>4. CASE UNCHANGED vars
    BY <1>0, <1>4 DEF vars, state, threads, RoundsSeparate, VoteRpc
  <1> QED
    BY <1>0, <1>1, <1>2, <1>3, <1>4, NoRestart DEF Next

\* Every vote asked for belongs to the round being counted, or to a later term.
LEMMA RpcsOfThisRoundStep ==
    ASSUME MaxRestart = 0, ElectionInv, [Next]_vars
    PROVE  RpcsOfThisRound'
  <1>0. TypeOK /\ TypeOK' /\ TermsOrdered /\ RpcsOfThisRound /\ RoundsSeparate
    BY TypeStep DEF ElectionInv
  <1>g. /\ \A x \in Server : currentTerm'[x] >= currentTerm[x]
        /\ ballots \subseteq ballots'
    BY <1>0, TermsGrow
  <1>k. ASSUME NEW a \in Server, NEW b \in Peer(a), rpc'[a][b] = rpc[a][b],
               voteConsensusTerm'[a] = voteConsensusTerm[a]
        PROVE  RpcOfThisRound(a, b)'
    <2>1. /\ RpcOfThisRound(a, b) /\ b \in Server
          /\ currentTerm[a] \in Nat /\ currentTerm'[a] \in Nat /\ rpc[a][b].term \in Nat
          /\ currentTerm'[a] >= currentTerm[a]
      BY <1>0, <1>g DEF RpcsOfThisRound, Peer, TypeOK, Rpc
    <2> QED
      BY <1>g, <1>k, <2>1 DEF RpcOfThisRound, VoteRpc
  <1>1. ASSUME NEW s \in Server, SchdStep(s) PROVE RpcsOfThisRound'
    <2>0. rpc' = rpc
      BY <1>1, OtherRpc
    <2>1. CASE VoteForSelf(s) /\ OpenBallot(s)
      <3>1. ASSUME NEW b \in Peer(s) PROVE RpcOfThisRound(s, b)'
        <4>1. ~VoteRpc(s, b)
          BY <1>0, <2>1 DEF VoteForSelf, RoundsSeparate, RoundSeparate
        <4> QED
          BY <1>0, <2>0, <4>1 DEF RpcsOfThisRound, RpcOfThisRound, VoteRpc
      <3>2. \A a \in Server : a # s => voteConsensusTerm'[a] = voteConsensusTerm[a]
        BY <1>0, <2>1 DEF OpenBallot, TypeOK
      <3> QED
        BY <1>k, <2>0, <3>1, <3>2 DEF RpcsOfThisRound
    <2>2. CASE ~(VoteForSelf(s) /\ OpenBallot(s))
      <3>1. voteConsensusTerm' = voteConsensusTerm
        BY <1>1, <2>2 DEF SchdStep, ElectionTimeout, PeersBecameReady,
           VoteForSelf, VoteResult, EvaluateVoteResult, NoopDone, state
      <3> QED
        BY <1>k, <2>0, <3>1 DEF RpcsOfThisRound
    <2> QED
      BY <2>1, <2>2
  <1>2. ASSUME NEW s \in Server, NEW p \in Peer(s), ProxyStep(s, p)
        PROVE  RpcsOfThisRound'
    <2>0. p \in Server /\ rpc[s][p].term \in Nat /\ currentTerm[s] \in Nat
          /\ currentTerm'[s] \in Nat
      BY <1>0 DEF Peer, TypeOK, Rpc
    <2>1. voteConsensusTerm' = voteConsensusTerm
      BY <1>2 DEF ProxyStep, TakeCmd, SendRequestVote, SendPing, RpcFail, RpcDone,
         RequestVoteReply, PingReply, RequestVoteGetReply, AppendEntriesGetReply, state
    <2>2. RpcOfThisRound(s, p)'
      <3>1. CASE SendRequestVote(s, p)
        <4>1. currentTerm' = currentTerm
          BY <3>1 DEF SendRequestVote, state
        <4>2. /\ rpc'[s][p].st = "request"
              /\ rpc'[s][p].term = currentTerm[s]
          BY <1>0, <1>2, <3>1, ProxyRpc
        <4> QED
          BY <1>0, <2>0, <2>1, <3>1, <4>1, <4>2 DEF RpcOfThisRound, VoteRpc, TermsOrdered
      <3>2. CASE RequestVoteGetReply(s, p)
        <4>1. /\ rpc[s][p].st = "request" /\ rpc[s][p].kind = "vote"
              /\ rpc'[s][p].st = "handled" /\ rpc'[s][p].kind = "vote"
              /\ rpc'[s][p].term = rpc[s][p].term
              /\ rpc'[s][p].granted = 0 => ~VoteDenied(s, p, rpc[s][p].term)
          BY <1>0, <1>2, <3>2, ProxyRpc
        <4>2. /\ voteConsensusTerm[s] <= rpc[s][p].term
              /\ rpc[s][p].term <= currentTerm[s]
          BY <1>0, <4>1 DEF RpcsOfThisRound, RpcOfThisRound, VoteRpc
        <4>3. ~VoteDenied(s, p, rpc[s][p].term) => <<rpc[s][p].term, p, s>> \in ballots'
          BY <3>2 DEF RequestVoteGetReply
        <4>4. rpc[s][p].term <= currentTerm'[s]
          BY <4>2, <1>g, <2>0
        <4> QED
          BY <2>1, <4>1, <4>2, <4>3, <4>4 DEF RpcOfThisRound, VoteRpc
      <3>3. CASE ~SendRequestVote(s, p) /\ ~RequestVoteGetReply(s, p)
        <4>1. \/ rpc'[s][p].st = "taken" /\ rpc'[s][p].kind = "vote"
              \/ rpc'[s][p].st \in {"request", "handled"} /\ rpc'[s][p].kind = "ping"
              \/ rpc'[s][p].st \in {"idle", "done"} /\ rpc'[s][p].kind = "none"
          BY <1>0, <1>2, <3>3, ProxyRpc DEF ProxyStep
        <4> QED
          BY <4>1 DEF RpcOfThisRound, VoteRpc
      <3> QED
        BY <3>1, <3>2, <3>3
    <2>3. \A a, b \in Server : a # s \/ b # p => rpc'[a][b] = rpc[a][b]
      BY <1>0, <1>2, ProxyRpc
    <2> QED
      BY <1>k, <2>1, <2>2, <2>3 DEF RpcsOfThisRound, Peer
  <1>3. ASSUME NEW s \in Server, NEW t \in persisting[s], PersistTerm(s, t)
        PROVE  RpcsOfThisRound'
    BY <1>k, <1>3 DEF PersistTerm, state, threads, RpcsOfThisRound
  <1>4. CASE UNCHANGED vars
    BY <1>k, <1>4 DEF vars, state, threads, RpcsOfThisRound
  <1> QED
    BY <1>0, <1>1, <1>2, <1>3, <1>4, NoRestart DEF Next

\* A peer that has been counted is not asked again before the round is over.
LEMMA PeersCountedOnceStep ==
    ASSUME MaxRestart = 0, ElectionInv, [Next]_vars
    PROVE  PeersCountedOnce'
  <1>0. TypeOK /\ TypeOK' /\ PeersCountedOnce
    BY TypeStep DEF ElectionInv
  <1>k. ASSUME NEW a \in Server, NEW b \in Peer(a), rpc'[a][b] = rpc[a][b],
               b \in tally'[a] => b \in tally[a],
               cmd'[a] = cmd[a] \/ cmd'[a] = "ExecNone"
        PROVE  CountedOnce(a, b)'
    BY <1>0, <1>k DEF PeersCountedOnce, CountedOnce, VoteRpc
  <1>1. ASSUME NEW s \in Server, SchdStep(s) PROVE PeersCountedOnce'
    <2>0. rpc' = rpc
      BY <1>1, OtherRpc
    <2>1. CASE VoteForSelf(s) /\ OpenBallot(s)
      <3>1. /\ \A a \in Server : a # s => tally'[a] = tally[a] /\ cmd'[a] = cmd[a]
            /\ tally'[s] = {s}
        BY <1>0, <2>1 DEF OpenBallot, TypeOK
      <3>2. \A b \in Peer(s) : CountedOnce(s, b)'
        BY <3>1 DEF CountedOnce, Peer
      <3> QED
        BY <1>k, <2>0, <3>1, <3>2 DEF PeersCountedOnce
    <2>2. CASE ~(VoteForSelf(s) /\ OpenBallot(s))
      <3>1. /\ tally' = tally
            /\ \A a \in Server : cmd'[a] = cmd[a] \/ cmd'[a] = "ExecNone"
        BY <1>0, <1>1, <2>2 DEF SchdStep, ElectionTimeout, PeersBecameReady,
           VoteForSelf, VoteResult, EvaluateVoteResult, NoopDone, state, history, TypeOK
      <3> QED
        BY <1>k, <2>0, <3>1 DEF PeersCountedOnce
    <2> QED
      BY <2>1, <2>2
  <1>2. ASSUME NEW s \in Server, NEW p \in Peer(s), ProxyStep(s, p)
        PROVE  PeersCountedOnce'
    <2>0. p \in Server
      BY DEF Peer
    <2>1. /\ \A a \in Server : cmd'[a] = cmd[a] \/ cmd'[a] = "ExecNone"
          /\ \A a, b \in Server : a # s \/ b # p => (b \in tally'[a] => b \in tally[a])
      <3>1. CASE RequestVoteReply(s, p)
        BY <1>0, <2>0, <3>1 DEF RequestVoteReply, AdoptPeerTerm, CountVote, VoteCounts, TypeOK
      <3>2. CASE PingReply(s, p)
        BY <1>0, <3>2 DEF PingReply, AdoptPeerTerm, TypeOK
      <3>3. CASE ~RequestVoteReply(s, p) /\ ~PingReply(s, p)
        BY <1>0, <1>2, <3>3 DEF ProxyStep, TakeCmd, SendRequestVote, SendPing, RpcFail,
           RpcDone, RequestVoteGetReply, AppendEntriesGetReply, state, history, TypeOK
      <3> QED
        BY <3>1, <3>2, <3>3
    <2>2. CountedOnce(s, p)'
      <3>1. CASE RequestVoteReply(s, p) \/ PingReply(s, p) \/ RpcFail(s, p)
        BY <1>0, <1>2, <3>1, ProxyRpc DEF CountedOnce, VoteRpc
      <3>2. CASE RpcDone(s, p)
        <4>1. cmd'[s] = "ExecNone"
          BY <1>0, <3>2 DEF RpcDone, TypeOK
        <4> QED
          BY <1>0, <1>2, <3>2, <4>1, ProxyRpc DEF CountedOnce, VoteRpc
      <3>3. CASE \/ TakeCmd(s, p) \/ SendRequestVote(s, p) \/ SendPing(s, p)
                 \/ RequestVoteGetReply(s, p) \/ AppendEntriesGetReply(s, p)
        <4>1. tally' = tally /\ cmd' = cmd
          BY <3>3 DEF TakeCmd, SendRequestVote, SendPing, RequestVoteGetReply,
             AppendEntriesGetReply, state, history
        <4>2. CASE p \notin tally[s]
          BY <4>1, <4>2 DEF CountedOnce
        <4>3. CASE p \in tally[s]
          <5>1. ~VoteRpc(s, p) /\ (cmd[s] = "ExecReqestVote" => rpc[s][p].st = "done")
            BY <1>0, <4>3 DEF PeersCountedOnce, CountedOnce
          <5>2. ~TakeCmd(s, p)
            BY <5>1 DEF TakeCmd
          <5>3. ~SendRequestVote(s, p) /\ ~RequestVoteGetReply(s, p)
            BY <5>1 DEF SendRequestVote, RequestVoteGetReply, VoteRpc, ElectionInv,
               RpcsOfThisRound, RpcOfThisRound
          <5>4. cmd[s] # "ExecReqestVote"
            BY <5>1, <5>2, <5>3, <3>3 DEF SendPing, AppendEntriesGetReply
          <5> QED
            BY <1>0, <1>2, <3>3, <4>1, <5>2, <5>3, <5>4, ProxyRpc DEF CountedOnce, VoteRpc
        <4> QED
          BY <4>2, <4>3
      <3> QED
        BY <1>2, <3>1, <3>2, <3>3 DEF ProxyStep
    <2>3. \A a, b \in Server : a # s \/ b # p => rpc'[a][b] = rpc[a][b]
      BY <1>0, <1>2, ProxyRpc
    <2> QED
      BY <1>k, <2>1, <2>2, <2>3 DEF PeersCountedOnce, Peer
  <1>3. ASSUME NEW s \in Server, NEW t \in persisting[s], PersistTerm(s, t)
        PROVE  PeersCountedOnce'
    BY <1>k, <1>3 DEF PersistTerm, state, threads, history, PeersCountedOnce
  <1>4. CASE UNCHANGED vars
    BY <1>k, <1>4 DEF vars, state, threads, history, PeersCountedOnce
  <1> QED
    BY <1>0, <1>1, <1>2, <1>3, <1>4, NoRestart DEF Next

\* Every vote counted is a ballot of the round.
LEMMA TallyBackedStep ==
    ASSUME MaxRestart = 0, ElectionInv, [Next]_vars
    PROVE  TallyBacked'
  <1>0. TypeOK /\ TypeOK' /\ TallyBacked
    BY TypeStep DEF ElectionInv
  <1>g. ballots \subseteq ballots'
    BY <1>0, TermsGrow
  <1>k. ASSUME UNCHANGED <<voteConsensusCnt, voteConsensusTerm, tally>>
        PROVE  TallyBacked'
    BY <1>0, <1>g, <1>k DEF TallyBacked
  <1>1. ASSUME NEW s \in Server, SchdStep(s) PROVE TallyBacked'
    <2>1. CASE VoteForSelf(s) /\ OpenBallot(s)
      <3>1. /\ voteConsensusCnt' = [voteConsensusCnt EXCEPT ![s] = 1]
            /\ voteConsensusTerm' = [voteConsensusTerm EXCEPT ![s] = currentTerm[s]]
            /\ tally' = [tally EXCEPT ![s] = {s}]
            /\ <<currentTerm[s], s, s>> \in ballots'
        BY <2>1 DEF OpenBallot
      <3>2. Cardinality({s}) = 1
        BY FS_Singleton
      <3> QED
        <4>1. \A a \in Server : a # s =>
                 /\ voteConsensusCnt'[a] = voteConsensusCnt[a]
                 /\ voteConsensusTerm'[a] = voteConsensusTerm[a]
                 /\ tally'[a] = tally[a]
          BY <1>0, <3>1 DEF TypeOK
        <4>2. /\ voteConsensusCnt'[s] = 1
              /\ voteConsensusTerm'[s] = currentTerm[s]
              /\ tally'[s] = {s}
          BY <1>0, <3>1 DEF TypeOK
        <4> QED
          BY <1>0, <1>g, <3>1, <3>2, <4>1, <4>2 DEF TallyBacked
    <2>2. CASE ~(VoteForSelf(s) /\ OpenBallot(s))
      BY <1>1, <1>k, <2>2 DEF SchdStep, ElectionTimeout, PeersBecameReady,
         VoteForSelf, VoteResult, EvaluateVoteResult, NoopDone, state, history
    <2> QED
      BY <2>1, <2>2
  <1>2. ASSUME NEW s \in Server, NEW p \in Peer(s), ProxyStep(s, p)
        PROVE  TallyBacked'
    <2>1. CASE RequestVoteReply(s, p) /\ CountVote(s, p)
               /\ ~UNCHANGED <<voteConsensusCnt, tally>>
      <3>0. p \in Server /\ rpc[s][p].term \in Nat
        BY <1>0 DEF Peer, TypeOK, Rpc
      <3>1. /\ rpc[s][p].st = "handled" /\ rpc[s][p].kind = "vote"
            /\ rpc[s][p].granted = 0
            /\ currentTerm[s] = voteConsensusTerm[s]
            /\ voteConsensusCnt' = [voteConsensusCnt EXCEPT ![s] = @ + 1]
            /\ tally' = [tally EXCEPT ![s] = @ \cup {p}]
            /\ UNCHANGED <<voteConsensusTerm, ballots>>
        BY <2>1 DEF RequestVoteReply, CountVote, VoteCounts, Answered
      <3>2. /\ voteConsensusTerm[s] <= rpc[s][p].term
            /\ rpc[s][p].term <= currentTerm[s]
            /\ <<rpc[s][p].term, p, s>> \in ballots
        BY <3>1 DEF ElectionInv, RpcsOfThisRound, RpcOfThisRound, VoteRpc
      <3>3. <<voteConsensusTerm[s], p, s>> \in ballots
        <4>1. rpc[s][p].term = voteConsensusTerm[s]
          <5>1. voteConsensusTerm[s] \in Nat
            BY <1>0 DEF TypeOK
          <5> QED
            BY <3>0, <3>1, <3>2, <5>1
        <4> QED
          BY <3>2, <4>1
      <3>4. p \notin tally[s]
        BY <3>1 DEF ElectionInv, PeersCountedOnce, CountedOnce, VoteRpc
      <3>5. Cardinality(tally[s] \cup {p}) = Cardinality(tally[s]) + 1
        <4>1. IsFiniteSet(tally[s])
          BY <1>0, ServerAssumption, FS_Subset DEF TypeOK
        <4> QED
          BY <3>4, <4>1, FS_AddElement
      <3> QED
        <4>1. \A a \in Server : a # s =>
                 /\ voteConsensusCnt'[a] = voteConsensusCnt[a]
                 /\ tally'[a] = tally[a]
          BY <1>0, <3>1 DEF TypeOK
        <4>2. /\ voteConsensusCnt'[s] = voteConsensusCnt[s] + 1
              /\ tally'[s] = tally[s] \cup {p}
          BY <1>0, <3>1 DEF TypeOK
        <4> QED
          BY <1>0, <3>1, <3>3, <3>5, <4>1, <4>2 DEF TallyBacked
    <2>2. CASE RequestVoteReply(s, p)
               /\ ~(CountVote(s, p) /\ ~UNCHANGED <<voteConsensusCnt, tally>>)
      BY <1>k, <2>2 DEF RequestVoteReply, AdoptPeerTerm
    <2>3. CASE PingReply(s, p)
      BY <1>k, <2>3 DEF PingReply, AdoptPeerTerm
    <2>4. CASE ~RequestVoteReply(s, p) /\ ~PingReply(s, p)
      BY <1>2, <1>k, <2>4 DEF ProxyStep, TakeCmd, SendRequestVote, SendPing, RpcFail,
         RpcDone, RequestVoteGetReply, AppendEntriesGetReply, state, history
    <2> QED
      BY <2>1, <2>2, <2>3, <2>4
  <1>3. ASSUME NEW s \in Server, NEW t \in persisting[s], PersistTerm(s, t)
        PROVE  TallyBacked'
    BY <1>k, <1>3 DEF PersistTerm, state, history
  <1>4. CASE UNCHANGED vars
    BY <1>k, <1>4 DEF vars, state, history
  <1> QED
    BY <1>0, <1>1, <1>2, <1>3, <1>4, NoRestart DEF Next

-----------------------------------------------------------------------------

\* When no call outlives its round and no server restarts, the inductive
\* invariant holds of every behaviour, for every cluster and every bound.
THEOREM InvariantHolds ==
    ASSUME MaxRestart = 0, ~RpcOutlivesRound
    PROVE  Spec => []ElectionInv
  <1>1. ElectionInv /\ [Next]_vars => ElectionInv'
    <2> SUFFICES ASSUME ElectionInv, [Next]_vars PROVE ElectionInv'
      OBVIOUS
    <2> QED
      BY TypeStep, TermsOrderedStep, VotesRememberedStep, RpcsOfThisRoundStep,
         TallyBackedStep, PeersCountedOnceStep, RoundsSeparateStep, LeadersBackedStep
      DEF ElectionInv
  <1> QED
    BY <1>1, InitInv, PTL DEF Spec

\* Election Safety: under the same two conditions no term has two leaders.
THEOREM ElectionSafe ==
    ASSUME MaxRestart = 0, ~RpcOutlivesRound
    PROVE  Spec => []ElectionSafety
  <1>1. ElectionInv => ElectionSafety
    <2> SUFFICES ASSUME ElectionInv, NEW e1 \in elected, NEW e2 \in elected,
                        e1[1] = e2[1]
                 PROVE  e1[2] = e2[2]
      BY DEF ElectionSafety
    <2>1. PICK Q1 \in SUBSET Server : /\ Cardinality(Q1) >= Majority
                                      /\ \A v \in Q1 : <<e1[1], v, e1[2]>> \in ballots
      BY DEF ElectionInv, LeadersBacked
    <2>2. PICK Q2 \in SUBSET Server : /\ Cardinality(Q2) >= Majority
                                      /\ \A v \in Q2 : <<e2[1], v, e2[2]>> \in ballots
      BY DEF ElectionInv, LeadersBacked
    <2>3. PICK v \in Q1 \cap Q2 : TRUE
      BY <2>1, <2>2, MajoritiesIntersect
    <2> QED
      BY <2>1, <2>2, <2>3 DEF ElectionInv, VotesRemembered, OneVotePerTerm
  <1> QED
    BY <1>1, InvariantHolds, PTL

\* Under the same two conditions no server votes twice in a term.
THEOREM VotesAreUnique ==
    ASSUME MaxRestart = 0, ~RpcOutlivesRound
    PROVE  Spec => []OneVotePerTerm
  <1>1. ElectionInv => OneVotePerTerm
    BY DEF ElectionInv, VotesRemembered
  <1> QED
    BY <1>1, InvariantHolds, PTL

\* Under the same two conditions no count exceeds the votes really given.
THEOREM TalliesAreReal ==
    ASSUME MaxRestart = 0, ~RpcOutlivesRound
    PROVE  Spec => []TallyIsReal
  <1>1. ElectionInv => TallyIsReal
    <2> SUFFICES ASSUME ElectionInv, NEW s \in Server
                 PROVE  voteConsensusCnt[s] <= Cardinality(
                           {v \in Server : <<voteConsensusTerm[s], v, s>> \in ballots})
      BY DEF TallyIsReal
    <2> DEFINE V == {v \in Server : <<voteConsensusTerm[s], v, s>> \in ballots}
    <2>1. IsFiniteSet(V)
      BY ServerAssumption, FS_Subset
    <2>2. tally[s] \subseteq V
      BY DEF ElectionInv, TypeOK, TallyBacked
    <2>3. Cardinality(tally[s]) <= Cardinality(V)
      BY <2>1, <2>2, FS_Subset
    <2> QED
      BY <2>3 DEF ElectionInv, TallyBacked
  <1> QED
    BY <1>1, InvariantHolds, PTL

\* Whoever is leader was elected in the term it is in, and its scheduler is at the no-op
\* or back in its wait: no other part of the loop runs in office.
LeadersElected ==
    \A s \in Server : role[s] = "leader" =>
        pc[s] \in {"noop", "wait"} /\ <<currentTerm[s], s>> \in elected

LEMMA LeadersElectedStep ==
    ASSUME TypeOK, LeadersElected, [Next]_vars
    PROVE  LeadersElected'
  <1>1. ASSUME \A x \in Server : \/ role'[x] # "leader"
                                 \/ /\ role'[x] = role[x] /\ pc'[x] = pc[x]
                                    /\ currentTerm'[x] = currentTerm[x],
               elected \subseteq elected'
        PROVE  LeadersElected'
    BY <1>1 DEF LeadersElected
  <1>2. ASSUME NEW s \in Server, SchdStep(s) PROVE LeadersElected'
    <2>1. CASE ElectionTimeout(s)
      BY <1>1, <2>1 DEF ElectionTimeout, BeginTerm, TypeOK, history
    <2>2. CASE PeersBecameReady(s)
      <3>1. pc[s] = "startVote" /\ role' = role /\ elected' = elected
        BY <2>2 DEF PeersBecameReady, history
      <3>2. role[s] # "leader"
        BY <3>1 DEF LeadersElected
      <3> QED
        BY <1>1, <2>2, <3>1, <3>2 DEF PeersBecameReady, BeginTerm, TypeOK
    <2>3. CASE VoteForSelf(s)
      <3>1. pc[s] = "persist" /\ elected' = elected
        BY <2>3 DEF VoteForSelf
      <3>2. role[s] # "leader"
        BY <3>1 DEF LeadersElected
      <3> QED
        BY <1>1, <2>3, <3>1, <3>2 DEF VoteForSelf, OpenBallot, TypeOK, state
    <2>4. CASE VoteResult(s)
      <3>1. pc[s] = "result" /\ elected' = elected
        BY <2>4 DEF VoteResult, history
      <3>2. role[s] # "leader"
        BY <3>1 DEF LeadersElected
      <3> QED
        BY <1>1, <2>4, <3>1, <3>2 DEF VoteResult, TypeOK
    <2>5. CASE EvaluateVoteResult(s)
      <3>1. pc[s] = "evaluate" /\ currentTerm' = currentTerm /\ elected \subseteq elected'
        BY <2>5 DEF EvaluateVoteResult
      <3>2. role[s] # "leader"
        BY <3>1 DEF LeadersElected
      <3>3. role'[s] = "leader" => pc'[s] = "noop" /\ <<currentTerm[s], s>> \in elected'
        BY <2>5, <3>2 DEF EvaluateVoteResult, TypeOK
      <3>4. \A x \in Server \ {s} : role'[x] = role[x] /\ pc'[x] = pc[x]
        BY <2>5 DEF EvaluateVoteResult, TypeOK
      <3> QED
        BY <3>1, <3>3, <3>4 DEF LeadersElected
    <2>6. CASE NoopDone(s)
      <3>1. /\ pc[s] = "noop" /\ currentTerm' = currentTerm /\ elected' = elected
            /\ pc'[s] = "wait" /\ \A x \in Server \ {s} : pc'[x] = pc[x]
            /\ \A x \in Server : role'[x] = "leader" => role[x] = "leader"
        BY <2>6 DEF NoopDone, TypeOK, history
      <3> QED
        BY <3>1 DEF LeadersElected
    <2> QED
      BY <1>2, <2>1, <2>2, <2>3, <2>4, <2>5, <2>6 DEF SchdStep
  <1>3. ASSUME NEW s \in Server, NEW p \in Peer(s), ProxyStep(s, p)
        PROVE  LeadersElected'
    <2>1. p \in Server
      BY DEF Peer
    <2>2. CASE TakeCmd(s, p) \/ SendRequestVote(s, p) \/ SendPing(s, p) \/ RpcFail(s, p)
               \/ RpcDone(s, p)
      <3>1. role' = role /\ pc' = pc /\ currentTerm' = currentTerm /\ elected' = elected
        BY <2>2 DEF TakeCmd, SendRequestVote, SendPing, RpcFail, RpcDone, state, history
      <3> QED
        BY <3>1 DEF LeadersElected
    <2>3. CASE RequestVoteReply(s, p) \/ PingReply(s, p)
      <3>1. pc' = pc /\ elected' = elected
        BY <2>3 DEF RequestVoteReply, PingReply
      <3>2. AdoptPeerTerm(s, p) \/ CountVote(s, p) \/ UNCHANGED <<role, currentTerm>>
        BY <2>3 DEF RequestVoteReply, PingReply
      <3> QED
        BY <1>1, <3>1, <3>2 DEF AdoptPeerTerm, CountVote, TypeOK
    <2>4. CASE RequestVoteGetReply(s, p)
      BY <1>1, <2>1, <2>4 DEF RequestVoteGetReply, HandlerDone, TypeOK
    <2>5. CASE AppendEntriesGetReply(s, p)
      BY <1>1, <2>1, <2>5 DEF AppendEntriesGetReply, HandlerDone, TypeOK, history
    <2> QED
      BY <1>3, <2>2, <2>3, <2>4, <2>5 DEF ProxyStep
  <1>4. ASSUME NEW s \in Server, NEW t \in persisting[s], PersistTerm(s, t)
        PROVE  LeadersElected'
    <2>1. role' = role /\ pc' = pc /\ currentTerm' = currentTerm /\ elected' = elected
      BY <1>4 DEF PersistTerm, state, threads, history
    <2> QED
      BY <2>1 DEF LeadersElected
  <1>5. ASSUME NEW s \in Server, Restart(s) PROVE LeadersElected'
    BY <1>1, <1>5 DEF Restart, TypeOK, history
  <1>6. CASE UNCHANGED vars
    BY <1>6 DEF vars, state, threads, history, LeadersElected
  <1> QED
    BY <1>2, <1>3, <1>4, <1>5, <1>6 DEF Next

\* Under the same two conditions no other server holds a majority for the term of a leader
\* in office: _VmDirEvaluateVoteResult could make no second leader of it.
THEOREM LeadersUnchallenged ==
    ASSUME MaxRestart = 0, ~RpcOutlivesRound
    PROVE  Spec => []LeaderNotChallenged
  <1>1. Init => LeadersElected
    BY DEF Init, LeadersElected
  <1>2. ElectionInv /\ LeadersElected /\ [Next]_vars => LeadersElected'
    BY LeadersElectedStep DEF ElectionInv
  <1>3. ElectionInv /\ LeadersElected => LeaderNotChallenged
    <2> SUFFICES ASSUME ElectionInv, LeadersElected, NEW s \in Server, NEW t \in Server,
                        role[s] = "leader", s # t, currentTerm[t] = currentTerm[s],
                        voteConsensusTerm[t] = currentTerm[t],
                        ~(voteConsensusCnt[t] < Majority)
                 PROVE  FALSE
      BY DEF LeaderNotChallenged
    <2>1. <<currentTerm[s], s>> \in elected
      BY DEF LeadersElected
    <2>2. PICK Q1 \in SUBSET Server : /\ Cardinality(Q1) >= Majority
                                      /\ \A v \in Q1 : <<currentTerm[s], v, s>> \in ballots
      BY <2>1 DEF ElectionInv, LeadersBacked
    <2>3. tally[t] \in SUBSET Server
      BY DEF ElectionInv, TypeOK
    <2>4. /\ voteConsensusCnt[t] = Cardinality(tally[t])
          /\ \A v \in tally[t] : <<currentTerm[s], v, t>> \in ballots
      BY DEF ElectionInv, TallyBacked
    <2>5. IsFiniteSet(tally[t]) /\ Cardinality(tally[t]) \in Nat
      BY <2>3, ServerAssumption, FS_Subset, FS_CardinalityType
    <2>6. Majority \in Nat
      BY ServerAssumption, FS_CardinalityType DEF Majority, clusterSize
    <2>7. Cardinality(tally[t]) >= Majority
      BY <2>4, <2>5, <2>6
    <2>8. PICK v \in Q1 \cap tally[t] : TRUE
      BY <2>2, <2>3, <2>7, MajoritiesIntersect
    <2> QED
      BY <2>2, <2>4, <2>8 DEF ElectionInv, VotesRemembered, OneVotePerTerm
  <1> QED
    BY <1>1, <1>2, <1>3, InvariantHolds, PTL DEF Spec
=============================================================================
