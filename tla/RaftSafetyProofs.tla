-------------------------- MODULE RaftSafetyProofs --------------------------
(***************************************************************************)
(* The safety of the lwraft log, for any cluster: SafetyInv is inductive   *)
(* when calls are prompt, and the properties of RaftReplication follow.    *)
(***************************************************************************)
EXTENDS RaftStepProofs

(* Majorities, and the tree of logs *)

LEMMA ServersCount ==
    /\ clusterSize \in Nat /\ Majority \in Nat /\ Majority >= 1
    /\ clusterSize >= Majority /\ 2 * Majority > clusterSize
  <1>1. clusterSize \in Nat
    BY ServerAssumption, FS_CardinalityType DEF clusterSize
  <1>2. clusterSize # 0
    BY ServerAssumption, FS_EmptySet DEF clusterSize
  <1> QED
    BY <1>1, <1>2 DEF Majority

\* Two majorities have a server in common.
LEMMA MajoritiesMeet ==
    ASSUME NEW Q, NEW V, IsMajority(Q), IsMajority(V)
    PROVE  \E q \in Server : q \in Q /\ q \in V
  <1>1. Q \subseteq Server /\ V \subseteq Server /\ IsFiniteSet(Server)
    BY ServerAssumption DEF IsMajority
  <1>2. /\ IsFiniteSet(Q) /\ IsFiniteSet(V)
        /\ Cardinality(Q) \in Nat /\ Cardinality(V) \in Nat
    BY <1>1, FS_Subset, FS_CardinalityType
  <1>3. Cardinality(Q) + Cardinality(V) > Cardinality(Server)
    BY <1>2, ServersCount DEF IsMajority, clusterSize
  <1>4. Q \cap V # {}
    BY <1>1, <1>3, FS_MajoritiesIntersect
  <1> QED
    BY <1>1, <1>4

LEMMA MajorityHasMember ==
    ASSUME NEW Q, IsMajority(Q)
    PROVE  \E q \in Server : q \in Q
  BY MajoritiesMeet

\* The logs of two servers that share one share all before it.
LEMMA PathsAgree ==
    ASSUME NEW W, Tree(W), NEW f \in [Index -> Term \cup {NoLog}],
           NEW g \in [Index -> Term \cup {NoLog}], Path(f, W), Path(g, W),
           NEW n \in Index, f[n] = g[n], f[n] # NoLog, NEW i \in Index, i <= n
    PROVE  f[i] = g[i] /\ f[i] # NoLog
  <1> DEFINE D == {j \in Index : j <= n /\ (f[j] # g[j] \/ f[j] = NoLog)}
  <1> SUFFICES ASSUME D # {} PROVE FALSE
    OBVIOUS
  <1>1. D \in SUBSET (0..MaxIndex) /\ MaxIndex \in Nat
    BY BoundAssumption DEF Index
  <1>2. PICK m \in D : \A j \in D : m >= j
    BY <1>1, LargestExists
  <1>3. m \in Index /\ m < n /\ m + 1 \in Index /\ m + 1 <= n /\ m + 1 # 1
    <2>1. m # n /\ m <= n
      BY <1>2
    <2> QED
      BY <1>2, <2>1, BoundAssumption DEF Index
  <1>4. f[m + 1] = g[m + 1] /\ f[m + 1] # NoLog
    <2>1. m + 1 \notin D
      BY <1>2, <1>3 DEF Index
    <2> QED
      BY <1>3, <2>1
  <1> DEFINE l == <<m + 1, f[m + 1], f[m]>>
             k == <<m + 1, g[m + 1], g[m]>>
  <1>5. l \in W /\ k \in W
    <2>1. LogBefore(f, m + 1) = f[m] /\ LogBefore(g, m + 1) = g[m]
      BY <1>3 DEF LogBefore, Index
    <2> QED
      BY <1>3, <1>4, <2>1 DEF Path
  <1>6. l[1] = k[1] /\ l[2] = k[2] /\ l[1] > 1
    BY <1>3, <1>4 DEF Index
  <1>7. l[3] = k[3] /\ l[3] # NoLog
    BY <1>5, <1>6 DEF Tree
  <1> QED
    BY <1>2, <1>7

\* Logs at or after <<n, t>>, if they grow above it, have it.
LEMMA InRegion ==
    ASSUME TypeOK, TreeOK, NEW n \in Index, NEW t \in Term, GrowsAbove(n, t),
           NEW f \in [Index -> Term \cup {NoLog}], Path(f, written),
           NEW j \in Index, f[j] # NoLog, AtOrAfter(j, f[j], n, t)
    PROVE  j >= n /\ f[n] = t
  <1> DEFINE D == {k \in Index : f[k] # NoLog /\ AtOrAfter(k, f[k], n, t)}
  <1>1. D \in SUBSET Nat /\ j \in D
    BY DEF Index
  <1>2. PICK k \in D : \A b \in D : k <= b
    BY <1>1, SmallestExists
  <1> DEFINE l == <<k, f[k], LogBefore(f, k)>>
  <1>3. l \in written /\ k \in Index /\ f[k] # NoLog /\ AtOrAfter(k, f[k], n, t)
    BY <1>2 DEF TreeOK, Path
  <1>4. /\ k >= n
        /\ k = n => f[k] = t
        /\ k > n => AtOrAfter(k - 1, LogBefore(f, k), n, t)
    <2>1. l[1] = k /\ l[2] = f[k] /\ l[3] = LogBefore(f, k)
      OBVIOUS
    <2> QED
      BY <1>3, <2>1 DEF GrowsAbove
  <1>5. ~(k > n)
    <2> SUFFICES ASSUME k > n PROVE FALSE
      OBVIOUS
    <2>1. k > 1 /\ k - 1 \in Index /\ LogBefore(f, k) = f[k - 1]
      BY <1>3, BoundAssumption DEF Index, LogBefore
    <2>2. f[k - 1] # NoLog
      BY <1>3, <2>1 DEF TreeOK, Tree
    <2>3. k - 1 \in D
      BY <1>4, <2>1, <2>2
    <2> QED
      BY <1>2, <2>1, <2>3 DEF Index
  <1> QED
    BY <1>1, <1>2, <1>3, <1>4, <1>5 DEF Index

-----------------------------------------------------------------------------
(* Votes and terms *)

LEMMA VotesStep ==
    ASSUME SafetyInv, Prompt, Step
    PROVE  VotesOK'
  <1>0. TypeOK /\ VotesOK /\ LogsOK /\ ~ForgetsVote
    BY DEF SafetyInv, Prompt
  <1>1. \A s \in Server : /\ votedForTerm[s] \in Nat /\ currentTerm[s] \in Nat
                          /\ currentTerm'[s] \in Nat /\ currentTerm'[s] >= currentTerm[s]
    BY <1>0, RoleChange, BoundAssumption DEF TypeOK
  <1>2. ASSUME NEW s \in Server PROVE votedForTerm'[s] <= currentTerm'[s]
    <2>1. CASE votedForTerm'[s] = votedForTerm[s]
      BY <1>0, <1>1, <2>1 DEF VotesOK
    <2>2. CASE StartVote(s)
      BY <1>0, <1>1, <2>2, StartVoteEffect
    <2>3. CASE Restart(s)
      BY <1>0, <1>1, <2>3, RestartEffect
    <2>4. ASSUME NEW x \in Server, x # s, GrantVote(x, s)
          PROVE  votedForTerm'[s] <= currentTerm'[s]
      BY <1>0, <1>1, <2>4, GrantVoteEffect
    <2> QED
      BY <2>1, <2>2, <2>3, <2>4, VoteChange
  <1>3. ASSUME NEW s \in Server, role'[s] # "follower" PROVE currentTerm'[s] > 1
    <2>1. role'[s] \in {"candidate", "leader"}
      <3>1. TypeOK'
        <4>1. FirstLogOK
          BY <1>0, BoundAssumption DEF FirstLogOK, LogsOK, TypeOK, Index
        <4> QED
          BY <1>0, <4>1, TypeStep DEF Step
      <3> QED
        BY <1>3, <3>1 DEF TypeOK, Role
    <2>2. CASE StartVote(s)
      <3>1. currentTerm[s] >= 1
        BY <1>0 DEF TypeOK, Term
      <3> QED
        BY <1>0, <1>1, <2>2, <3>1, StartVoteEffect
    <2>3. CASE EvaluateVoteResult(s)
      BY <1>0, <2>3 DEF EvaluateVoteResult, VotesOK
    <2>4. CASE role[s] # "follower" /\ currentTerm'[s] = currentTerm[s]
      BY <1>0, <2>4 DEF VotesOK
    <2> QED
      BY <2>1, <2>2, <2>3, <2>4, RoleChange
  <1>4. ASSUME NEW s \in Server, role'[s] = "candidate", ~StartVote(s)
        PROVE  /\ role[s] = "candidate" /\ currentTerm'[s] = currentTerm[s]
               /\ \A q \in votes'[s] :
                     q \in votes[s] \/ (q \in Server /\ q # s /\ GrantVote(s, q))
    <2>1. role[s] = "candidate" /\ currentTerm'[s] = currentTerm[s]
      BY <1>4, RoleChange
    <2>2. ~EvaluateVoteResult(s) /\ ~Restart(s)
      BY <1>0, <1>4, EvaluateEffect, RestartEffect
    <2>3. ASSUME NEW p \in Server, p # s, GrantVote(s, p)
          PROVE  \A q \in votes'[s] :
                    q \in votes[s] \/ (q \in Server /\ q # s /\ GrantVote(s, q))
      <3>1. votes'[s] = votes[s] \cup {p}
        BY <1>0, <2>3, GrantVoteEffect
      <3> QED
        BY <2>3, <3>1
    <2>4. \/ votes'[s] = votes[s]
          \/ \E p \in Server : p # s /\ GrantVote(s, p)
      BY <1>4, <2>2, VoteChange
    <2> QED
      BY <2>1, <2>3, <2>4
  <1>5. ASSUME NEW s \in Server, role'[s] = "candidate", NEW p \in votes'[s]
        PROVE  /\ p \in Server
               /\ \/ currentTerm'[p] > currentTerm'[s]
                  \/ /\ currentTerm'[p] = currentTerm'[s]
                     /\ votedForTerm'[p] = currentTerm'[s]
                     /\ votedFor'[p] = s
    <2>1. CASE StartVote(s)
      BY <1>0, <1>5, <2>1, StartVoteEffect
    <2>2. CASE GrantVote(s, p) /\ p # s /\ p \in Server
      BY <1>0, <2>2, GrantVoteEffect
    <2>3. CASE p \in votes[s] /\ role[s] = "candidate" /\ currentTerm'[s] = currentTerm[s]
      <3>0. p \in Server
        BY <1>0, <2>3 DEF TypeOK
      <3>1. CASE currentTerm[p] > currentTerm[s]
        BY <1>1, <2>3, <3>0, <3>1
      <3>2. CASE /\ currentTerm[p] = currentTerm[s] /\ votedForTerm[p] = currentTerm[s]
                 /\ votedFor[p] = s
        <4>1. CASE votedFor'[p] = votedFor[p] /\ votedForTerm'[p] = votedForTerm[p]
          BY <1>1, <2>3, <3>0, <3>2, <4>1
        <4>2. CASE StartVote(p)
          BY <1>0, <1>1, <2>3, <3>0, <3>2, <4>2, StartVoteEffect
        <4>3. CASE Restart(p)
          <5>1. ~VoteOpen(p) /\ role'[p] = "follower"
            BY <1>0, <3>0, <4>3, RestartEffect
          <5>2. s # p
            BY <1>5, <5>1
          <5> QED
            BY <2>3, <3>2, <5>1, <5>2 DEF VoteOpen, Peer
        <4>4. ASSUME NEW x \in Server, x # p, GrantVote(x, p)
              PROVE  \/ currentTerm'[p] > currentTerm'[s]
                     \/ /\ currentTerm'[p] = currentTerm'[s]
                        /\ votedForTerm'[p] = currentTerm'[s]
                        /\ votedFor'[p] = s
          <5>1. /\ currentTerm[p] <= currentTerm[x] /\ VoteFree(p, x)
                /\ currentTerm'[p] = currentTerm[x] /\ votedFor'[p] = x
                /\ votedForTerm'[p] = currentTerm[x]
            BY <1>0, <3>0, <4>4, GrantVoteEffect
          <5>2. CASE currentTerm[x] = currentTerm[s]
            <6>1. s # Nil
              BY ServerAssumption
            <6>2. x = s
              BY <3>2, <5>1, <5>2, <6>1 DEF VoteFree
            <6> QED
              BY <2>3, <5>1, <6>2
          <5> QED
            BY <1>1, <2>3, <3>0, <3>2, <5>1, <5>2
        <4> QED
          BY <3>0, <4>1, <4>2, <4>3, <4>4, VoteChange
      <3> QED
        BY <1>0, <2>3, <3>0, <3>1, <3>2 DEF VotesOK
    <2> QED
      BY <1>4, <1>5, <2>1, <2>2, <2>3
  <1>6. ASSUME NEW s \in Server, NEW p \in Server, role'[s] = "candidate",
               role'[p] = "candidate", currentTerm'[s] = currentTerm'[p], s # p,
               NEW q \in Server, q \in votes'[s], q \in votes'[p],
               StartVote(s) \/ (GrantVote(s, q) /\ q # s)
        PROVE  FALSE
    <2>1. CASE StartVote(s)
      <3>1. /\ votes'[s] = {s} /\ votes'[p] = votes[p]
            /\ role'[p] = role[p] /\ currentTerm'[p] = currentTerm[p]
            /\ currentTerm'[s] = currentTerm[s] + 1
        BY <1>0, <1>6, <2>1, StartVoteEffect
      <3>2. s \in votes[p] /\ role[p] = "candidate"
        BY <1>6, <3>1
      <3>3. currentTerm[s] >= currentTerm[p]
        BY <1>0, <1>1, <3>2 DEF VotesOK
      <3> QED
        BY <1>1, <1>6, <3>1, <3>3
    <2>2. CASE (GrantVote(s, q) /\ q # s)
      <3>1. /\ votes'[p] = votes[p] /\ currentTerm'[s] = currentTerm[s]
            /\ currentTerm[q] <= currentTerm[s] /\ VoteFree(q, s)
        BY <1>0, <1>6, <2>2, GrantVoteEffect
      <3>2. role[p] = "candidate" /\ currentTerm[p] = currentTerm[s]
        <4>1. CASE p = q
          BY <1>0, <1>1, <1>6, <2>2, <4>1, GrantVoteEffect
        <4>2. CASE p # q
          BY <1>0, <1>6, <2>2, <4>2, GrantVoteEffect
        <4> QED
          BY <4>1, <4>2
      <3>3. q \in votes[p] /\ p # Nil
        BY <1>6, <3>1, ServerAssumption
      <3>4. votedForTerm[q] = currentTerm[s] /\ votedFor[q] = p
        BY <1>0, <1>1, <3>1, <3>2, <3>3 DEF VotesOK
      <3> QED
        BY <1>6, <3>1, <3>3, <3>4 DEF VoteFree
    <2> QED
      BY <1>6, <2>1, <2>2
  <1>7. ASSUME NEW s \in Server, NEW p \in Server, role'[s] = "candidate",
               role'[p] = "candidate", currentTerm'[s] = currentTerm'[p], s # p
        PROVE  votes'[s] \cap votes'[p] = {}
    <2> SUFFICES ASSUME NEW q \in votes'[s], q \in votes'[p] PROVE FALSE
      OBVIOUS
    <2>1. q \in Server
      BY <1>5, <1>7
    <2>2. ~StartVote(s) /\ q \in votes[s]
      <3>1. ~(StartVote(s) \/ (GrantVote(s, q) /\ q # s))
        BY <1>6, <1>7, <2>1
      <3> QED
        BY <1>4, <1>7, <2>1, <3>1
    <2>3. ~StartVote(p) /\ q \in votes[p]
      <3>1. ~(StartVote(p) \/ (GrantVote(p, q) /\ q # p))
        BY <1>6, <1>7, <2>1
      <3> QED
        BY <1>4, <1>7, <2>1, <3>1
    <2>4. /\ role[s] = "candidate" /\ role[p] = "candidate"
          /\ currentTerm[s] = currentTerm[p]
      BY <1>4, <1>7, <2>2, <2>3
    <2> QED
      BY <1>0, <1>7, <2>2, <2>3, <2>4 DEF VotesOK
  <1> QED
    BY <1>2, <1>3, <1>5, <1>7 DEF VotesOK

\* The types and the votes of the states of a step.
LEMMA TypesStep ==
    ASSUME SafetyInv, Step
    PROVE  TypeOK /\ TypeOK' /\ LogsOK
  <1>1. TypeOK /\ LogsOK
    BY DEF SafetyInv
  <1>2. FirstLogOK
    BY <1>1, BoundAssumption DEF FirstLogOK, LogsOK, TypeOK, Index
  <1> QED
    BY <1>1, <1>2, TypeStep DEF Step

\* A new leader's term is new.
LEMMA NewLeadersTerm ==
    ASSUME SafetyInv, NEW s \in Server, EvaluateVoteResult(s)
    PROVE  /\ IsMajority(votes[s]) /\ role[s] = "candidate"
           /\ \A l \in written : l[2] # currentTerm[s]
  <1>1. IsMajority(votes[s]) /\ role[s] = "candidate"
    BY DEF SafetyInv, TypeOK, EvaluateVoteResult, IsMajority
  <1>2. ASSUME NEW l \in written, l[2] = currentTerm[s] PROVE FALSE
    <2>1. PICK Q \in SUBSET Server :
            /\ IsMajority(Q)
            /\ \A q \in Q : \A c \in Server : Open(c, l[2]) => Blocks(q, c, l[2])
      BY DEF SafetyInv, TermsOK, Taken
    <2>2. PICK q \in Server : q \in Q /\ q \in votes[s]
      BY <1>1, <2>1, MajoritiesMeet
    <2>3. Open(s, l[2])
      BY <1>1, <1>2 DEF Open
    <2> QED
      BY <1>2, <2>1, <2>2, <2>3 DEF Blocks
  <1> QED
    BY <1>1, <1>2

\* The log <<n, t>> is added above the logs of s; there was none like it.
Adds(s, n, t) ==
    /\ n \in Index /\ n - 1 \in Index /\ n - 1 = lastLogIndex[s] /\ t \in Term
    /\ t <= currentTerm[s]
    /\ log[s][n] = NoLog /\ log[s][n - 1] \in Term /\ log[s][n - 1] <= t
    /\ \A l \in written : ~(l[1] = n /\ l[2] = t)
    /\ \A i \in Index : log'[s][i] = IF i = n THEN t ELSE log[s][i]
    /\ \A x \in Server \ {s} : log'[x] = log[x] /\ lastLogIndex'[x] = lastLogIndex[x]
    /\ lastLogIndex'[s] = n
    /\ lastLogTerm' = lastLogTerm
    /\ written' = written \cup {<<n, t, log[s][n - 1]>>}
    /\ reused' = reused
    /\ write'[s] # Nil /\ write'[s].st = "logged"
    /\ write'[s].index = n /\ write'[s].term = t
    /\ replicated'[s] = {}
    /\ \A x \in Server \ {s} : write'[x] = write[x] /\ replicated'[x] = replicated[x]
    /\ UNCHANGED <<currentTerm, votedFor, votedForTerm, commitIndex, indexToApply,
                   lastApplied, call, committed>>

\* What the last log of a server is like.
LEMMA LastLog ==
    ASSUME TypeOK, LogsOK, NEW s \in Server
    PROVE  /\ lastLogIndex[s] \in Index
           /\ log[s][lastLogIndex[s]] \in Term /\ lastLogTerm[s] \in Term
           /\ lastLogTerm[s] <= log[s][lastLogIndex[s]]
           /\ log[s][lastLogIndex[s]] <= currentTerm[s]
           /\ \A i \in Index : log[s][i] # NoLog => i <= lastLogIndex[s]
                                               /\ log[s][i] \in Term
                                               /\ log[s][i] <= log[s][lastLogIndex[s]]
           /\ \A i \in Index : i <= lastLogIndex[s] => log[s][i] # NoLog
  <1>1. /\ lastLogIndex[s] \in Index /\ lastLogTerm[s] \in Term
        /\ \A i \in Index : log[s][i] \in Term \cup {NoLog}
    BY DEF TypeOK
  <1>2. lastLogIndex[s] <= lastLogIndex[s]
    BY <1>1 DEF Index
  <1>3. log[s][lastLogIndex[s]] # NoLog
    BY <1>1, <1>2 DEF LogsOK
  <1> QED
    BY <1>1, <1>3 DEF LogsOK

\* A candidate that wins adds its no-op.
LEMMA ElectedAdds ==
    ASSUME SafetyInv, NEW s \in Server, EvaluateVoteResult(s)
    PROVE  /\ Adds(s, lastLogIndex[s] + 1, currentTerm[s])
           /\ role'[s] = "leader"
           /\ votes'[s] = {}
           /\ \A x \in Server \ {s} : role'[x] = role[x] /\ votes'[x] = votes[x]
  <1>0. TypeOK /\ LogsOK /\ ~reused
    BY DEF SafetyInv
  <1> DEFINE n == lastLogIndex[s] + 1
             t == currentTerm[s]
             w == NextWrite(s, TRUE)
  <1>1. /\ w \in Write /\ w.index = n /\ w.term = t
        /\ Added(s, w)
        /\ role'[s] = "leader"
        /\ votes'[s] = {}
        /\ \A x \in Server \ {s} : role'[x] = role[x] /\ votes'[x] = votes[x]
        /\ UNCHANGED <<currentTerm, votedFor, votedForTerm, commitIndex, indexToApply,
                       lastApplied, call, orphans, bounds, committed, fatal>>
    BY <1>0, EvaluateEffect
  <1>2. n \in Index /\ t \in Term /\ t <= currentTerm[s]
    <2>1. lastLogIndex[s] \in Index /\ lastLogIndex[s] < MaxIndex /\ currentTerm[s] \in Term
      BY <1>0 DEF EvaluateVoteResult, TypeOK
    <2> QED
      BY <2>1, BoundAssumption DEF Term, Index
  <1>3. n - 1 = lastLogIndex[s] /\ n - 1 \in Index /\ ~(n <= lastLogIndex[s])
    BY <1>0 DEF TypeOK, Index
  <1>4. log[s][n] = NoLog /\ log[s][n - 1] \in Term /\ log[s][n - 1] <= t
    BY <1>0, <1>2, <1>3, LastLog
  <1>5. \A l \in written : ~(l[1] = n /\ l[2] = t)
    BY NewLeadersTerm
  <1> HIDE DEF n, t, w
  <1>6. reused' = reused
    BY <1>0, <1>1, <1>5 DEF Added, TypeOK
  <1>7. /\ \A i \in Index : log'[s][i] = IF i = n THEN t ELSE log[s][i]
        /\ \A x \in Server \ {s} : log'[x] = log[x] /\ lastLogIndex'[x] = lastLogIndex[x]
        /\ lastLogIndex'[s] = n
        /\ lastLogTerm' = lastLogTerm
        /\ written' = written \cup {<<n, t, log[s][n - 1]>>}
        /\ write'[s] # Nil /\ write'[s].st = "logged"
        /\ write'[s].index = n /\ write'[s].term = t
        /\ replicated'[s] = {}
        /\ \A x \in Server \ {s} : write'[x] = write[x] /\ replicated'[x] = replicated[x]
    BY <1>1 DEF Added
  <1>8. Adds(s, n, t)
    BY <1>1, <1>2, <1>3, <1>4, <1>5, <1>6, <1>7 DEF Adds
  <1> QED
    BY <1>1, <1>8 DEF n, t

\* A client's log is added if no log is there.
LEMMA WriteAdds ==
    ASSUME SafetyInv, NEW s \in Server, AddRaftEntry(s)
    PROVE  /\ write[s] \in Write /\ write[s] # Nil /\ write[s].st = "chosen"
           /\ UNCHANGED <<role, currentTerm, votedVars>>
           /\ \/ /\ Adds(s, write[s].index, write[s].term)
                 /\ log[s][write[s].index - 1] = write[s].term
              \/ /\ log[s][write[s].index] # NoLog
                 /\ write'[s] = Nil
                 /\ \A x \in Server \ {s} : write'[x] = write[x]
                 /\ UNCHANGED <<logVars, replicated, written, reused, call>>
  <1>0. TypeOK /\ LogsOK /\ ~reused /\ ChosenWritesOK /\ OwnersOK
    BY DEF SafetyInv
  <1> DEFINE n == write[s].index
             t == write[s].term
  <1>1. /\ write[s] \in Write /\ write[s] # Nil /\ write[s].st = "chosen"
        /\ UNCHANGED <<role, currentTerm, votedVars, commitIndex, indexToApply,
                          lastApplied, call, orphans, bounds, committed, fatal>>
        /\ \/ log[s][write[s].index] = NoLog /\ Added(s, write[s])
           \/ /\ log[s][write[s].index] # NoLog
              /\ write'[s] = Nil
              /\ \A x \in Server \ {s} : write'[x] = write[x]
              /\ UNCHANGED <<logVars, replicated, written, reused>>
    BY <1>0, AddRaftEntryEffect
  <1>2. n \in Index /\ n - 1 \in Index /\ t \in Term
    BY <1>1, BoundAssumption DEF Write, Index
  <1>3. log[s][n - 1] = t /\ \A l \in written : l[2] = t => l[1] < n
    BY <1>0, <1>1 DEF ChosenWritesOK, Keeps
  <1>4. t <= currentTerm[s]
    <2>1. Owns(s, t)
      BY <1>1 DEF Owns
    <2> QED
      BY <1>0, <1>2, <2>1 DEF OwnersOK
  <1>5. CASE log[s][n] = NoLog
    <2>1. n - 1 = lastLogIndex[s]
      <3>1. n - 1 <= lastLogIndex[s] /\ ~(n <= lastLogIndex[s])
        BY <1>0, <1>2, <1>3, <1>5, LastLog DEF Term, NoLog
      <3> QED
        BY <1>0, <1>2, <3>1 DEF TypeOK, Index
    <2>2. \A l \in written : ~(l[1] = n /\ l[2] = t)
      BY <1>2, <1>3 DEF Index
    <2>3. t <= t
      BY <1>2 DEF Term
    <2>4. Added(s, write[s])
      BY <1>1, <1>5
    <2> HIDE DEF n, t
    <2>5. reused' = reused
      BY <1>0, <2>2, <2>4 DEF Added, TypeOK, n, t
    <2>6. /\ \A i \in Index : log'[s][i] = IF i = n THEN t ELSE log[s][i]
          /\ \A x \in Server \ {s} : log'[x] = log[x] /\ lastLogIndex'[x] = lastLogIndex[x]
          /\ lastLogIndex'[s] = n
          /\ lastLogTerm' = lastLogTerm
          /\ written' = written \cup {<<n, t, log[s][n - 1]>>}
          /\ write'[s] # Nil /\ write'[s].st = "logged"
          /\ write'[s].index = n /\ write'[s].term = t
          /\ replicated'[s] = {}
          /\ \A x \in Server \ {s} : write'[x] = write[x] /\ replicated'[x] = replicated[x]
      BY <2>4 DEF Added, n, t
    <2>7. UNCHANGED <<currentTerm, votedFor, votedForTerm, commitIndex, indexToApply,
                      lastApplied, call, committed>>
      BY <1>1 DEF votedVars
    <2>8. Adds(s, n, t)
      BY <1>2, <1>3, <1>4, <1>5, <2>1, <2>2, <2>3, <2>5, <2>6, <2>7 DEF Adds
    <2> QED
      BY <1>1, <1>3, <2>8 DEF n, t
  <1>6. CASE log[s][n] # NoLog
    BY <1>1, <1>6
  <1> QED
    BY <1>5, <1>6

-----------------------------------------------------------------------------
(* Logs *)

\* A commit, of a log that is not applied yet.
LEMMA CommitEffect ==
    ASSUME SafetyInv, NEW s \in Server, CommitWrite(s)
    PROVE  LET n == write[s].index IN
           /\ Waiting(s) /\ n = lastLogIndex[s] /\ n \in Index
           /\ write[s].term = currentTerm[s] /\ log[s][n] = currentTerm[s]
           /\ role[s] = "leader"
           /\ Consensus(s)
           /\ commitIndex'[s] = n
           /\ lastApplied'[s] \in Index /\ lastApplied'[s] <= n
           /\ lastLogTerm'[s] = currentTerm[s]
           /\ write'[s] = Nil /\ replicated'[s] = {}
           /\ \A x \in Server \ {s} :
                 /\ commitIndex'[x] = commitIndex[x] /\ lastApplied'[x] = lastApplied[x]
                 /\ lastLogTerm'[x] = lastLogTerm[x]
                 /\ write'[x] = write[x] /\ replicated'[x] = replicated[x]
           /\ committed \subseteq committed'
           /\ \A i \in 1..n : IsCommitted(i, log[s][i])'
           /\ \A c \in committed' : c \in committed \/
                 (c[1] \in 1..n /\ c[2] = log[s][c[1]] /\ c[3] = currentTerm[s])
           /\ UNCHANGED <<role, currentTerm, votedVars, log, lastLogIndex, indexToApply,
                          call, orphans, bounds, written, reused, fatal>>
  <1>0. TypeOK /\ LeadersOK /\ AheadOK
    BY DEF SafetyInv
  <1>1. Waiting(s) /\ role[s] = "leader"
    BY DEF CommitWrite, Waiting
  <1>2. lastApplied[s] <= write[s].index - 1
    <2>1. currentTerm[s] <= currentTerm[s]
      BY <1>0 DEF TypeOK, Term
    <2> QED
      BY <1>0, <1>1, <2>1 DEF AheadOK, ApplyGuard
  <1>3. write[s].index \in Index
    BY <1>0, <1>1 DEF TypeOK, Waiting, Write
  <1>4. lastApplied[s] < write[s].index
    BY <1>0, <1>2, <1>3 DEF TypeOK, Index
  <1>5. log[s][lastLogIndex[s]] = currentTerm[s]
    BY <1>0, <1>1 DEF LeadersOK
  <1> QED
    BY <1>0, <1>1, <1>4, <1>5, CommitWriteEffect

\* What a call of x with the arguments a that s accepts is like, and what it does to
\* the logs and to the other variables.
AcceptedCall(x, s, a) ==
    /\ call[x][s] # Nil /\ call[x][s].st = "sent" /\ x # s
    /\ a \in Args /\ a.pre \in Index /\ a.preTerm \in Term /\ a.term \in Term
    /\ a.entry \in Term \cup {NoLog} /\ a.commit \in Index
    /\ a.term >= currentTerm[s] /\ currentTerm'[s] = a.term
    /\ log[s][a.pre] = a.preTerm /\ lastLogIndex[s] >= a.pre
    /\ a.entry # NoLog => /\ a.index = a.pre + 1 /\ a.pre + 1 \in Index
                          /\ <<a.pre + 1, a.entry, a.preTerm>> \in written
                          /\ a.entry <= a.term

AcceptedLogs(s, a) ==
    /\ \A i \in Index : i <= a.pre => log'[s][i] = log[s][i]
    /\ \A i \in Index : i > a.pre => log'[s][i] = IF i = a.pre + 1 THEN a.entry ELSE NoLog
    /\ a.entry # NoLog => lastLogIndex'[s] = a.pre + 1
    /\ a.entry = NoLog => lastLogIndex'[s] = a.pre
    /\ \/ a.entry # NoLog /\ lastLogTerm'[s] = a.entry
       \/ a.entry = NoLog /\ lastLogTerm'[s] = a.preTerm
       \/ a.entry = NoLog /\ lastLogTerm'[s] = lastLogTerm[s] /\ lastLogIndex[s] = a.pre

AcceptedRest(x, s, a) ==
    /\ role'[s] = "follower"
    /\ \A y \in Server \ {s} : role'[y] = role[y] /\ currentTerm'[y] = currentTerm[y]
    /\ OthersLogs(s)
    /\ FollowerCommitIndex(a) \in Index
    /\ FollowerCommitIndex(a) <= a.commit /\ FollowerCommitIndex(a) <= a.pre
    /\ commitIndex'[s] = FollowerCommitIndex(a)
    /\ indexToApply'[s] = FollowerCommitIndex(a)
    /\ \A y \in Server \ {s} : /\ commitIndex'[y] = commitIndex[y]
                               /\ indexToApply'[y] = indexToApply[y]
    /\ Answered(x, s, a.term, 0)
    /\ UNCHANGED <<votedFor, votedForTerm, votes, lastApplied, write, replicated, written,
                   reused, committed>>

LEMMA AcceptEffect ==
    ASSUME SafetyInv, NEW x \in Server, NEW s \in Server, AppendEntriesGetReply(x, s),
           Accepts(x, s)
    PROVE  /\ AcceptedCall(x, s, call[x][s].args)
           /\ AcceptedLogs(s, call[x][s].args)
           /\ AcceptedRest(x, s, call[x][s].args)
  <1> DEFINE a == call[x][s].args
  <1>0. TypeOK /\ LogsOK /\ CallOK(x, s)
    BY DEF SafetyInv, CallsOK
  <1>1. call[x][s] # Nil /\ call[x][s].st = "sent"
        /\ UNCHANGED <<votedVars, lastApplied, write, replicated, written, reused, committed>>
    BY HandlerStep
  <1>2. /\ a \in Args /\ a.pre \in Index /\ a.preTerm \in Term /\ a.term \in Term
        /\ a.entry \in Term \cup {NoLog} /\ a.commit \in Index /\ a.index \in Index
    BY <1>0, <1>1, CallFields
  <1>3. x # s /\ (a.entry # NoLog => /\ a.index = a.pre + 1
                                     /\ <<a.index, a.entry, a.preTerm>> \in written
                                     /\ a.entry <= a.term)
    BY <1>0, <1>1 DEF CallOK
  <1>4. /\ a.term >= currentTerm[s] /\ Matches(s, a) /\ Follows(s, a.term)
        /\ StoreLogs(s, a) /\ Answered(x, s, a.term, 0)
    BY DEF Accepts
  <1>5. FollowerCommitIndex(a) \in Index
        /\ FollowerCommitIndex(a) <= a.commit /\ FollowerCommitIndex(a) <= a.pre
    <2>1. a.commit \in Int /\ a.pre \in Int
      BY <1>2 DEF Index
    <2>2. FollowerCommitIndex(a) = IF a.commit <= a.pre THEN a.commit ELSE a.pre
      BY <2>1, MinOfTwo DEF FollowerCommitIndex
    <2> QED
      BY <1>2, <2>1, <2>2
  <1> HIDE DEF a
  <1>6. /\ OthersLogs(s)
        /\ \A i \in Index :
                 log'[s][i] = IF i <= a.pre THEN log[s][i]
                              ELSE IF i = a.pre + 1 THEN a.entry ELSE NoLog
        /\ lastLogIndex[s] >= a.pre
        /\ lastLogIndex'[s] = IF a.entry # NoLog THEN a.pre + 1 ELSE a.pre
        /\ \/ a.entry # NoLog /\ lastLogTerm'[s] = a.entry
           \/ a.entry = NoLog /\ lastLogTerm'[s] = a.preTerm
           \/ a.entry = NoLog /\ lastLogTerm'[s] = lastLogTerm[s]
                              /\ lastLogIndex[s] = a.pre
        /\ commitIndex'[s] = FollowerCommitIndex(a)
        /\ indexToApply'[s] = FollowerCommitIndex(a)
        /\ \A y \in Server \ {s} : /\ commitIndex'[y] = commitIndex[y]
                                   /\ indexToApply'[y] = indexToApply[y]
    BY <1>0, <1>2, <1>3, <1>4, StoredLogs
  <1>7. log[s][a.pre] = a.preTerm
    BY <1>4 DEF Matches
  <1>8. /\ currentTerm'[s] = a.term /\ role'[s] = "follower"
        /\ \A y \in Server \ {s} : role'[y] = role[y] /\ currentTerm'[y] = currentTerm[y]
    BY <1>4 DEF Follows
  <1>9. a.entry # NoLog => /\ a.index = a.pre + 1 /\ a.pre + 1 \in Index
                           /\ <<a.pre + 1, a.entry, a.preTerm>> \in written
                           /\ a.entry <= a.term
    BY <1>2, <1>3
  <1>10. AcceptedCall(x, s, a)
    BY <1>1, <1>2, <1>3, <1>4, <1>6, <1>7, <1>8, <1>9 DEF AcceptedCall, a
  <1>11. AcceptedLogs(s, a)
    <2>1. \A i \in Index : i > a.pre <=> ~(i <= a.pre)
      BY <1>2 DEF Index
    <2> QED
      BY <1>6, <2>1 DEF AcceptedLogs
  <1>12. AcceptedRest(x, s, a)
    BY <1>1, <1>4, <1>5, <1>6, <1>8 DEF AcceptedRest, votedVars
  <1> QED
    BY <1>10, <1>11, <1>12 DEF a

\* Logs change when one is added or a call is accepted.
LEMMA LogCases ==
    ASSUME SafetyInv, Step, NEW s \in Server
    PROVE  \/ /\ log'[s] = log[s] /\ lastLogIndex'[s] = lastLogIndex[s]
              /\ \/ lastLogTerm'[s] = lastLogTerm[s]
                 \/ CommitWrite(s) /\ lastLogTerm'[s] = currentTerm[s]
                                   /\ log[s][lastLogIndex[s]] = currentTerm[s]
                 \/ Restart(s) /\ lastLogTerm'[s] = log[s][lastLogIndex[s]]
           \/ EvaluateVoteResult(s) /\ Adds(s, lastLogIndex[s] + 1, currentTerm[s])
           \/ /\ AddRaftEntry(s) /\ Adds(s, write[s].index, write[s].term)
              /\ log[s][write[s].index - 1] = write[s].term
           \/ \E x \in Server : AppendEntriesGetReply(x, s) /\ Accepts(x, s)
  <1>0. TypeOK /\ LogsOK
    BY DEF SafetyInv
  <1>1. CASE Unlogged(s)
    BY <1>1 DEF Unlogged
  <1>2. CASE EvaluateVoteResult(s)
    BY <1>2, ElectedAdds
  <1>3. CASE AddRaftEntry(s)
    BY <1>3, WriteAdds DEF logVars
  <1>4. CASE CommitWrite(s)
    BY <1>4, CommitEffect
  <1>5. CASE Restart(s)
    BY <1>0, <1>5, RestartEffect
  <1> QED
    BY <1>1, <1>2, <1>3, <1>4, <1>5, LogChange

LEMMA LogsStep ==
    ASSUME SafetyInv, Step
    PROVE  LogsOK'
  <1> DEFINE P(s) == /\ \A i \in Index : log'[s][i] # NoLog <=> i <= lastLogIndex'[s]
                     /\ \A i, j \in Index :
                           i <= j /\ log'[s][j] # NoLog => log'[s][i] <= log'[s][j]
                     /\ lastLogTerm'[s] <= log'[s][lastLogIndex'[s]]
                     /\ log'[s][lastLogIndex'[s]] <= currentTerm'[s]
  <1>0. TypeOK /\ TypeOK' /\ LogsOK /\ TreeOK
    BY TypesStep DEF SafetyInv
  <1> SUFFICES ASSUME NEW s \in Server PROVE P(s)
    BY DEF LogsOK
  <1>1. /\ \A i \in Index : log[s][i] # NoLog <=> i <= lastLogIndex[s]
        /\ \A i, j \in Index : i <= j /\ log[s][j] # NoLog => log[s][i] <= log[s][j]
    BY <1>0 DEF LogsOK
  <1>2. /\ lastLogIndex[s] \in Index /\ log[s][lastLogIndex[s]] \in Term
        /\ lastLogTerm[s] \in Term /\ lastLogTerm[s] <= log[s][lastLogIndex[s]]
        /\ log[s][lastLogIndex[s]] <= currentTerm[s]
        /\ \A i \in Index : log[s][i] # NoLog => i <= lastLogIndex[s]
                                              /\ log[s][i] \in Term
                                              /\ log[s][i] <= log[s][lastLogIndex[s]]
        /\ \A i \in Index : log[s][i] \in Term \cup {NoLog}
    BY <1>0, LastLog DEF TypeOK
  <1>3. currentTerm[s] \in Term /\ currentTerm'[s] \in Term /\ currentTerm'[s] >= currentTerm[s]
    BY <1>0, RoleChange DEF TypeOK
  <1>4. CASE /\ log'[s] = log[s] /\ lastLogIndex'[s] = lastLogIndex[s]
             /\ \/ lastLogTerm'[s] = lastLogTerm[s]
                \/ lastLogTerm'[s] = currentTerm[s] /\ log[s][lastLogIndex[s]] = currentTerm[s]
                \/ lastLogTerm'[s] = log[s][lastLogIndex[s]]
    BY <1>1, <1>2, <1>3, <1>4 DEF Term
  <1>5. ASSUME NEW n, NEW t, Adds(s, n, t) PROVE P(s)
    <2>1. /\ n \in Index /\ n - 1 = lastLogIndex[s] /\ t \in Term /\ t <= currentTerm[s]
          /\ log[s][n - 1] <= t
          /\ \A i \in Index : log'[s][i] = IF i = n THEN t ELSE log[s][i]
          /\ lastLogIndex'[s] = n /\ lastLogTerm'[s] = lastLogTerm[s]
      BY <1>5 DEF Adds
    <2>2. \A i \in Index : log'[s][i] # NoLog <=> i <= n
      BY <1>1, <1>2, <2>1 DEF Index, Term, NoLog
    <2>3. \A i, j \in Index : i <= j /\ log'[s][j] # NoLog => log'[s][i] <= log'[s][j]
      <3> SUFFICES ASSUME NEW i \in Index, NEW j \in Index, i <= j, log'[s][j] # NoLog
                   PROVE  log'[s][i] <= log'[s][j]
        OBVIOUS
      <3>1. CASE j # n
        <4>1. i # n
          BY <2>1, <2>2, <3>1 DEF Index
        <4> QED
          BY <1>1, <2>1, <3>1, <4>1
      <3>2. CASE j = n
        <4>1. i = n \/ (i <= lastLogIndex[s] /\ log[s][i] # NoLog)
          BY <1>1, <2>1, <3>2 DEF Index
        <4> QED
          BY <1>2, <2>1, <3>2, <4>1 DEF Term
      <3> QED
        BY <3>1, <3>2
    <2>4. lastLogTerm'[s] <= t /\ log'[s][n] = t
      BY <1>2, <2>1 DEF Term
    <2> QED
      BY <1>3, <2>1, <2>2, <2>3, <2>4 DEF Term
  <1>6. ASSUME NEW x \in Server, AppendEntriesGetReply(x, s), Accepts(x, s) PROVE P(s)
    <2> DEFINE a == call[x][s].args
    <2>0. AcceptedCall(x, s, a) /\ AcceptedLogs(s, a)
      BY <1>6, AcceptEffect
    <2> HIDE DEF a
    <2>1. /\ a.pre \in Index /\ a.preTerm \in Term /\ a.term \in Term
          /\ a.entry \in Term \cup {NoLog} /\ a.term >= currentTerm[s]
          /\ currentTerm'[s] = a.term
          /\ log[s][a.pre] = a.preTerm /\ lastLogIndex[s] >= a.pre
          /\ a.entry # NoLog => a.pre + 1 \in Index /\ a.entry <= a.term
          /\ \A i \in Index :
                log'[s][i] = IF i <= a.pre THEN log[s][i]
                             ELSE IF i = a.pre + 1 THEN a.entry ELSE NoLog
          /\ a.entry # NoLog => lastLogIndex'[s] = a.pre + 1
          /\ a.entry = NoLog => lastLogIndex'[s] = a.pre
          /\ \/ a.entry # NoLog /\ lastLogTerm'[s] = a.entry
             \/ a.entry = NoLog /\ lastLogTerm'[s] = a.preTerm
             \/ a.entry = NoLog /\ lastLogTerm'[s] = lastLogTerm[s]
                                /\ lastLogIndex[s] = a.pre
      BY <2>0 DEF AcceptedCall, AcceptedLogs, Index
    <2>2. a.entry # NoLog => a.preTerm <= a.entry
      <3> DEFINE l == <<a.pre + 1, a.entry, a.preTerm>>
      <3>1. a.entry # NoLog => l \in written
        BY <2>0 DEF AcceptedCall
      <3>2. l[1] > 1 /\ l[2] = a.entry /\ l[3] = a.preTerm
        BY <2>1 DEF Index
      <3> QED
        BY <1>0, <3>1, <3>2 DEF TreeOK, Tree
    <2>3. \A i \in Index : i <= a.pre => log[s][i] # NoLog /\ log[s][i] <= a.preTerm
                                        /\ log[s][i] \in Term
      <3>1. a.preTerm # NoLog
        BY <2>1 DEF Term, NoLog
      <3>2. \A i \in Index : i <= a.pre => i <= lastLogIndex[s]
        BY <1>2, <2>1 DEF Index
      <3> QED
        BY <1>1, <1>2, <2>1, <3>1, <3>2
    <2>4. \A i \in Index : log'[s][i] # NoLog <=> i <= lastLogIndex'[s]
      BY <2>1, <2>3 DEF Index
    <2>5. \A i, j \in Index : i <= j /\ log'[s][j] # NoLog => log'[s][i] <= log'[s][j]
      <3> SUFFICES ASSUME NEW i \in Index, NEW j \in Index, i <= j, log'[s][j] # NoLog
                   PROVE  log'[s][i] <= log'[s][j]
        OBVIOUS
      <3>1. CASE j <= a.pre
        <4>1. i <= a.pre
          BY <2>1, <3>1 DEF Index
        <4> QED
          BY <1>1, <2>1, <3>1, <4>1
      <3>2. CASE ~(j <= a.pre)
        <4>1. j = a.pre + 1 /\ log'[s][j] = a.entry /\ a.entry # NoLog
          BY <2>1, <3>2
        <4>2. i = a.pre + 1 \/ (i <= a.pre /\ log'[s][i] = log[s][i])
          BY <2>1, <4>1 DEF Index
        <4>3. a.entry \in Term
          BY <2>1, <4>1
        <4> QED
          BY <2>1, <2>2, <2>3, <4>1, <4>2, <4>3 DEF Term
      <3> QED
        BY <3>1, <3>2
    <2>6. CASE a.entry # NoLog
      <3>1. lastLogIndex'[s] = a.pre + 1 /\ log'[s][a.pre + 1] = a.entry
            /\ lastLogTerm'[s] = a.entry
        BY <2>1, <2>6 DEF Index
      <3>2. a.entry \in Term
        BY <2>1, <2>6
      <3> QED
        BY <2>1, <2>4, <2>5, <2>6, <3>1, <3>2 DEF Term
    <2>7. CASE a.entry = NoLog
      <3>1. lastLogIndex'[s] = a.pre /\ log'[s][a.pre] = a.preTerm
        BY <2>1, <2>7 DEF Index
      <3>2. a.preTerm <= log[s][lastLogIndex[s]]
        BY <1>2, <2>1 DEF Term, NoLog
      <3>3. a.preTerm <= a.term
        BY <1>2, <1>3, <2>1, <3>2 DEF Term
      <3>4. lastLogTerm'[s] <= a.preTerm
        BY <1>2, <2>1, <2>7 DEF Term
      <3> QED
        BY <2>1, <2>4, <2>5, <3>1, <3>3, <3>4
    <2> QED
      BY <2>6, <2>7
  <1> QED
    BY <1>4, <1>5, <1>6, LogCases

\* A log that is added has its place in the tree, and is the only one added.
LEMMA WrittenCases ==
    ASSUME SafetyInv, Step
    PROVE  /\ written \subseteq written' /\ reused' = reused
           /\ \/ written' = written
              \/ \E s \in Server :
                    EvaluateVoteResult(s) /\ Adds(s, lastLogIndex[s] + 1, currentTerm[s])
              \/ \E s \in Server :
                    /\ AddRaftEntry(s) /\ Adds(s, write[s].index, write[s].term)
                    /\ log[s][write[s].index - 1] = write[s].term
  <1>1. ASSUME NEW s \in Server, EvaluateVoteResult(s)
        PROVE  Adds(s, lastLogIndex[s] + 1, currentTerm[s]) /\ reused' = reused
    BY <1>1, ElectedAdds DEF Adds
  <1>2. ASSUME NEW s \in Server, AddRaftEntry(s), log[s][write[s].index] = NoLog
        PROVE  /\ Adds(s, write[s].index, write[s].term) /\ reused' = reused
               /\ log[s][write[s].index - 1] = write[s].term
    BY <1>2, WriteAdds DEF Adds
  <1> QED
    BY <1>1, <1>2, WrittenChange

LEMMA TreeStep ==
    ASSUME SafetyInv, Step
    PROVE  TreeOK'
  <1>0. TypeOK /\ TypeOK' /\ LogsOK /\ TreeOK
    BY TypesStep DEF SafetyInv
  <1>1. ASSUME NEW s \in Server, NEW n, NEW t, Adds(s, n, t) PROVE Tree(written')
    <2> DEFINE k == <<n, t, log[s][n - 1]>>
    <2>1. /\ n \in Index /\ log[s][n - 1] \in Term /\ log[s][n - 1] <= t
          /\ \A l \in written : ~(l[1] = n /\ l[2] = t)
          /\ written' = written \cup {k}
      BY <1>1 DEF Adds
    <2>2. k[1] = n /\ k[2] = t /\ k[3] = log[s][n - 1] /\ k[3] # NoLog /\ k[3] <= k[2]
      BY <2>1 DEF Term, NoLog
    <2> HIDE DEF k
    <2>3. ASSUME NEW l \in written', NEW m \in written', l[1] = m[1], l[2] = m[2]
          PROVE  l[3] = m[3]
      BY <1>0, <2>1, <2>2, <2>3 DEF TreeOK, Tree
    <2>4. ASSUME NEW l \in written', l[1] > 1 PROVE l[3] # NoLog /\ l[3] <= l[2]
      BY <1>0, <2>1, <2>2, <2>4 DEF TreeOK, Tree
    <2> QED
      BY <2>3, <2>4 DEF Tree
  <1>2. Tree(written')
    <2>1. CASE written' = written
      BY <1>0, <2>1 DEF TreeOK
    <2> QED
      BY <1>1, <2>1, WrittenCases
  <1>3. ASSUME NEW s \in Server PROVE Path(log'[s], written')
    <2> SUFFICES ASSUME NEW i \in Index, log'[s][i] # NoLog
                 PROVE  <<i, log'[s][i], LogBefore(log'[s], i)>> \in written'
      BY DEF Path
    <2>0. written \subseteq written' /\ Path(log[s], written)
      BY <1>0, WrittenCases DEF TreeOK
    <2>1. CASE log'[s] = log[s]
      BY <2>0, <2>1 DEF Path
    <2>2. ASSUME NEW n, NEW t, Adds(s, n, t)
          PROVE  <<i, log'[s][i], LogBefore(log'[s], i)>> \in written'
      <3>1. /\ n \in Index /\ n - 1 \in Index /\ n - 1 = lastLogIndex[s]
            /\ \A j \in Index : log'[s][j] = IF j = n THEN t ELSE log[s][j]
            /\ written' = written \cup {<<n, t, log[s][n - 1]>>}
        BY <2>2 DEF Adds
      <3>2. CASE i = n
        <4>1. LogBefore(log'[s], n) = log[s][n - 1] /\ log'[s][n] = t
          <5>1. n # 1 /\ n - 1 # n
            BY <3>1 DEF Index
          <5> QED
            BY <3>1, <5>1 DEF LogBefore
        <4> QED
          BY <3>1, <3>2, <4>1
      <3>3. CASE i # n
        <4>1. log[s][i] # NoLog /\ log'[s][i] = log[s][i]
          BY <3>1, <3>3
        <4>2. i <= lastLogIndex[s]
          BY <1>0, <4>1, LastLog
        <4>3. i = 1 \/ (i - 1 \in Index /\ i - 1 # n)
          BY <3>1, <4>2, BoundAssumption DEF Index
        <4>4. LogBefore(log'[s], i) = LogBefore(log[s], i)
          BY <3>1, <4>3 DEF LogBefore
        <4> QED
          BY <2>0, <4>1, <4>4 DEF Path
      <3> QED
        BY <3>2, <3>3
    <2>3. ASSUME NEW x \in Server, AppendEntriesGetReply(x, s), Accepts(x, s)
          PROVE  <<i, log'[s][i], LogBefore(log'[s], i)>> \in written'
      <3> DEFINE a == call[x][s].args
      <3>0. AcceptedCall(x, s, a) /\ AcceptedLogs(s, a)
        BY <2>3, AcceptEffect
      <3> HIDE DEF a
      <3>1. /\ a.pre \in Index /\ log[s][a.pre] = a.preTerm
            /\ a.entry # NoLog => /\ a.pre + 1 \in Index
                                  /\ <<a.pre + 1, a.entry, a.preTerm>> \in written
            /\ \A j \in Index :
                 log'[s][j] = IF j <= a.pre THEN log[s][j]
                              ELSE IF j = a.pre + 1 THEN a.entry ELSE NoLog
        BY <3>0 DEF AcceptedCall, AcceptedLogs, Index
      <3>2. CASE i <= a.pre
        <4>1. log'[s][i] = log[s][i]
          BY <3>1, <3>2
        <4>2. i = 1 \/ (i - 1 \in Index /\ i - 1 <= a.pre)
          BY <3>1, <3>2, BoundAssumption DEF Index
        <4>3. LogBefore(log'[s], i) = LogBefore(log[s], i)
          BY <3>1, <4>2 DEF LogBefore
        <4> QED
          BY <2>0, <4>1, <4>3 DEF Path
      <3>3. CASE ~(i <= a.pre)
        <4>1. i = a.pre + 1 /\ a.entry # NoLog /\ log'[s][i] = a.entry
          BY <3>1, <3>3
        <4>2. LogBefore(log'[s], i) = a.preTerm
          <5>1. i # 1 /\ i - 1 = a.pre /\ a.pre <= a.pre
            BY <3>1, <4>1 DEF Index
          <5> QED
            BY <3>1, <5>1 DEF LogBefore
        <4> QED
          BY <2>0, <3>1, <4>1, <4>2
      <3> QED
        BY <3>2, <3>3
    <2> QED
      BY <2>1, <2>2, <2>3, LogCases
  <1> QED
    BY <1>2, <1>3 DEF TreeOK

-----------------------------------------------------------------------------
(* Each term has one leader *)

\* A term stays taken.
LEMMA TakenStable ==
    ASSUME SafetyInv, Prompt, Step, NEW t \in Term, Taken(t)
    PROVE  Taken(t)'
  <1>0. TypeOK /\ TypeOK' /\ VotesOK /\ LogsOK /\ ~ForgetsVote
    BY TypesStep DEF SafetyInv, Prompt
  <1>1. \A s \in Server : /\ currentTerm[s] \in Nat /\ currentTerm'[s] \in Nat
                          /\ currentTerm'[s] >= currentTerm[s]
    BY RoleChange
  <1>2. t \in Nat
    BY DEF Term
  <1>3. PICK Q \in SUBSET Server :
          /\ IsMajority(Q)
          /\ \A q \in Q : /\ currentTerm[q] >= t
                          /\ \A c \in Server : Open(c, t) => Blocks(q, c, t)
    BY DEF Taken
  <1>4. IsMajority(Q)'
    BY <1>3 DEF IsMajority
  <1>5. ASSUME NEW q \in Q PROVE currentTerm'[q] >= t
    BY <1>1, <1>2, <1>3
  <1>6. ASSUME NEW q \in Q, NEW c \in Server, Open(c, t)' PROVE Blocks(q, c, t)'
    <2>0. q \in Server /\ currentTerm[q] >= t
      BY <1>3
    <2>1. StartVote(c) => currentTerm'[c] = currentTerm[c] + 1 /\ votes'[c] = {c}
      BY <1>0, StartVoteEffect
    <2>2. /\ currentTerm'[c] = t => role'[c] = "candidate"
          /\ currentTerm'[c] <= t
      BY <1>1, <1>2, <1>6 DEF Open
    <2>3. Open(c, t)
      <3>1. CASE currentTerm'[c] < t
        BY <1>1, <1>2, <3>1 DEF Open
      <3>2. CASE currentTerm'[c] = t /\ role'[c] = "candidate"
        <4>1. \/ role[c] = "candidate" /\ currentTerm'[c] = currentTerm[c]
              \/ StartVote(c)
          BY <3>2, RoleChange
        <4> QED
          BY <1>1, <1>2, <2>1, <3>2, <4>1 DEF Open
      <3> QED
        BY <1>6, <3>1, <3>2 DEF Open
    <2>4. Blocks(q, c, t)
      BY <1>3, <2>3
    <2>5. currentTerm'[c] = t => q \notin votes'[c]
      <3> SUFFICES ASSUME currentTerm'[c] = t, q \in votes'[c] PROVE FALSE
        OBVIOUS
      <3>0. role'[c] = "candidate"
        BY <2>2
      <3>1. CASE StartVote(c)
        <4>1. q = c /\ currentTerm[c] + 1 = t
          BY <2>1, <3>1
        <4> QED
          BY <1>1, <1>2, <2>0, <4>1
      <3>2. CASE ~StartVote(c)
        <4>1. role[c] = "candidate" /\ currentTerm[c] = t /\ q \notin votes[c]
          BY <2>4, <3>0, <3>2, RoleChange DEF Blocks
        <4>2. ~EvaluateVoteResult(c) /\ ~Restart(c)
          BY <1>0, <3>0, EvaluateEffect, RestartEffect
        <4>3. PICK p \in Server : p # c /\ GrantVote(c, p)
          BY <3>2, <4>1, <4>2, VoteChange
        <4>4. /\ votes'[c] = votes[c] \cup {p} /\ VoteFree(p, c)
              /\ currentTerm[p] <= currentTerm[c]
          BY <1>0, <4>3, GrantVoteEffect
        <4>5. p = q
          BY <4>1, <4>4
        <4>6. votedForTerm[q] = t /\ votedFor[q] \notin {Nil, c}
          BY <1>1, <1>2, <2>0, <2>4, <4>1, <4>4, <4>5 DEF Blocks
        <4> QED
          BY <4>1, <4>4, <4>5, <4>6 DEF VoteFree
      <3> QED
        BY <3>1, <3>2
    <2>6. \/ currentTerm'[q] > t
          \/ votedForTerm'[q] = t /\ votedFor'[q] \notin {Nil, c}
      <3>1. CASE currentTerm[q] > t
        BY <1>1, <1>2, <2>0, <3>1
      <3>2. CASE votedForTerm[q] = t /\ votedFor[q] \notin {Nil, c}
        <4>1. CASE votedFor'[q] = votedFor[q] /\ votedForTerm'[q] = votedForTerm[q]
          BY <3>2, <4>1
        <4>2. CASE StartVote(q)
          BY <1>0, <1>1, <1>2, <2>0, <4>2, StartVoteEffect
        <4>3. CASE Restart(q)
          <5>1. ~VoteOpen(q) /\ role'[q] = "follower" /\ currentTerm' = currentTerm
            BY <1>0, <2>0, <4>3, RestartEffect
          <5>2. c = q
            BY <2>3, <3>2, <5>1 DEF VoteOpen, Peer, Open
          <5>3. ~(currentTerm'[c] = t)
            BY <2>2, <5>1, <5>2
          <5> QED
            BY <1>1, <1>2, <2>0, <2>2, <5>1, <5>2, <5>3
        <4>4. ASSUME NEW x \in Server, x # q, GrantVote(x, q)
              PROVE  \/ currentTerm'[q] > t
                     \/ votedForTerm'[q] = t /\ votedFor'[q] \notin {Nil, c}
          <5>1. /\ currentTerm[q] <= currentTerm[x] /\ VoteFree(q, x)
                /\ currentTerm'[q] = currentTerm[x] /\ votedFor'[q] = x
                /\ votedForTerm'[q] = currentTerm[x]
            BY <1>0, <2>0, <4>4, GrantVoteEffect
          <5>2. CASE currentTerm[x] = t
            BY <3>2, <5>1, <5>2 DEF VoteFree
          <5> QED
            BY <1>1, <1>2, <2>0, <5>1, <5>2
        <4> QED
          BY <2>0, <4>1, <4>2, <4>3, <4>4, VoteChange
      <3> QED
        BY <2>4, <3>1, <3>2 DEF Blocks
    <2> QED
      BY <2>5, <2>6 DEF Blocks
  <1> QED
    BY <1>4, <1>5, <1>6 DEF Taken

\* The voters of a new leader elect no other in its term.
LEMMA ElectionTakes ==
    ASSUME SafetyInv, NEW s \in Server, EvaluateVoteResult(s)
    PROVE  Taken(currentTerm[s])'
  <1>0. TypeOK /\ VotesOK
    BY DEF SafetyInv
  <1>a. PICK t \in Term : t = currentTerm[s]
    BY <1>0 DEF TypeOK
  <1>b. PICK Q \in SUBSET Server : Q = votes[s]
    BY <1>0 DEF TypeOK
  <1>1. IsMajority(Q) /\ role[s] = "candidate"
    BY <1>b, NewLeadersTerm
  <1>2. /\ role'[s] = "leader" /\ votes'[s] = {}
        /\ \A x \in Server \ {s} : role'[x] = role[x] /\ votes'[x] = votes[x]
        /\ UNCHANGED <<currentTerm, votedFor, votedForTerm>>
    BY ElectedAdds DEF Adds
  <1>3. \A q \in Q : q \in Server /\ currentTerm[q] \in Nat /\ t \in Nat
    BY <1>0, <1>a DEF TypeOK, Term
  <1>4. ASSUME NEW q \in Q
        PROVE  \/ currentTerm[q] > t
               \/ currentTerm[q] = t /\ votedForTerm[q] = t /\ votedFor[q] = s
    BY <1>0, <1>1, <1>4, <1>a, <1>b DEF VotesOK
  <1>5. ASSUME NEW q \in Q, NEW c \in Server, Open(c, t)' PROVE Blocks(q, c, t)'
    <2>1. c # s /\ role'[c] = role[c] /\ votes'[c] = votes[c]
      <3>1. c # s
        BY <1>2, <1>3, <1>5, <1>a DEF Open
      <3> QED
        BY <1>2, <3>1
    <2>2. currentTerm'[c] = t => q \notin votes'[c]
      <3> SUFFICES ASSUME currentTerm'[c] = t PROVE q \notin votes'[c]
        OBVIOUS
      <3>1. role[c] = "candidate" /\ currentTerm[c] = t
        BY <1>2, <1>3, <1>5, <1>a, <2>1 DEF Open
      <3>2. votes[s] \cap votes[c] = {}
        BY <1>0, <1>1, <1>a, <2>1, <3>1 DEF VotesOK
      <3> QED
        BY <1>5, <1>b, <2>1, <3>2
    <2>3. s \notin {Nil, c}
      BY <2>1, ServerAssumption
    <2> QED
      BY <1>2, <1>4, <2>2, <2>3 DEF Blocks
  <1>6. \A q \in Q : currentTerm'[q] >= t
    BY <1>2, <1>3, <1>4
  <1>7. IsMajority(Q)' /\ Q \in SUBSET Server /\ currentTerm'[s] = t
    BY <1>1, <1>2, <1>a DEF IsMajority
  <1> QED
    BY <1>5, <1>6, <1>7 DEF Taken

LEMMA TermsStep ==
    ASSUME SafetyInv, Prompt, Step
    PROVE  TermsOK'
  <1>0. TypeOK /\ TypeOK' /\ TermsOK /\ OwnersOK
    BY TypesStep DEF SafetyInv
  <1>1. ASSUME NEW l \in written PROVE Taken(l[2])'
    <2>1. l[2] \in Term /\ Taken(l[2])
      BY <1>0 DEF TypeOK, TermsOK
    <2>2. PICK t \in Term : t = l[2]
      BY <2>1
    <2> QED
      BY <2>1, <2>2, TakenStable
  <1>2. ASSUME NEW s \in Server, EvaluateVoteResult(s),
               Adds(s, lastLogIndex[s] + 1, currentTerm[s]), NEW l \in written', l \notin written
        PROVE  Taken(l[2])'
    <2>1. l[2] = currentTerm[s] /\ currentTerm'[s] = currentTerm[s]
      BY <1>2 DEF Adds
    <2> QED
      BY <1>2, <2>1, ElectionTakes
  <1>3. ASSUME NEW s \in Server, AddRaftEntry(s), Adds(s, write[s].index, write[s].term),
               NEW l \in written', l \notin written
        PROVE  Taken(l[2])'
    <2>1. l[2] = write[s].term /\ l[2] \in Term /\ write[s] # Nil
      BY <1>3 DEF Adds, AddRaftEntry
    <2>2. Owns(s, l[2])
      BY <2>1 DEF Owns
    <2>3. \E k \in written : k[2] = l[2]
      BY <1>0, <2>1, <2>2 DEF OwnersOK
    <2> QED
      BY <1>1, <2>3
  <1> QED
    BY <1>1, <1>2, <1>3, WrittenCases DEF TermsOK

\* Who acts for a term has done so before, or is elected now.
LEMMA OwnersChange ==
    ASSUME SafetyInv, Step, NEW s \in Server, NEW t \in Term, Owns(s, t)'
    PROVE  Owns(s, t) \/ (EvaluateVoteResult(s) /\ t = currentTerm[s])
  <1>0. TypeOK /\ LogsOK /\ LeadersOK /\ CallsOK
    BY DEF SafetyInv
  <1>1. CASE role'[s] = "leader" /\ currentTerm'[s] = t
    <2>1. CASE EvaluateVoteResult(s)
      BY <1>1, <2>1, ElectedAdds DEF Adds
    <2> QED
      BY <1>1, <2>1, RoleChange DEF Owns
  <1>2. CASE write'[s] # Nil /\ write'[s].term = t
    <2>1. CASE write'[s] = write[s]
      BY <1>2, <2>1 DEF Owns
    <2>2. CASE EvaluateVoteResult(s)
      BY <1>2, <2>2, ElectedAdds DEF Adds
    <2>3. CASE PreCommit(s)
      <3>1. write'[s].term = currentTerm[s] /\ role[s] = "leader"
        BY <1>0, <2>3 DEF PreCommit, NextWrite, TypeOK
      <3> QED
        BY <1>2, <3>1 DEF Owns
    <2>4. CASE AddRaftEntry(s)
      <3>1. write[s] # Nil /\ write'[s].term = write[s].term
        BY <1>2, <2>4, WriteAdds DEF Adds
      <3> QED
        BY <1>2, <3>1 DEF Owns
    <2>5. CASE CommitWrite(s)
      BY <1>2, <2>5, CommitEffect
    <2>6. CASE AbortWrite(s)
      BY <1>0, <1>2, <2>6, AbortWriteEffect
    <2>7. CASE Restart(s)
      BY <1>0, <1>2, <2>7, RestartEffect
    <2> QED
      BY <2>1, <2>2, <2>3, <2>4, <2>5, <2>6, <2>7, WriteChange
  <1>3. ASSUME NEW p \in Server, call'[s][p] # Nil, call'[s][p].args.term = t
        PROVE  Owns(s, t)
    <2>1. CASE call'[s][p] = call[s][p]
      BY <1>3, <2>1 DEF Owns
    <2>2. CASE SendAppend(s, p)
      BY <1>0, <1>3, <2>2, SendAppendEffect DEF SentCall, Owns
    <2>3. CASE SendPing(s, p)
      BY <1>0, <1>3, <2>3, SendPingEffect DEF SentCall, Owns
    <2>4. CASE ReplyMismatch(s, p)
      BY <1>0, <1>3, <2>4, ReplyMismatchEffect DEF SentCall, Ended, Owns
    <2>5. CASE ReplyMatch(s, p)
      BY <1>0, <1>3, <2>5, ReplyMatchEffect DEF SentCall, Ended, Owns
    <2>6. CASE AppendEntriesGetReply(s, p)
      <3>1. call[s][p] # Nil
            /\ (Rejects(s, p) \/ StepsDown(s, p) \/ Differs(s, p) \/ Accepts(s, p))
        BY <2>6, HandlerStep
      <3>2. call'[s][p].args = call[s][p].args
        BY <1>3, <3>1 DEF Rejects, StepsDown, Differs, Accepts, Answered, Ended
      <3> QED
        BY <1>3, <3>1, <3>2 DEF Owns
    <2> QED
      BY <1>3, <2>1, <2>2, <2>3, <2>4, <2>5, <2>6, CallChange
  <1> QED
    BY <1>1, <1>2, <1>3 DEF Owns

LEMMA OwnersStep ==
    ASSUME SafetyInv, Step
    PROVE  OwnersOK'
  <1>0. TypeOK /\ OwnersOK
    BY DEF SafetyInv
  <1> SUFFICES ASSUME NEW s \in Server, NEW t \in Term, Owns(s, t)'
               PROVE  /\ t <= currentTerm'[s]
                      /\ \E l \in written' : l[2] = t
                      /\ \A p \in Server : Owns(p, t)' => p = s
    BY DEF OwnersOK
  <1>1. /\ currentTerm[s] \in Nat /\ currentTerm'[s] \in Nat /\ t \in Nat
        /\ currentTerm'[s] >= currentTerm[s] /\ written \subseteq written'
    BY RoleChange, WrittenCases DEF Term
  <1>2. ASSUME NEW x \in Server, EvaluateVoteResult(x), t = currentTerm[x],
               NEW y \in Server, Owns(y, t)'
        PROVE  y = x
    <2>1. \A l \in written : l[2] # t
      BY <1>2, NewLeadersTerm
    <2>2. ~Owns(y, t)
      BY <1>0, <2>1 DEF OwnersOK
    <2>3. EvaluateVoteResult(y)
      BY <1>2, <2>2, OwnersChange
    <2>4. role[x] = "candidate" /\ role'[x] = "leader"
      BY <1>2, ElectedAdds, NewLeadersTerm
    <2> QED
      BY <2>3, <2>4, ElectedAdds
  <1>3. CASE Owns(s, t)
    <2>1. /\ t <= currentTerm[s] /\ \E l \in written : l[2] = t
          /\ \A p \in Server : Owns(p, t) => p = s
      BY <1>0, <1>3 DEF OwnersOK
    <2>2. ASSUME NEW p \in Server, Owns(p, t)' PROVE p = s
      BY <1>2, <2>1, <2>2, OwnersChange
    <2> QED
      BY <1>1, <2>1, <2>2
  <1>4. CASE EvaluateVoteResult(s) /\ t = currentTerm[s]
    <2>1. PICK n : Adds(s, n, t)
      BY <1>4, ElectedAdds
    <2>2. \E l \in written' : l[2] = t
      <3>1. <<n, t, log[s][n - 1]>> \in written'
        BY <2>1 DEF Adds
      <3> QED
        BY <3>1
    <2> QED
      BY <1>1, <1>2, <1>4, <2>2
  <1> QED
    BY <1>3, <1>4, OwnersChange

-----------------------------------------------------------------------------
(* What is settled stays so *)

\* A leader has the logs that later terms grow above.
LEMMA LeaderHas ==
    ASSUME TypeOK, LogsOK, TreeOK, LeadersOK, NEW s \in Server, role[s] = "leader",
           NEW n \in Index, NEW t \in Term, GrowsAbove(n, t), IsWritten(n, t),
           currentTerm[s] >= t
    PROVE  log[s][n] = t /\ lastLogIndex[s] >= n
  <1>1. /\ lastLogIndex[s] \in Index /\ log[s][lastLogIndex[s]] \in Term
        /\ \A i \in Index : log[s][i] # NoLog => i <= lastLogIndex[s]
        /\ log[s] \in [Index -> Term \cup {NoLog}] /\ currentTerm[s] \in Term
    BY LastLog DEF TypeOK
  <1>2. log[s][lastLogIndex[s]] = currentTerm[s]
    BY DEF LeadersOK
  <1>3. CASE currentTerm[s] = t
    <2>1. log[s][n] = t
      BY <1>3 DEF LeadersOK, IsWritten
    <2> QED
      BY <1>1, <2>1 DEF Index, Term, NoLog
  <1>4. CASE currentTerm[s] > t
    <2>1. AtOrAfter(lastLogIndex[s], log[s][lastLogIndex[s]], n, t)
      BY <1>2, <1>4 DEF AtOrAfter
    <2>2. Path(log[s], written) /\ log[s][lastLogIndex[s]] # NoLog
      BY <1>1 DEF TreeOK, Term, NoLog
    <2> QED
      BY <1>1, <2>1, <2>2, InRegion
  <1> QED
    BY <1>1, <1>3, <1>4 DEF Term

\* A candidate whose voters include one that holds <<n, t>> is at or after it.
LEMMA GrowsStable ==
    ASSUME SafetyInv, Step, NEW n \in Index, NEW t \in Term, GrowsAbove(n, t),
           IsWritten(n, t),
           \A s \in Server : EvaluateVoteResult(s) /\ currentTerm[s] > t
                               => LastAtOrAfter(s, n, t)
    PROVE  GrowsAbove(n, t)' /\ IsWritten(n, t)'
  <1>0. TypeOK /\ TypeOK' /\ LogsOK /\ TreeOK /\ ChosenWritesOK
    BY TypesStep DEF SafetyInv
  <1>1. IsWritten(n, t)'
    BY WrittenCases DEF IsWritten
  <1> DEFINE Grows(l) == AtOrAfter(l[1], l[2], n, t) =>
                            /\ l[1] >= n
                            /\ l[1] = n => l[2] = t
                            /\ l[1] > n => AtOrAfter(l[1] - 1, l[3], n, t)
  <1>2. ASSUME NEW l \in written PROVE Grows(l)
    BY DEF GrowsAbove
  <1>3. ASSUME NEW s \in Server, NEW m, NEW k, Adds(s, m, k),
               AtOrAfter(m, k, n, t) => AtOrAfter(m - 1, log[s][m - 1], n, t),
               NEW l \in written', l \notin written
        PROVE  Grows(l)
    <2>1. /\ l[1] = m /\ l[2] = k /\ l[3] = log[s][m - 1]
          /\ m \in Index /\ m - 1 \in Index /\ log[s][m - 1] \in Term
      BY <1>3 DEF Adds
    <2>2. Path(log[s], written) /\ log[s][m - 1] # NoLog
          /\ log[s] \in [Index -> Term \cup {NoLog}]
      BY <1>0, <2>1 DEF TreeOK, TypeOK, Term, NoLog
    <2>3. AtOrAfter(m, k, n, t) => m - 1 >= n
      BY <1>0, <1>3, <2>1, <2>2, InRegion
    <2> QED
      BY <1>3, <2>1, <2>3 DEF Index
  <1>4. ASSUME NEW s \in Server, EvaluateVoteResult(s),
               Adds(s, lastLogIndex[s] + 1, currentTerm[s]), NEW l \in written', l \notin written
        PROVE  Grows(l)
    <2> DEFINE m == lastLogIndex[s] + 1
               k == currentTerm[s]
    <2>1. /\ m - 1 = lastLogIndex[s] /\ m - 1 \in Index /\ k \in Term
          /\ lastLogTerm[s] \in Term /\ log[s][m - 1] \in Term
          /\ lastLogTerm[s] <= log[s][m - 1]
      <3>1. /\ lastLogIndex[s] \in Index /\ log[s][lastLogIndex[s]] \in Term
            /\ lastLogTerm[s] \in Term /\ lastLogTerm[s] <= log[s][lastLogIndex[s]]
        BY <1>0, LastLog
      <3>2. m - 1 = lastLogIndex[s] /\ k \in Term
        BY <1>0, <3>1 DEF Index, TypeOK
      <3> QED
        BY <3>1, <3>2
    <2>2. k # t
      BY <1>4, NewLeadersTerm DEF IsWritten
    <2>3. AtOrAfter(m, k, n, t) => AtOrAfter(m - 1, lastLogTerm[s], n, t)
      BY <1>4, <2>1, <2>2 DEF AtOrAfter, LastAtOrAfter
    <2>4. AtOrAfter(m, k, n, t) => AtOrAfter(m - 1, log[s][m - 1], n, t)
      BY <2>1, <2>3 DEF AtOrAfter, Term
    <2> QED
      BY <1>3, <1>4, <2>4
  <1>5. ASSUME NEW s \in Server, AddRaftEntry(s), Adds(s, write[s].index, write[s].term),
               log[s][write[s].index - 1] = write[s].term,
               NEW l \in written', l \notin written
        PROVE  Grows(l)
    <2> DEFINE m == write[s].index
               k == write[s].term
    <2>1. m \in Index /\ m - 1 \in Index /\ k \in Term
      BY <1>5 DEF Adds
    <2>2. k = t => n < m
      BY <1>0, <1>5 DEF ChosenWritesOK, IsWritten, AddRaftEntry
    <2>3. AtOrAfter(m, k, n, t) => AtOrAfter(m - 1, k, n, t)
      BY <2>1, <2>2 DEF AtOrAfter, Index
    <2> QED
      BY <1>3, <1>5, <2>3
  <1>6. ASSUME NEW l \in written' PROVE Grows(l)
    BY <1>2, <1>4, <1>5, WrittenCases
  <1> QED
    BY <1>1, <1>6 DEF GrowsAbove

\* The calls to q keep a log of q that their leader has too.
LEMMA CallKeepsStable ==
    ASSUME SafetyInv, Step, NEW q \in Server, NEW i \in Index, NEW k \in Term,
           log[q][i] = k, NEW s \in Server, CallKeeps(call[s][q], q, i, k),
           role[s] = "leader" /\ currentTerm[s] >= currentTerm[q] => log[s][i] = k
    PROVE  CallKeeps(call[s][q], q, i, k)'
  <1>0. TypeOK /\ TypeOK' /\ LogsOK /\ TreeOK /\ LeadersOK /\ CallsOK /\ CallOK(s, q)
    BY TypesStep DEF SafetyInv, CallsOK
  <1>1. /\ currentTerm[q] \in Nat /\ currentTerm'[q] \in Nat
        /\ currentTerm'[q] >= currentTerm[q] /\ i \in Nat
    BY RoleChange DEF Index
  <1>2. CASE call'[s][q] = call[s][q]
    <2>1. call[s][q] # Nil => call[s][q].args.term \in Nat
      BY <1>0, CallFields DEF Term
    <2> QED
      BY <1>1, <1>2, <2>1 DEF CallKeeps
  <1>3. CASE call'[s][q] = Nil
    BY <1>3 DEF CallKeeps
  <1>4. ASSUME NEW pre, NEW entry, SentCall(s, q, pre, entry), currentTerm' = currentTerm,
               currentTerm[s] >= currentTerm[q] =>
                  \/ pre >= i
                  \/ pre = i - 1 /\ entry = log[s][i]
        PROVE  CallKeeps(call[s][q], q, i, k)'
    <2>1. /\ role[s] = "leader" /\ pre \in Index
          /\ call'[s][q] # Nil /\ call'[s][q].st = "sent"
          /\ call'[s][q].args.pre = pre
          /\ call'[s][q].args.preTerm = log[s][pre]
          /\ call'[s][q].args.entry = entry
          /\ call'[s][q].args.term = currentTerm[s]
      BY <1>4 DEF SentCall
    <2>2. CASE currentTerm[s] >= currentTerm[q]
      <3>1. log[s][i] = k
        BY <2>1, <2>2
      <3>2. \/ pre > i
            \/ pre = i /\ log[s][pre] = k
            \/ pre = i - 1 /\ entry = k
        BY <1>1, <1>4, <2>1, <2>2, <3>1 DEF Index
      <3> QED
        BY <2>1, <3>2 DEF CallKeeps
    <2>3. CASE ~(currentTerm[s] >= currentTerm[q])
      BY <1>4, <2>1, <2>3 DEF CallKeeps
    <2> QED
      BY <2>2, <2>3
  <1>5. k # NoLog /\ \A x \in Server : log[x][i] = k => lastLogIndex[x] >= i
                                                     /\ lastLogIndex[x] \in Index
    BY <1>0, <1>1, LastLog DEF Term, NoLog, Index
  <1>6. CASE SendAppend(s, q)
    <2>1. /\ SentCall(s, q, write[s].index - 1, write[s].term)
          /\ write[s].index = lastLogIndex[s] /\ currentTerm' = currentTerm
          /\ write[s].term = currentTerm[s] /\ role[s] = "leader"
      BY <1>0, <1>6, SendAppendEffect DEF SentCall
    <2>2. log[s][lastLogIndex[s]] = currentTerm[s]
      BY <1>0, <2>1 DEF LeadersOK
    <2>3. currentTerm[s] >= currentTerm[q] =>
             \/ write[s].index - 1 >= i
             \/ write[s].index - 1 = i - 1 /\ write[s].term = log[s][i]
      BY <1>1, <1>5, <2>1, <2>2 DEF Index
    <2> QED
      BY <1>4, <2>1, <2>3
  <1>7. CASE SendPing(s, q)
    <2>1. SentCall(s, q, lastLogIndex[s], NoLog) /\ currentTerm' = currentTerm
          /\ role[s] = "leader"
      BY <1>0, <1>7, SendPingEffect DEF SentCall
    <2> QED
      BY <1>4, <1>5, <2>1
  <1>8. CASE ReplyMismatch(s, q)
    <2> DEFINE a == call[s][q].args
               status == call[s][q].status
               n == SearchFrom(a, status)
    <2>1. /\ role[s] = "leader" /\ call[s][q] # Nil
          /\ call[s][q].st = "answered" /\ status # 0
          /\ n \in Index
          /\ \/ n > 1 /\ SentCall(s, q, n - 1, log[s][n]) /\ log[s][n] # NoLog
             \/ Ended(s, q)
          /\ currentTerm' = currentTerm
      BY <1>0, <1>8, ReplyMismatchEffect
    <2>2. a.term = currentTerm[s] /\ a.pre \in Index /\ status \in Nat
      BY <1>0, <2>1, CallFields DEF CallOK
    <2>3. currentTerm[s] >= currentTerm[q] => a.pre > i /\ status >= i
      BY <2>1, <2>2 DEF CallKeeps
    <2>4. currentTerm[s] >= currentTerm[q] => n - 1 >= i
      BY <1>1, <2>2, <2>3, BoundAssumption DEF SearchFrom, Index
    <2> HIDE DEF n
    <2>5. CASE Ended(s, q)
      BY <1>3, <2>5 DEF Ended
    <2> QED
      BY <1>4, <2>1, <2>4, <2>5
  <1>9. CASE ReplyMatch(s, q)
    <2> DEFINE a == call[s][q].args
    <2>1. /\ role[s] = "leader" /\ call[s][q] # Nil
          /\ call[s][q].st = "answered" /\ call[s][q].status = 0
          /\ \/ Ended(s, q)
             \/ \E entry : SentCall(s, q, a.pre + 1, entry)
          /\ currentTerm' = currentTerm
      BY <1>0, <1>9, ReplyMatchEffect
    <2>2. a.term = currentTerm[s] /\ a.pre \in Index
      BY <1>0, <2>1, CallFields DEF CallOK
    <2>3. currentTerm[s] >= currentTerm[q] => a.pre + 1 >= i
      BY <1>1, <2>1, <2>2 DEF CallKeeps, Index
    <2>4. CASE Ended(s, q)
      BY <1>3, <2>4 DEF Ended
    <2> HIDE DEF a
    <2>5. ASSUME NEW entry, SentCall(s, q, a.pre + 1, entry)
          PROVE  CallKeeps(call[s][q], q, i, k)'
      BY <1>4, <2>1, <2>3, <2>5
    <2> QED
      BY <2>1, <2>4, <2>5
  <1>10. CASE AppendEntriesGetReply(s, q)
    <2> DEFINE a == call[s][q].args
    <2>1. /\ call[s][q] # Nil /\ call[s][q].st = "sent"
          /\ Rejects(s, q) \/ StepsDown(s, q) \/ Differs(s, q) \/ Accepts(s, q)
      BY <1>10, HandlerStep
    <2>2. /\ a.term \in Nat /\ a.pre \in Index /\ a.entry \in Term \cup {NoLog}
          /\ a.preTerm \in Term
      BY <1>0, <2>1, CallFields DEF Term
    <2>3. a.term >= currentTerm[q] => \/ a.pre > i
                                      \/ a.pre = i /\ a.preTerm = k
                                      \/ a.pre = i - 1 /\ a.entry = k
      BY <2>1 DEF CallKeeps
    <2>4. CASE Rejects(s, q)
      <3>1. /\ call'[s][q].args = a
            /\ a.term < currentTerm[q]
        BY <2>4 DEF Rejects, Answered
      <3> QED
        BY <1>1, <2>2, <3>1 DEF CallKeeps
    <2>5. CASE StepsDown(s, q)
      BY <1>3, <2>5 DEF StepsDown, Ended
    <2>6. CASE Differs(s, q)
      <3>1. /\ call'[s][q].args = a /\ call'[s][q].status = lastLogIndex[q]
            /\ call'[s][q].st = "answered" /\ call'[s][q] # Nil
            /\ a.term >= currentTerm[q] /\ log[q][a.pre] # a.preTerm
        <4>1. call'[s][q] # Nil
          <5>1. call'[s][q] = [st |-> "answered", args |-> a, term |-> a.term,
                               status |-> lastLogIndex[q]]
            BY <2>6 DEF Differs, Answered
          <5>2. a \in Args /\ a.term \in Term
            BY <1>0, <2>1, CallFields
          <5>5. lastLogIndex[q] \in Index
            BY <1>0 DEF TypeOK
          <5>4. lastLogIndex[q] \in 0..MaxIndex
            BY <5>5 DEF Index
          <5>3. call'[s][q] \in Call
            BY <5>1, <5>2, <5>4 DEF Call
          <5> QED
            BY <5>3, NilAssumption
        <4> QED
          BY <2>6, <4>1 DEF Differs, Answered, Matches
      <3>2. ~(a.pre = i - 1 /\ a.entry = k)
        <4> SUFFICES ASSUME a.pre = i - 1, a.entry = k PROVE FALSE
          OBVIOUS
        <4>1. <<i, k, a.preTerm>> \in written
          <5>1. a.index = a.pre + 1 /\ <<a.index, a.entry, a.preTerm>> \in written
            BY <1>0, <1>5, <2>1 DEF CallOK
          <5>2. a.index = i
            BY <1>1, <5>1
          <5> QED
            BY <5>1, <5>2
        <4>2. <<i, k, log[q][i - 1]>> \in written
          <5>1. i # 1 /\ LogBefore(log[q], i) = log[q][i - 1]
            BY <2>2 DEF LogBefore, Index
          <5> QED
            BY <1>0, <1>5, <5>1 DEF TreeOK, Path
        <4>3. a.preTerm = log[q][i - 1]
          <5> DEFINE l == <<i, k, a.preTerm>>
                     m == <<i, k, log[q][i - 1]>>
          <5>1. l[1] = m[1] /\ l[2] = m[2] /\ l[3] = a.preTerm /\ m[3] = log[q][i - 1]
            OBVIOUS
          <5> HIDE DEF l, m
          <5>2. l \in written /\ m \in written
            BY <4>1, <4>2 DEF l, m
          <5> QED
            BY <1>0, <5>1, <5>2 DEF TreeOK, Tree
        <4> QED
          BY <3>1, <4>3
      <3>3. a.pre > i /\ lastLogIndex[q] >= i
        BY <1>5, <2>3, <3>1, <3>2
      <3>4. lastLogIndex[q] # 0
        BY <1>0 DEF TypeOK, Index
      <3> QED
        BY <3>1, <3>3, <3>4 DEF CallKeeps
    <2>7. CASE Accepts(s, q)
      <3>1. /\ call'[s][q].args = a /\ call'[s][q].status = 0
            /\ call'[s][q].st = "answered" /\ a.term >= currentTerm[q]
        BY <2>7 DEF Accepts, Answered
      <3>2. a.pre >= i - 1
        BY <1>1, <2>2, <2>3, <3>1 DEF Index
      <3> QED
        BY <3>1, <3>2 DEF CallKeeps
    <2> QED
      BY <2>1, <2>4, <2>5, <2>6, <2>7
  <1> QED
    BY <1>2, <1>3, <1>6, <1>7, <1>8, <1>9, <1>10, CallChange

\* A server keeps the log <<i, k>> as long as every leader that could change it has it.
LEMMA KeepsStable ==
    ASSUME SafetyInv, Step, NEW q \in Server, NEW i \in Index, NEW k \in Term,
           Keeps(q, i, k),
           \A s \in Server : role[s] = "leader" /\ currentTerm[s] >= currentTerm[q]
                               => log[s][i] = k
    PROVE  Keeps(q, i, k)'
  <1>1. log[q][i] = k /\ \A s \in Server : CallKeeps(call[s][q], q, i, k)
    BY DEF Keeps
  <1>2. ASSUME NEW s \in Server
        PROVE  CallKeeps(call[s][q], q, i, k)'
    BY <1>1, CallKeepsStable
  <1>3. i \in Nat /\ k # NoLog
    BY DEF Index, Term, NoLog
  <1>4. log'[q][i] = k
    <2>1. CASE log'[q] = log[q]
      BY <1>1, <2>1
    <2>2. ASSUME NEW n, NEW t, Adds(q, n, t)
          PROVE  log'[q][i] = k
      BY <1>1, <1>3, <2>2 DEF Adds
    <2>3. ASSUME NEW x \in Server, AppendEntriesGetReply(x, q), Accepts(x, q)
          PROVE  log'[q][i] = k
      <3> DEFINE a == call[x][q].args
      <3>1. AcceptedCall(x, q, a) /\ AcceptedLogs(q, a)
        BY <2>3, AcceptEffect
      <3>2. CallKeeps(call[x][q], q, i, k)
        BY <1>1
      <3>3. \/ a.pre > i
            \/ a.pre = i
            \/ a.pre = i - 1 /\ a.entry = k
        BY <3>1, <3>2 DEF CallKeeps, AcceptedCall
      <3>4. a.pre \in Nat
        BY <3>1 DEF AcceptedCall, Index
      <3> HIDE DEF a
      <3>5. CASE a.pre >= i
        BY <1>1, <1>3, <3>1, <3>4, <3>5 DEF AcceptedLogs
      <3>6. CASE a.pre = i - 1 /\ a.entry = k
        <4>1. i > a.pre /\ i = a.pre + 1
          BY <1>3, <3>6
        <4> QED
          BY <3>1, <3>6, <4>1 DEF AcceptedLogs
      <3> QED
        BY <1>3, <3>3, <3>4, <3>5, <3>6
    <2> QED
      BY <2>1, <2>2, <2>3, LogCases
  <1> QED
    BY <1>2, <1>4 DEF Keeps

LEMMA LogType ==
    ASSUME TypeOK, NEW s \in Server
    PROVE  /\ log[s] \in [Index -> Term \cup {NoLog}]
           /\ currentTerm[s] \in Term /\ currentTerm[s] \in Nat
  <1>1. log[s] \in [Index -> Term \cup {NoLog}] /\ currentTerm[s] \in Term
    BY DEF TypeOK
  <1> QED
    BY <1>1 DEF Term

\* The last log of a server only moves on, but for the calls it accepts.
LEMMA LastGrows ==
    ASSUME SafetyInv, Step, NEW c \in Server, NEW n \in Index, NEW t \in Term,
           LastAtOrAfter(c, n, t),
           \A x \in Server : ~(AppendEntriesGetReply(x, c) /\ Accepts(x, c))
    PROVE  LastAtOrAfter(c, n, t)'
  <1>0. TypeOK /\ TypeOK' /\ LogsOK
    BY TypesStep
  <1>1. /\ n \in Nat /\ t \in Nat
        /\ lastLogIndex[c] \in Nat /\ lastLogTerm[c] \in Nat
        /\ lastLogIndex'[c] \in Nat /\ lastLogTerm'[c] \in Nat
    <2>1. lastLogIndex[c] \in Index /\ lastLogTerm[c] \in Term
      BY <1>0 DEF TypeOK
    <2>2. lastLogIndex'[c] \in Index /\ lastLogTerm'[c] \in Term
      BY <1>0 DEF TypeOK
    <2> QED
      BY <2>1, <2>2 DEF Index, Term
  <1>2. lastLogTerm'[c] >= lastLogTerm[c] /\ lastLogIndex'[c] >= lastLogIndex[c]
    <2>1. lastLogTerm[c] <= log[c][lastLogIndex[c]]
      BY <1>0, LastLog
    <2>2. CASE /\ lastLogIndex'[c] = lastLogIndex[c]
               /\ \/ lastLogTerm'[c] = lastLogTerm[c]
                  \/ lastLogTerm'[c] = currentTerm[c]
                     /\ log[c][lastLogIndex[c]] = currentTerm[c]
                  \/ lastLogTerm'[c] = log[c][lastLogIndex[c]]
      BY <1>1, <2>1, <2>2
    <2>3. ASSUME NEW m, NEW k, Adds(c, m, k)
          PROVE  lastLogTerm'[c] >= lastLogTerm[c] /\ lastLogIndex'[c] >= lastLogIndex[c]
      <3>1. lastLogTerm'[c] = lastLogTerm[c]
        BY <2>3 DEF Adds
      <3>2. m \in Nat /\ lastLogIndex'[c] = m /\ lastLogIndex[c] = m - 1
        BY <2>3 DEF Adds, Index
      <3> QED
        BY <1>1, <3>1, <3>2
    <2> QED
      BY <2>2, <2>3, LogCases
  <1> QED
    BY <1>1, <1>2 DEF LastAtOrAfter, AtOrAfter

\* A server that has <<n, t>> and does not lose it to the call it accepts has a last log
\* at or after it.
LEMMA LastAccepted ==
    ASSUME SafetyInv, Step, LogsOK', NEW x \in Server, NEW q \in Server,
           NEW n \in Index, NEW t \in Term, LastAtOrAfter(q, n, t), log'[q][n] = t,
           AppendEntriesGetReply(x, q), Accepts(x, q)
    PROVE  LastAtOrAfter(q, n, t)'
  <1>0. TypeOK /\ TypeOK' /\ LogsOK
    BY TypesStep
  <1>1. /\ n \in Nat /\ t \in Nat /\ t # NoLog
        /\ lastLogIndex[q] \in Nat /\ lastLogTerm[q] \in Nat
        /\ lastLogIndex'[q] \in Nat /\ lastLogTerm'[q] \in Nat /\ lastLogIndex'[q] \in Index
    <2>1. lastLogIndex[q] \in Index /\ lastLogTerm[q] \in Term
      BY <1>0 DEF TypeOK
    <2>2. lastLogIndex'[q] \in Index /\ lastLogTerm'[q] \in Term
      BY <1>0 DEF TypeOK
    <2> QED
      BY <2>1, <2>2 DEF Index, Term, NoLog
  <1>2. n <= lastLogIndex'[q]
    BY <1>1 DEF LogsOK
  <1>3. log'[q][lastLogIndex'[q]] # NoLog
    BY <1>1 DEF LogsOK
  <1>4. t <= log'[q][lastLogIndex'[q]]
    BY <1>1, <1>2, <1>3 DEF LogsOK
  <1> DEFINE a == call[x][q].args
  <1>5. AcceptedCall(x, q, a) /\ AcceptedLogs(q, a)
    BY AcceptEffect
  <1>6. a.pre \in Nat /\ a.pre \in Index /\ log[q][a.pre] = a.preTerm
    BY <1>5 DEF AcceptedCall, Index
  <1> HIDE DEF a
  <1>7. CASE a.entry # NoLog
    <2>1. lastLogIndex'[q] = a.pre + 1 /\ lastLogTerm'[q] = a.entry
      BY <1>5, <1>7 DEF AcceptedLogs
    <2>2. lastLogIndex'[q] > a.pre
      BY <1>6, <2>1
    <2>3. log'[q][lastLogIndex'[q]] = a.entry
      BY <1>1, <1>5, <2>1, <2>2 DEF AcceptedLogs
    <2> QED
      BY <1>1, <1>2, <1>4, <2>1, <2>3 DEF LastAtOrAfter, AtOrAfter
  <1>8. CASE a.entry = NoLog /\ lastLogTerm'[q] = a.preTerm
    <2>1. lastLogIndex'[q] = a.pre
      BY <1>5, <1>8 DEF AcceptedLogs
    <2>2. log'[q][a.pre] = a.preTerm
      BY <1>5, <1>6 DEF AcceptedLogs
    <2> QED
      BY <1>1, <1>2, <1>4, <1>8, <2>1, <2>2 DEF LastAtOrAfter, AtOrAfter
  <1>9. CASE a.entry = NoLog /\ lastLogTerm'[q] = lastLogTerm[q] /\ lastLogIndex[q] = a.pre
    <2>1. lastLogIndex'[q] = lastLogIndex[q]
      BY <1>5, <1>9 DEF AcceptedLogs
    <2> QED
      BY <1>9, <2>1 DEF LastAtOrAfter, AtOrAfter
  <1> QED
    BY <1>5, <1>7, <1>8, <1>9 DEF AcceptedLogs

\* What a server holds it goes on holding.
LEMMA HoldsStable ==
    ASSUME SafetyInv, Step, LogsOK', NEW q \in Server, NEW n \in Index, NEW t \in Term,
           GrowsAbove(n, t), IsWritten(n, t), Holds(q, n, t)
    PROVE  Holds(q, n, t)'
  <1>0. TypeOK /\ TypeOK' /\ LogsOK /\ TreeOK /\ LeadersOK
    BY TypesStep DEF SafetyInv
  <1>1. /\ t \in Nat /\ n \in Nat
        /\ currentTerm[q] \in Nat /\ currentTerm'[q] \in Nat
    <2>1. currentTerm'[q] \in Term
      BY <1>0 DEF TypeOK
    <2> QED
      BY <1>0, <2>1, LogType DEF Term, Index
  <1>2. /\ currentTerm[q] >= t /\ Keeps(q, n, t) /\ LastAtOrAfter(q, n, t)
        /\ \A c \in Server :
             role[c] = "candidate" /\ currentTerm[c] > t /\ q \in votes[c]
                => LastAtOrAfter(c, n, t)
    BY DEF Holds
  <1>3. currentTerm'[q] >= t
    BY <1>1, <1>2, RoleChange
  <1>4. Keeps(q, n, t)'
    <2>1. ASSUME NEW s \in Server, role[s] = "leader", currentTerm[s] >= currentTerm[q]
          PROVE  log[s][n] = t
      <3>1. currentTerm[s] >= t
        BY <1>0, <1>1, <1>2, <2>1 DEF TypeOK, Term
      <3> QED
        BY <1>0, <2>1, <3>1, LeaderHas
    <2> QED
      BY <1>2, <2>1, KeepsStable
  <1>5. LastAtOrAfter(q, n, t)'
    <2>1. log'[q][n] = t
      BY <1>4 DEF Keeps
    <2> QED
      BY <1>2, <2>1, LastGrows, LastAccepted
  <1>6. ASSUME NEW c \in Server,
               role'[c] = "candidate", currentTerm'[c] > t, q \in votes'[c]
        PROVE  LastAtOrAfter(c, n, t)'
    <2>1. CASE StartVote(c)
      <3>1. votes'[c] = {c}
        BY <1>0, <2>1, StartVoteEffect
      <3> QED
        BY <1>5, <1>6, <3>1
    <2>2. CASE ~StartVote(c)
      <3>1. role[c] = "candidate" /\ currentTerm'[c] = currentTerm[c]
        BY <1>6, <2>2, RoleChange
      <3>2. \A x \in Server : ~(AppendEntriesGetReply(x, c) /\ Accepts(x, c))
        BY <1>6, AcceptEffect DEF AcceptedRest
      <3>3. ~EvaluateVoteResult(c) /\ ~Restart(c)
        BY <1>0, <1>6, EvaluateEffect, RestartEffect
      <3>4. LastAtOrAfter(c, n, t)
        <4>1. CASE q \in votes[c]
          BY <1>2, <1>6, <3>1, <4>1
        <4>2. CASE q \notin votes[c]
          <5>1. PICK p \in Server : p # c /\ GrantVote(c, p)
            BY <1>6, <2>2, <3>3, <4>2, VoteChange
          <5>2. votes'[c] = votes[c] \cup {p} /\ ~LogAhead(p, c)
            BY <1>0, <5>1, GrantVoteEffect
          <5>3. p = q
            BY <1>6, <4>2, <5>2
          <5>4. /\ lastLogIndex[c] \in Nat /\ lastLogTerm[c] \in Nat
                /\ lastLogIndex[q] \in Nat /\ lastLogTerm[q] \in Nat
            <6>1. /\ lastLogIndex[c] \in Index /\ lastLogTerm[c] \in Term
                  /\ lastLogIndex[q] \in Index /\ lastLogTerm[q] \in Term
              BY <1>0 DEF TypeOK
            <6> QED
              BY <6>1 DEF Index, Term
          <5> QED
            BY <1>1, <1>2, <5>2, <5>3, <5>4 DEF LogAhead, LastAtOrAfter, AtOrAfter
        <4> QED
          BY <4>1, <4>2
      <3> QED
        BY <3>2, <3>4, LastGrows
    <2> QED
      BY <2>1, <2>2
  <1> QED
    BY <1>3, <1>4, <1>5, <1>6 DEF Holds

LEMMA CommittedGrows ==
    ASSUME SafetyInv, Step
    PROVE  committed \subseteq committed'
  BY CommittedChange, CommitEffect

\* A server that has the log another had before has what that one had before it.
LEMMA PathStep ==
    ASSUME SafetyInv, Step, TreeOK', NEW s \in Server, NEW q \in Server,
           NEW n \in Index, log'[s][n] = log[q][n], log[q][n] # NoLog,
           NEW i \in Index, i <= n
    PROVE  log'[s][i] = log[q][i] /\ log[q][i] # NoLog
  <1>0. TypeOK /\ TypeOK' /\ TreeOK
    BY TypesStep DEF SafetyInv
  <1>1. log[q] \in [Index -> Term \cup {NoLog}]
    BY <1>0 DEF TypeOK
  <1>2. log'[s] \in [Index -> Term \cup {NoLog}]
    BY <1>0 DEF TypeOK
  <1>3. Tree(written') /\ Path(log'[s], written')
    BY DEF TreeOK, Tree, Path
  <1>4. Path(log[q], written')
    <2>1. written \subseteq written'
      BY WrittenCases
    <2> QED
      BY <1>0, <2>1 DEF TreeOK, Path
  <1> QED
    BY <1>1, <1>2, <1>3, <1>4, PathsAgree

LEMMA SettledHeld ==
    ASSUME NEW n, NEW t, Settled(n, t)
    PROVE  /\ GrowsAbove(n, t) /\ IsWritten(n, t)
           /\ \E q \in Server : Holds(q, n, t) /\ log[q][n] = t
  <1>1. PICK Q \in SUBSET Server : IsMajority(Q) /\ \A q \in Q : Holds(q, n, t)
    BY DEF Settled
  <1>2. PICK q \in Server : q \in Q
    BY <1>1, MajorityHasMember
  <1> QED
    BY <1>1, <1>2 DEF Settled, Holds, Keeps

\* What is settled stays settled.
LEMMA SettledStable ==
    ASSUME SafetyInv, Step, LogsOK', TreeOK', NEW n \in Index, NEW t \in Term, Settled(n, t)
    PROVE  Settled(n, t)'
  <1>1. PICK Q \in SUBSET Server : IsMajority(Q) /\ \A q \in Q : Holds(q, n, t)
    BY DEF Settled
  <1>2. GrowsAbove(n, t) /\ IsWritten(n, t)
    BY DEF Settled
  <1>3. GrowsAbove(n, t)' /\ IsWritten(n, t)'
    <2>1. ASSUME NEW s \in Server, EvaluateVoteResult(s), currentTerm[s] > t
          PROVE  LastAtOrAfter(s, n, t)
      <3>1. IsMajority(votes[s]) /\ role[s] = "candidate"
        BY <2>1, NewLeadersTerm
      <3>2. PICK q \in Server : q \in Q /\ q \in votes[s]
        BY <1>1, <3>1, MajoritiesMeet
      <3> QED
        BY <1>1, <2>1, <3>1, <3>2 DEF Holds
    <2> QED
      BY <1>2, <2>1, GrowsStable
  <1>4. \A q \in Q : Holds(q, n, t)'
    BY <1>1, <1>2, HoldsStable
  <1>5. IsMajority(Q)'
    BY <1>1 DEF IsMajority
  <1>6. ASSUME NEW s \in Server, log'[s][n] = t, NEW i \in 1..n
        PROVE  IsCommitted(i, log[s][i])'
    <2>1. PICK q \in Server : log[q][n] = t
      BY SettledHeld
    <2>2. i \in Index /\ i <= n /\ t # NoLog
      <3>1. i \in Index /\ i <= n
        BY BoundAssumption DEF Index
      <3>2. t # NoLog
        BY DEF Term, NoLog
      <3> QED
        BY <3>1, <3>2
    <2>7. log'[s][n] = log[q][n] /\ log[q][n] # NoLog
      BY <1>6, <2>1, <2>2
    <2>3. log'[s][i] = log[q][i]
      BY <2>2, <2>7, PathStep
    <2>4. IsCommitted(i, log[q][i])
      BY <2>1 DEF Settled
    <2>5. PICK u \in Term : <<i, log[q][i], u>> \in committed
      BY <2>4 DEF IsCommitted
    <2>6. <<i, log'[s][i], u>> \in committed'
      BY <2>3, <2>5, CommittedGrows
    <2> QED
      BY <2>6 DEF IsCommitted
  <1> QED
    BY <1>3, <1>4, <1>5, <1>6 DEF Settled

LEMMA BelowStable ==
    ASSUME SafetyInv, Step, TreeOK', NEW n \in Index, NEW t \in Term, Settled(n, t),
           NEW i \in Index, i <= n, NEW k, Below(i, k, n, t)
    PROVE  Below(i, k, n, t)'
  <1>1. PICK q \in Server : log[q][n] = t
    BY SettledHeld
  <1>2. log[q][i] = k
    BY <1>1 DEF Below
  <1>3. t # NoLog
    BY DEF Term, NoLog
  <1>4. ASSUME NEW s \in Server, log'[s][n] = t
        PROVE  log'[s][i] = k
    BY <1>1, <1>2, <1>3, <1>4, PathStep
  <1> QED
    BY <1>4 DEF Below

LEMMA ChosenStable ==
    ASSUME SafetyInv, Step, LogsOK', TreeOK', NEW i \in Index, NEW k, NEW t \in Term,
           Chosen(i, k, t)
    PROVE  Chosen(i, k, t)'
  <1>1. PICK n \in Index : i <= n /\ Settled(n, t) /\ Below(i, k, n, t)
    BY DEF Chosen
  <1>2. Settled(n, t)' /\ Below(i, k, n, t)'
    BY <1>1, SettledStable, BelowStable
  <1> QED
    BY <1>1, <1>2 DEF Chosen

\* Of two settled logs the later one is above the earlier one.
LEMMA SettledAbove ==
    ASSUME TypeOK, TreeOK, NEW n \in Index, NEW t \in Term, Settled(n, t),
           NEW m \in Index, NEW u \in Term, AtOrAfter(m, u, n, t),
           NEW q \in Server, log[q][m] = u
    PROVE  m >= n /\ log[q][n] = t
  <1>1. GrowsAbove(n, t)
    BY SettledHeld
  <1>2. Path(log[q], written) /\ log[q] \in [Index -> Term \cup {NoLog}]
    BY DEF TypeOK, TreeOK
  <1>3. u # NoLog
    BY DEF Term, NoLog
  <1> QED
    BY <1>1, <1>2, <1>3, InRegion

LEMMA ChosenAgree ==
    ASSUME TypeOK, TreeOK, NEW i \in Index, NEW k, NEW t \in Term, NEW l, NEW u \in Term,
           Chosen(i, k, t), Chosen(i, l, u)
    PROVE  k = l
  <1>1. PICK n \in Index : i <= n /\ Settled(n, t) /\ Below(i, k, n, t)
    BY DEF Chosen
  <1>2. PICK m \in Index : i <= m /\ Settled(m, u) /\ Below(i, l, m, u)
    BY DEF Chosen
  <1>3. n \in Nat /\ m \in Nat /\ t \in Nat /\ u \in Nat
    BY DEF Index, Term
  <1>4. CASE AtOrAfter(m, u, n, t)
    <2>1. PICK q \in Server : log[q][m] = u
      BY <1>2, SettledHeld
    <2>2. log[q][n] = t
      BY <1>1, <1>4, <2>1, SettledAbove
    <2> QED
      BY <1>1, <1>2, <2>1, <2>2 DEF Below
  <1>5. CASE AtOrAfter(n, t, m, u)
    <2>1. PICK q \in Server : log[q][n] = t
      BY <1>1, SettledHeld
    <2>2. log[q][m] = u
      BY <1>2, <1>5, <2>1, SettledAbove
    <2> QED
      BY <1>1, <1>2, <2>1, <2>2 DEF Below
  <1> QED
    BY <1>3, <1>4, <1>5 DEF AtOrAfter

LEMMA ChosenIsLog ==
    ASSUME TypeOK, LogsOK, NEW i \in Index, NEW k, NEW t \in Term, Chosen(i, k, t)
    PROVE  k \in Term
  <1>1. PICK n \in Index : i <= n /\ Settled(n, t) /\ Below(i, k, n, t)
    BY DEF Chosen
  <1>2. PICK q \in Server : log[q][n] = t
    BY <1>1, SettledHeld
  <1>3. log[q][i] = k
    BY <1>1, <1>2 DEF Below
  <1>4. n <= lastLogIndex[q]
    BY <1>2, LastLog DEF Term, NoLog
  <1>5. i <= lastLogIndex[q]
    BY <1>1, <1>4, LastLog DEF Index
  <1>6. log[q][i] # NoLog
    BY <1>5, LastLog
  <1> QED
    BY <1>3, <1>6, LastLog

\* A leader has everything that was chosen in terms up to its own.
LEMMA ChosenLeader ==
    ASSUME TypeOK, LogsOK, TreeOK, LeadersOK, NEW s \in Server, role[s] = "leader",
           NEW i \in Index, NEW k, NEW t \in Term, Chosen(i, k, t), currentTerm[s] >= t
    PROVE  log[s][i] = k /\ lastLogIndex[s] >= i
  <1>1. PICK n \in Index : i <= n /\ Settled(n, t) /\ Below(i, k, n, t)
    BY DEF Chosen
  <1>2. GrowsAbove(n, t) /\ IsWritten(n, t)
    BY <1>1, SettledHeld
  <1>3. log[s][n] = t /\ lastLogIndex[s] >= n
    BY <1>2, LeaderHas
  <1>4. lastLogIndex[s] >= i
    BY <1>1, <1>3, LastLog DEF Index
  <1> QED
    BY <1>1, <1>3, <1>4 DEF Below

\* What is below a log that is below <<n, t>> is below it, too.
LEMMA BelowPath ==
    ASSUME TypeOK, TreeOK, NEW s \in Server, NEW j \in Index, log[s][j] # NoLog,
           NEW n, NEW t, Below(j, log[s][j], n, t), NEW i \in Index, i <= j
    PROVE  Below(i, log[s][i], n, t)
  <1>1. Tree(written) /\ Path(log[s], written) /\ log[s] \in [Index -> Term \cup {NoLog}]
    BY DEF TypeOK, TreeOK
  <1>2. ASSUME NEW p \in Server, log[p][n] = t
        PROVE  log[p][i] = log[s][i]
    <2>1. log[p][j] = log[s][j]
      BY <1>2 DEF Below
    <2>2. Path(log[p], written) /\ log[p] \in [Index -> Term \cup {NoLog}]
      BY DEF TypeOK, TreeOK
    <2> QED
      BY <1>1, <2>1, <2>2, PathsAgree
  <1> QED
    BY <1>2 DEF Below

\* A server that keeps a log keeps the logs before it.
LEMMA KeepsBelow ==
    ASSUME SafetyInv, NEW q \in Server, NEW n \in Index, NEW t \in Term, Keeps(q, n, t),
           NEW i \in Index, i <= n
    PROVE  Keeps(q, i, log[q][i])
  <1>0. TypeOK /\ TreeOK /\ CallsOK
    BY DEF SafetyInv
  <1>1. i \in Nat /\ n \in Nat /\ t # NoLog
    BY DEF Index, Term, NoLog
  <1>2. log[q][n] = t
    BY DEF Keeps
  <1>3. ASSUME NEW s \in Server, call[s][q] # Nil,
               call[s][q].args.term >= currentTerm[q]
        PROVE  CallKeeps(call[s][q], q, i, log[q][i])
    <2> DEFINE c == call[s][q]
               a == call[s][q].args
    <2>1. CallKeeps(c, q, n, t)
      BY DEF Keeps
    <2>2. a.pre \in Nat /\ (c.st = "answered" => c.status \in Nat)
      BY <1>0, <1>3, CallFields DEF Index
    <2>3. c.st = "sent" => \/ a.pre > n
                           \/ a.pre = n /\ a.preTerm = t
                           \/ a.pre = n - 1 /\ a.entry = t
      BY <1>3, <2>1 DEF CallKeeps
    <2>4. c.st = "answered" /\ c.status = 0 => a.pre >= n - 1
      BY <1>3, <2>1 DEF CallKeeps
    <2>5. c.st = "answered" /\ c.status # 0 => a.pre > n /\ c.status >= n
      BY <1>3, <2>1 DEF CallKeeps
    <2>6. a.pre = n - 1 /\ a.entry = t /\ i = n - 1 => a.preTerm = log[q][i]
      <3> SUFFICES ASSUME a.pre = n - 1, a.entry = t, i = n - 1
                   PROVE  a.preTerm = log[q][i]
        OBVIOUS
      <3>1. a.index = a.pre + 1 /\ <<a.index, a.entry, a.preTerm>> \in written
        BY <1>0, <1>1, <1>3 DEF CallsOK, CallOK
      <3>2. a.index = n
        BY <1>1, <3>1
      <3>3. n # 1 /\ LogBefore(log[q], n) = log[q][i]
        BY <1>1 DEF LogBefore, Index
      <3>4. <<n, t, log[q][i]>> \in written
        BY <1>0, <1>1, <1>2, <3>3 DEF TreeOK, Path
      <3> DEFINE l == <<n, t, a.preTerm>>
                 m == <<n, t, log[q][i]>>
      <3>5. l[1] = m[1] /\ l[2] = m[2] /\ l[3] = a.preTerm /\ m[3] = log[q][i]
        OBVIOUS
      <3>6. l \in written /\ m \in written
        BY <3>1, <3>2, <3>4
      <3> HIDE DEF l, m
      <3> QED
        BY <1>0, <3>5, <3>6 DEF TreeOK, Tree
    <2>7. c.st = "sent" => \/ a.pre > i
                           \/ a.pre = i /\ a.preTerm = log[q][i]
                           \/ a.pre = i - 1 /\ a.entry = log[q][i]
      BY <1>1, <1>2, <2>2, <2>3, <2>6
    <2>8. c.st = "answered" /\ c.status = 0 => a.pre >= i - 1
      BY <1>1, <2>2, <2>4
    <2>9. c.st = "answered" /\ c.status # 0 => a.pre > i /\ c.status >= i
      BY <1>1, <2>2, <2>5
    <2> QED
      BY <2>7, <2>8, <2>9 DEF CallKeeps
  <1>4. \A s \in Server : CallKeeps(call[s][q], q, i, log[q][i])
    BY <1>3 DEF CallKeeps
  <1> QED
    BY <1>4 DEF Keeps

\* A call of a later term that its peer has not met yet starts above <<n, t>>.
LEMMA FirstCallAbove ==
    ASSUME SafetyInv, NEW n \in Index, NEW t \in Term, GrowsAbove(n, t),
           NEW y \in Server, NEW s \in Server, call[y][s] # Nil,
           FirstCall(call[y][s].args), call[y][s].args.term > t
    PROVE  \/ call[y][s].args.pre > n
           \/ call[y][s].args.pre = n /\ call[y][s].args.preTerm = t
  <1> DEFINE b == call[y][s].args
  <1>0. TypeOK /\ CallsOK
    BY DEF SafetyInv
  <1>1. /\ n \in Nat /\ t \in Nat /\ b.pre \in Nat /\ b.preTerm \in Nat /\ b.term \in Nat
        /\ b.entry \in Nat
    <2>1. n \in Nat /\ t \in Nat
      BY DEF Index, Term
    <2>2. /\ b.pre \in Index /\ b.preTerm \in Term /\ b.term \in Term
          /\ b.entry \in Term \cup {NoLog}
      BY <1>0, CallFields
    <2> QED
      BY <2>1, <2>2 DEF Index, Term, NoLog
  <1>2. PICK l \in written : l[1] = b.pre /\ l[2] = b.preTerm
    BY <1>0 DEF CallsOK, CallOK, IsWritten
  <1>3. AtOrAfter(b.pre, b.preTerm, n, t) =>
            b.pre >= n /\ (b.pre = n => b.preTerm = t)
    BY <1>2 DEF GrowsAbove
  <1>4. CASE b.preTerm = b.term
    <2>1. AtOrAfter(b.pre, b.preTerm, n, t)
      BY <1>1, <1>4 DEF AtOrAfter
    <2> QED
      BY <1>1, <1>3, <2>1
  <1>5. CASE b.entry = b.term
    <2>1. b.entry # NoLog
      BY <1>1, <1>5 DEF NoLog
    <2>2. b.index = b.pre + 1 /\ <<b.index, b.entry, b.preTerm>> \in written
      BY <1>0, <2>1 DEF CallsOK, CallOK
    <2> DEFINE m == <<b.index, b.entry, b.preTerm>>
    <2>3. m[1] = b.pre + 1 /\ m[2] = b.entry /\ m[3] = b.preTerm /\ m \in written
      BY <2>2
    <2> HIDE DEF m
    <2>4. AtOrAfter(m[1], m[2], n, t)
      BY <1>1, <1>5, <2>3 DEF AtOrAfter
    <2>5. /\ m[1] >= n /\ (m[1] = n => m[2] = t)
          /\ m[1] > n => AtOrAfter(m[1] - 1, m[3], n, t)
      BY <2>3, <2>4 DEF GrowsAbove
    <2>6. m[1] # n
      BY <1>1, <1>5, <2>3, <2>5
    <2>7. m[1] - 1 = b.pre /\ m[1] > n
      BY <1>1, <2>3, <2>5, <2>6
    <2>8. AtOrAfter(b.pre, b.preTerm, n, t)
      BY <2>3, <2>5, <2>7
    <2> QED
      BY <1>1, <1>3, <2>8
  <1> QED
    BY <1>4, <1>5 DEF FirstCall

\* Who accepts a call of term t or later keeps what is then in its log, up to n and as far
\* as the call confirms it.
LEMMA AcceptKeeps ==
    ASSUME SafetyInv, NEW x \in Server, NEW s \in Server, AppendEntriesGetReply(x, s),
           Accepts(x, s), NEW n \in Index, NEW t \in Term, GrowsAbove(n, t),
           t <= call[x][s].args.term, NEW i \in Index, i <= n,
           i <= call[x][s].args.pre + 1, NEW k, i = n => k = t, log'[s][i] = k
    PROVE  Keeps(s, i, k)'
  <1> DEFINE a == call[x][s].args
  <1>0. TypeOK /\ CallsOK /\ OwnersOK
    BY DEF SafetyInv
  <1>1. AcceptedCall(x, s, a) /\ AcceptedRest(x, s, a)
    BY AcceptEffect
  <1>2. /\ a.pre \in Nat /\ a.term \in Nat /\ t \in Nat /\ i \in Nat /\ n \in Nat
        /\ a.term \in Term /\ a.term >= currentTerm[s] /\ currentTerm'[s] = a.term
        /\ call[x][s] # Nil /\ currentTerm[s] \in Nat
    <2>1. a.pre \in Nat /\ a.term \in Nat
      BY <1>1 DEF AcceptedCall, Index, Term
    <2>2. t \in Nat /\ i \in Nat /\ n \in Nat
      BY DEF Index, Term
    <2> QED
      BY <1>0, <1>1, <2>1, <2>2, LogType DEF AcceptedCall
  <1>3. ASSUME NEW y \in Server
        PROVE  CallKeeps(call[y][s], s, i, k)'
    <2>1. CASE y = x
      <3>1. call'[y][s].args = a /\ call'[y][s].st = "answered" /\ call'[y][s].status = 0
        BY <1>1, <2>1 DEF AcceptedRest, Answered
      <3>2. a.pre >= i - 1
        BY <1>2
      <3> QED
        BY <3>1, <3>2 DEF CallKeeps
    <2>2. CASE y # x
      <3> DEFINE b == call[y][s].args
      <3>1. call'[y][s] = call[y][s]
        BY <1>1, <2>2 DEF AcceptedRest, Answered
      <3> SUFFICES ASSUME call[y][s] # Nil, b.term >= a.term
                   PROVE  /\ call[y][s].st = "sent"
                          /\ \/ b.pre > i
                             \/ b.pre = i /\ b.preTerm = k
        BY <1>2, <3>1 DEF CallKeeps
      <3>2. /\ b.term \in Nat /\ b.pre \in Nat /\ b.term \in Term
            /\ call[y][s].st \in {"sent", "answered"}
            /\ call[y][s].st = "answered" => call[y][s].term \in Nat
        BY <1>0, CallFields DEF Term, Index
      <3>3. b.term # a.term
        <4> SUFFICES ASSUME b.term = a.term PROVE FALSE
          OBVIOUS
        <4>1. Owns(y, a.term) /\ Owns(x, a.term)
          BY <1>2 DEF Owns
        <4> QED
          BY <1>0, <1>2, <2>2, <4>1 DEF OwnersOK
      <3>4. b.term > a.term /\ b.term > currentTerm[s] /\ b.term > t
        BY <1>2, <3>2, <3>3
      <3>5. call[y][s].st = "sent"
        <4>1. call[y][s].st # "answered"
          <5>1. call[y][s].st = "answered" =>
                  b.term <= call[y][s].term /\ call[y][s].term <= currentTerm[s]
            BY <1>0 DEF CallsOK, CallOK
          <5> QED
            BY <1>2, <3>2, <3>4, <5>1
        <4> QED
          BY <3>2, <4>1
      <3>6. FirstCall(b)
        BY <1>0, <3>4, <3>5 DEF CallsOK, CallOK
      <3>7. b.pre > n \/ (b.pre = n /\ b.preTerm = t)
        BY <3>4, <3>6, FirstCallAbove
      <3> QED
        BY <1>2, <3>2, <3>5, <3>7
    <2> QED
      BY <2>1, <2>2
  <1> QED
    BY <1>3 DEF Keeps

\* The leader and the peers that count are a majority.
LEMMA ConsensusMajority ==
    ASSUME SafetyInv, NEW s \in Server, Consensus(s)
    PROVE  IsMajority(replicated[s] \cup {s})
  <1>1. replicated[s] \subseteq Server /\ s \notin replicated[s]
    BY DEF SafetyInv, TypeOK, ReplicatedOK
  <1>2. IsFiniteSet(replicated[s])
    BY <1>1, ServerAssumption, FS_Subset
  <1>3. Cardinality(replicated[s] \cup {s}) = Cardinality(replicated[s]) + 1
    BY <1>1, <1>2, FS_AddElement
  <1> QED
    BY <1>1, <1>3 DEF Consensus, IsMajority

\* A leader that finds consensus settles its write.
LEMMA CommitSettles ==
    ASSUME SafetyInv, Step, LogsOK', TreeOK', NEW s \in Server, CommitWrite(s)
    PROVE  /\ Settled(lastLogIndex[s], currentTerm[s])'
           /\ Keeps(s, lastLogIndex[s], currentTerm[s])'
           /\ Keeps(s, lastLogIndex[s], currentTerm[s])
  <1>0. TypeOK /\ TypeOK' /\ LogsOK /\ TreeOK /\ LeadersOK /\ WaitingOK /\ VotesOK
    BY TypesStep DEF SafetyInv
  <1>1. PICK n \in Index, t \in Term : n = lastLogIndex[s] /\ t = currentTerm[s]
    BY <1>0 DEF TypeOK
  <1>2. /\ Waiting(s) /\ write[s].index = n /\ write[s].term = t /\ log[s][n] = t
        /\ Consensus(s) /\ lastLogTerm'[s] = t
        /\ \A i \in 1..n : IsCommitted(i, log[s][i])'
        /\ log' = log /\ lastLogIndex' = lastLogIndex /\ currentTerm' = currentTerm
        /\ written' = written /\ call' = call /\ role' = role /\ votes' = votes
    BY <1>1, CommitEffect DEF votedVars
  <1>3. n \in Nat /\ t \in Nat /\ t # NoLog
    BY DEF Index, Term, NoLog
  <1>4. \/ /\ GrowsAbove(n, t)
           /\ Keeps(s, n, t)
           /\ \A q \in Acks(s) : Holds(q, n, t)
        \/ \E V \in SUBSET Server :
              /\ IsMajority(V)
              /\ \A v \in V : currentTerm[v] > t /\ v \notin Acks(s)
    BY <1>0, <1>2 DEF WaitingOK
  <1>17. PICK R \in SUBSET Server : R = replicated[s] \cup {s}
    BY <1>0 DEF TypeOK
  <1>5. IsMajority(R) /\ replicated[s] \subseteq Acks(s)
    BY <1>2, <1>17, ConsensusMajority DEF Acks
  <1>6. /\ GrowsAbove(n, t) /\ Keeps(s, n, t)
        /\ \A q \in replicated[s] : Holds(q, n, t)
    <2> SUFFICES ASSUME NEW V \in SUBSET Server, IsMajority(V),
                        \A v \in V : currentTerm[v] > t /\ v \notin Acks(s)
                 PROVE  FALSE
      BY <1>4, <1>5
    <2>1. PICK v \in Server : v \in R /\ v \in V
      BY <1>5, MajoritiesMeet
    <2>2. v # s
      BY <1>1, <1>3, <2>1
    <2> QED
      BY <1>5, <1>17, <2>1, <2>2
  <1>7. IsWritten(n, t)
    <2>1. <<n, t, LogBefore(log[s], n)>> \in written
      BY <1>0, <1>2, <1>3 DEF TreeOK, Path
    <2> DEFINE l == <<n, t, LogBefore(log[s], n)>>
    <2>2. l[1] = n /\ l[2] = t
      OBVIOUS
    <2> QED
      BY <2>1, <2>2 DEF IsWritten
  <1>8. GrowsAbove(n, t)' /\ IsWritten(n, t)'
    BY <1>2, <1>6, <1>7 DEF GrowsAbove, IsWritten
  <1>9. Keeps(s, n, t)'
    BY <1>2, <1>6 DEF Keeps, CallKeeps
  <1>10. Holds(s, n, t)'
    <2>1. currentTerm'[s] >= t
      BY <1>1, <1>2, <1>3
    <2>2. LastAtOrAfter(s, n, t)'
      BY <1>1, <1>2, <1>3 DEF LastAtOrAfter, AtOrAfter
    <2>3. ASSUME NEW c \in Server, role[c] = "candidate", currentTerm[c] > t, s \in votes[c]
          PROVE  FALSE
      <3>1. currentTerm[s] > currentTerm[c] \/ currentTerm[s] = currentTerm[c]
        BY <1>0, <2>3 DEF VotesOK
      <3>2. currentTerm[c] \in Nat
        BY <1>0, LogType
      <3> QED
        BY <1>1, <1>3, <2>3, <3>1, <3>2
    <2>4. \A c \in Server :
             role'[c] = "candidate" /\ currentTerm'[c] > t /\ s \in votes'[c]
                => LastAtOrAfter(c, n, t)'
      BY <1>2, <2>3
    <2> QED
      BY <1>9, <2>1, <2>2, <2>4 DEF Holds
  <1>11. \A q \in R : Holds(q, n, t)'
    <2>1. replicated[s] \subseteq Server
      BY <1>0 DEF TypeOK
    <2>2. \A q \in replicated[s] : Holds(q, n, t)'
      BY <1>6, <1>7, <2>1, HoldsStable
    <2> QED
      BY <1>10, <1>17, <2>2
  <1>12. IsMajority(R)'
    BY <1>5 DEF IsMajority
  <1>13. ASSUME NEW p \in Server, log'[p][n] = t, NEW i \in 1..n
         PROVE  IsCommitted(i, log[p][i])'
    <2>1. i \in Index /\ i <= n
      BY BoundAssumption DEF Index
    <2>2. log'[p][i] = log[s][i]
      BY <1>2, <1>3, <1>13, <2>1, PathStep
    <2>3. log'[p][i] = log'[s][i]
      BY <1>2, <2>2
    <2>4. IsCommitted(i, log[s][i])'
      BY <1>2
    <2> QED
      BY <2>3, <2>4 DEF IsCommitted
  <1>14. Settled(n, t)'
    <2>1. \E Q \in SUBSET Server : IsMajority(Q)' /\ \A q \in Q : Holds(q, n, t)'
      BY <1>11, <1>12
    <2> QED
      BY <1>8, <1>13, <2>1 DEF Settled
  <1>15. lastLogIndex'[s] = n /\ currentTerm'[s] = t
    BY <1>1, <1>2
  <1>16. Settled(lastLogIndex[s], currentTerm[s])' /\ Keeps(s, lastLogIndex[s], currentTerm[s])'
    BY <1>9, <1>14, <1>15
  <1> QED
    BY <1>1, <1>6, <1>16

LEMMA SettledChosen ==
    ASSUME NEW n \in Index, NEW t, Settled(n, t)
    PROVE  Chosen(n, t, t)
  <1>1. Below(n, t, n, t)
    BY DEF Below
  <1>2. n <= n
    BY DEF Index
  <1> QED
    BY <1>1, <1>2 DEF Chosen

\* A chosen log that a server keeps it goes on keeping.
LEMMA ChosenKeeps ==
    ASSUME SafetyInv, Step, NEW q \in Server, NEW i \in Index, NEW k, NEW t \in Term,
           Chosen(i, k, t), t <= currentTerm[q], Keeps(q, i, k)
    PROVE  Keeps(q, i, k)'
  <1>0. TypeOK /\ LogsOK /\ TreeOK /\ LeadersOK
    BY DEF SafetyInv
  <1>1. k \in Term /\ t \in Nat
    BY <1>0, ChosenIsLog DEF Term
  <1>2. ASSUME NEW s \in Server, role[s] = "leader", currentTerm[s] >= currentTerm[q]
        PROVE  log[s][i] = k
    <2>1. currentTerm[s] \in Nat /\ currentTerm[q] \in Nat
      BY <1>0, LogType
    <2>2. currentTerm[s] >= t
      BY <1>1, <1>2, <2>1
    <2> QED
      BY <1>0, <1>2, <2>2, ChosenLeader
  <1> QED
    BY <1>1, <1>2, KeepsStable

LEMMA PreCommitEffect ==
    ASSUME TypeOK, NEW s \in Server, PreCommit(s)
    PROVE  /\ write[s] = Nil /\ role[s] = "leader"
           /\ write'[s] # Nil /\ write'[s].st = "chosen"
           /\ write'[s].index = lastLogIndex[s] + 1 /\ write'[s].term = currentTerm[s]
           /\ \A x \in Server \ {s} : write'[x] = write[x]
           /\ UNCHANGED <<role, currentTerm, votedVars, logVars, commitIndex, indexToApply,
                          lastApplied, replicated, call, orphans, bounds, history>>
  <1>1. lastLogIndex[s] < MaxIndex /\ write[s] = Nil /\ role[s] = "leader"
    BY DEF PreCommit
  <1>2. write'[s] = NextWrite(s, FALSE) /\ \A x \in Server \ {s} : write'[x] = write[x]
    BY DEF PreCommit, TypeOK
  <1>3. write'[s] # Nil
    BY <1>1, <1>2, NextWriteType, NilAssumption
  <1>4. /\ write'[s].st = "chosen"
        /\ write'[s].index = lastLogIndex[s] + 1 /\ write'[s].term = currentTerm[s]
    BY <1>2 DEF NextWrite
  <1> QED
    BY <1>1, <1>2, <1>3, <1>4 DEF PreCommit

\* Who adds a log acts for the leader of its term.
LEMMA AdderOwns ==
    ASSUME SafetyInv, Step, NEW l \in written'
    PROVE  \/ l \in written
           \/ \E x \in Server : /\ Adds(x, l[1], l[2]) /\ Owns(x, l[2])'
                                /\ EvaluateVoteResult(x) \/ AddRaftEntry(x)
  <1>1. ASSUME NEW x \in Server, NEW n, NEW t, Adds(x, n, t), l \notin written,
               EvaluateVoteResult(x) \/ AddRaftEntry(x)
        PROVE  /\ Adds(x, l[1], l[2]) /\ Owns(x, l[2])'
               /\ EvaluateVoteResult(x) \/ AddRaftEntry(x)
    <2>1. l = <<n, t, log[x][n - 1]>>
      BY <1>1 DEF Adds
    <2>2. l[1] = n /\ l[2] = t
      BY <2>1
    <2>3. Owns(x, t)'
      BY <1>1 DEF Adds, Owns
    <2> QED
      BY <1>1, <2>2, <2>3
  <1> QED
    BY <1>1, WrittenCases

LEMMA CommitChooses ==
    ASSUME SafetyInv, Step, NEW s \in Server, CommitWrite(s),
           NEW i \in Index, i <= lastLogIndex[s]
    PROVE  Chosen(i, log[s][i], currentTerm[s])'
  <1>0. TypeOK /\ LogsOK /\ TreeOK
    BY DEF SafetyInv
  <1>1. PICK n \in Index, t \in Term : n = lastLogIndex[s] /\ t = currentTerm[s]
    BY <1>0 DEF TypeOK
  <1>2. /\ log[s][n] = t /\ log' = log /\ lastLogIndex' = lastLogIndex
        /\ currentTerm' = currentTerm
    BY <1>1, CommitEffect
  <1>3. Settled(lastLogIndex[s], currentTerm[s])'
    BY LogsStep, TreeStep, CommitSettles
  <1>4. Settled(n, t)'
    BY <1>1, <1>2, <1>3
  <1>5. Below(i, log[s][i], n, t)
    <2>1. Below(n, log[s][n], n, t)
      BY <1>2 DEF Below
    <2>2. log[s][n] # NoLog
      BY <1>2 DEF Term, NoLog
    <2> QED
      BY <1>0, <1>1, <2>1, <2>2, BelowPath
  <1>6. PICK k : k = log[s][i]
    OBVIOUS
  <1>7. Below(i, k, n, t)'
    BY <1>2, <1>5, <1>6 DEF Below
  <1>8. Chosen(i, k, t)'
    BY <1>1, <1>4, <1>7 DEF Chosen
  <1>9. log'[s][i] = k /\ currentTerm'[s] = t
    BY <1>1, <1>2, <1>6
  <1> QED
    BY <1>8, <1>9

LEMMA CommittedStep ==
    ASSUME SafetyInv, Step
    PROVE  CommittedOK'
  <1>0. TypeOK /\ TypeOK' /\ CommittedOK /\ LogsOK /\ LogsOK' /\ TreeOK'
    BY TypesStep, LogsStep, TreeStep DEF SafetyInv
  <1> SUFFICES ASSUME NEW c \in committed'
               PROVE  Chosen(c[1], c[2], c[3])'
    BY DEF CommittedOK
  <1>1. CASE c \in committed
    <2>1. c[1] \in Index /\ c[3] \in Term
      BY <1>0, <1>1 DEF TypeOK
    <2> QED
      BY <1>0, <1>1, <2>1, ChosenStable DEF CommittedOK
  <1>2. CASE c \notin committed
    <2>1. PICK s \in Server : CommitWrite(s)
      BY <1>2, CommittedChange
    <2>2. /\ c[1] \in 1..lastLogIndex[s] /\ c[2] = log[s][c[1]] /\ c[3] = currentTerm[s]
          /\ log' = log /\ currentTerm' = currentTerm /\ lastLogIndex[s] \in Index
      BY <1>2, <2>1, CommitEffect
    <2>3. c[1] \in Index /\ c[1] <= lastLogIndex[s]
      BY <2>2, BoundAssumption DEF Index
    <2>4. Chosen(c[1], log[s][c[1]], currentTerm[s])'
      BY <2>1, <2>3, CommitChooses
    <2> QED
      BY <2>2, <2>4
  <1> QED
    BY <1>1, <1>2

\* A leader's own logs change by its own additions only.
LEMMA LeadersLogs ==
    ASSUME SafetyInv, Step, NEW s \in Server, role[s] = "leader", role'[s] = "leader"
    PROVE  \/ log'[s] = log[s] /\ lastLogIndex'[s] = lastLogIndex[s]
           \/ /\ AddRaftEntry(s) /\ Adds(s, write[s].index, write[s].term)
              /\ write[s] # Nil /\ write[s].st = "chosen"
  <1>1. ~EvaluateVoteResult(s)
    BY NewLeadersTerm
  <1>2. ASSUME NEW x \in Server, AppendEntriesGetReply(x, s), Accepts(x, s)
        PROVE  FALSE
    BY <1>2, AcceptEffect DEF AcceptedRest
  <1>3. AddRaftEntry(s) => write[s] # Nil /\ write[s].st = "chosen"
    BY WriteAdds
  <1> QED
    BY <1>1, <1>2, <1>3, LogCases

\* A leader finds no log in the place of the write it has chosen.
LEMMA LeaderAdds ==
    ASSUME SafetyInv, NEW s \in Server, role[s] = "leader", AddRaftEntry(s)
    PROVE  Adds(s, write[s].index, write[s].term)
  <1>0. TypeOK /\ LogsOK /\ TreeOK /\ LeadersOK /\ ChosenWritesOK
    BY DEF SafetyInv
  <1>1. write[s] # Nil /\ write[s].st = "chosen" /\ write[s] \in Write
    BY WriteAdds
  <1>2. write[s].term = currentTerm[s] /\ log[s][lastLogIndex[s]] = currentTerm[s]
    BY <1>0, <1>1 DEF LeadersOK
  <1>3. \A l \in written : l[2] = write[s].term => l[1] < write[s].index
    BY <1>0, <1>1 DEF ChosenWritesOK
  <1>4. lastLogIndex[s] < write[s].index
    <2>1. lastLogIndex[s] \in Index /\ log[s][lastLogIndex[s]] # NoLog
      BY <1>0, LastLog DEF Term, NoLog
    <2> DEFINE l == <<lastLogIndex[s], log[s][lastLogIndex[s]],
                      LogBefore(log[s], lastLogIndex[s])>>
    <2>2. l \in written
      BY <1>0, <2>1 DEF TreeOK, Path
    <2>3. l[1] = lastLogIndex[s] /\ l[2] = log[s][lastLogIndex[s]]
      OBVIOUS
    <2> HIDE DEF l
    <2> QED
      BY <1>2, <1>3, <2>2, <2>3
  <1>5. write[s].index \in Index /\ lastLogIndex[s] \in Index
    BY <1>0, <1>1 DEF Write, TypeOK
  <1>6. ~(write[s].index <= lastLogIndex[s])
    BY <1>4, <1>5 DEF Index
  <1>7. log[s][write[s].index] = NoLog
    BY <1>0, <1>5, <1>6, LastLog
  <1> QED
    BY <1>7, WriteAdds

LEMMA LeadersStep ==
    ASSUME SafetyInv, Step
    PROVE  LeadersOK'
  <1>0. /\ TypeOK /\ TypeOK' /\ LogsOK /\ LogsOK' /\ TreeOK /\ TreeOK' /\ LeadersOK
        /\ OwnersOK'
    BY TypesStep, LogsStep, TreeStep, OwnersStep DEF SafetyInv
  <1>1. ASSUME NEW s \in Server, EvaluateVoteResult(s)
        PROVE  /\ log'[s][lastLogIndex'[s]] = currentTerm'[s]
               /\ \A l \in written' : l[2] = currentTerm'[s] => log'[s][l[1]] = l[2]
               /\ write'[s] # Nil /\ write'[s].term = currentTerm'[s]
               /\ write'[s].index = lastLogIndex'[s]
    <2>1. PICK n, t : Adds(s, n, t) /\ t = currentTerm[s]
      BY <1>1, ElectedAdds
    <2>2. /\ n \in Index /\ lastLogIndex'[s] = n /\ log'[s][n] = t /\ currentTerm'[s] = t
          /\ written' = written \cup {<<n, t, log[s][n - 1]>>}
          /\ write'[s] # Nil /\ write'[s].index = n /\ write'[s].term = t
      BY <2>1 DEF Adds
    <2>3. \A l \in written : l[2] # t
      BY <1>1, <2>1, NewLeadersTerm
    <2>4. \A l \in written' : l[2] = t => log'[s][l[1]] = l[2]
      BY <2>2, <2>3
    <2> QED
      BY <2>2, <2>4
  <1>2. ASSUME NEW s \in Server, role[s] = "leader", role'[s] = "leader",
               currentTerm'[s] = currentTerm[s]
        PROVE  /\ log'[s][lastLogIndex'[s]] = currentTerm'[s]
               /\ \A l \in written' : l[2] = currentTerm'[s] => log'[s][l[1]] = l[2]
               /\ write'[s] = Nil =>
                    /\ Settled(lastLogIndex[s], currentTerm[s])'
                    /\ Keeps(s, lastLogIndex[s], currentTerm[s])'
               /\ write'[s] # Nil =>
                    /\ write'[s].term = currentTerm'[s]
                    /\ write'[s].st = "logged" => write'[s].index = lastLogIndex'[s]
    <2>1. /\ log[s][lastLogIndex[s]] = currentTerm[s]
          /\ \A l \in written : l[2] = currentTerm[s] => log[s][l[1]] = l[2]
          /\ write[s] = Nil => /\ Settled(lastLogIndex[s], currentTerm[s])
                               /\ Keeps(s, lastLogIndex[s], currentTerm[s])
          /\ write[s] # Nil =>
              /\ write[s].term = currentTerm[s]
              /\ write[s].st = "logged" => write[s].index = lastLogIndex[s]
      BY <1>0, <1>2 DEF LeadersOK
    <2>2. currentTerm[s] \in Term /\ currentTerm[s] # NoLog
      BY <1>0, LogType DEF Term, NoLog
    <2>3. ASSUME NEW i \in Index, log[s][i] # NoLog
          PROVE  log'[s][i] = log[s][i]
      BY <1>2, <2>3, LeadersLogs DEF Adds
    <2>4. log'[s][lastLogIndex'[s]] = currentTerm'[s]
      <3>1. CASE log'[s] = log[s] /\ lastLogIndex'[s] = lastLogIndex[s]
        BY <1>2, <2>1, <3>1
      <3>2. CASE Adds(s, write[s].index, write[s].term) /\ write[s] # Nil
        BY <1>2, <2>1, <3>2 DEF Adds
      <3> QED
        BY <1>2, <3>1, <3>2, LeadersLogs
    <2>5. ASSUME NEW l \in written', l[2] = currentTerm'[s]
          PROVE  log'[s][l[1]] = l[2]
      <3>1. CASE l \in written
        <4>1. l[1] \in Index
          BY <1>0, <3>1 DEF TypeOK
        <4> QED
          BY <1>2, <2>1, <2>2, <2>3, <2>5, <3>1, <4>1
      <3>2. ASSUME NEW x \in Server, Adds(x, l[1], l[2]), Owns(x, l[2])'
            PROVE  log'[s][l[1]] = l[2]
        <4>1. Owns(s, l[2])'
          BY <1>2, <2>5 DEF Owns
        <4>2. l[2] \in Term
          BY <1>2, <2>2, <2>5
        <4>3. x = s
          BY <1>0, <3>2, <4>1, <4>2 DEF OwnersOK
        <4> QED
          BY <3>2, <4>3 DEF Adds
      <3> QED
        BY <3>1, <3>2, AdderOwns
    <2>6. ASSUME write'[s] = Nil
          PROVE  /\ Settled(lastLogIndex[s], currentTerm[s])'
                 /\ Keeps(s, lastLogIndex[s], currentTerm[s])'
      <3>1. CASE write[s] = Nil
        <4>1. PICK n \in Index, t \in Term : n = lastLogIndex[s] /\ t = currentTerm[s]
          BY <1>0 DEF TypeOK
        <4>2. lastLogIndex'[s] = n /\ currentTerm'[s] = t
          BY <1>2, <3>1, <4>1, LeadersLogs
        <4>3. Settled(n, t) /\ Keeps(s, n, t)
          BY <2>1, <3>1, <4>1
        <4>4. Settled(n, t)'
          BY <1>0, <4>3, SettledStable
        <4>5. Keeps(s, n, t)'
          <5>1. t <= currentTerm[s]
            BY <4>1 DEF Term
          <5> QED
            BY <4>3, <5>1, SettledChosen, ChosenKeeps
        <4> QED
          BY <4>2, <4>4, <4>5
      <3>2. CASE CommitWrite(s)
        BY <1>0, <3>2, CommitSettles
      <3>3. CASE write[s] # Nil /\ ~CommitWrite(s)
        <4>1. ~EvaluateVoteResult(s) /\ ~PreCommit(s)
          BY <1>0, <1>2, <2>6, NewLeadersTerm, PreCommitEffect
        <4>2. ~AbortWrite(s) /\ ~Restart(s)
          BY <1>0, <1>2, AbortWriteEffect, RestartEffect
        <4>3. ~AddRaftEntry(s)
          BY <1>2, <2>6, LeaderAdds DEF Adds
        <4> QED
          BY <2>6, <3>3, <4>1, <4>2, <4>3, WriteChange
      <3> QED
        BY <3>1, <3>2, <3>3
    <2>7. ASSUME write'[s] # Nil
          PROVE  /\ write'[s].term = currentTerm'[s]
                 /\ write'[s].st = "logged" => write'[s].index = lastLogIndex'[s]
      <3>1. CASE AddRaftEntry(s)
        <4>1. Adds(s, write[s].index, write[s].term) /\ write[s] # Nil
          BY <1>2, <3>1, LeaderAdds, WriteAdds
        <4> QED
          BY <1>2, <2>1, <4>1 DEF Adds
      <3>2. CASE PreCommit(s)
        BY <1>0, <3>2, PreCommitEffect
      <3>3. CASE ~AddRaftEntry(s) /\ ~PreCommit(s)
        <4>1. ~EvaluateVoteResult(s)
          BY <1>2, NewLeadersTerm
        <4>2. ~CommitWrite(s) /\ ~AbortWrite(s) /\ ~Restart(s)
          BY <1>0, <2>7, CommitEffect, AbortWriteEffect, RestartEffect
        <4>3. write'[s] = write[s]
          BY <3>3, <4>1, <4>2, WriteChange
        <4>4. lastLogIndex'[s] = lastLogIndex[s]
          BY <1>2, <3>3, LeadersLogs
        <4> QED
          BY <1>2, <2>1, <2>7, <4>3, <4>4
      <3> QED
        BY <3>1, <3>2, <3>3
    <2> QED
      BY <2>4, <2>5, <2>6, <2>7
  <1>3. ASSUME NEW s \in Server, role'[s] = "leader"
        PROVE  \/ EvaluateVoteResult(s)
               \/ role[s] = "leader" /\ currentTerm'[s] = currentTerm[s]
    BY <1>3, RoleChange
  <1> QED
    BY <1>1, <1>2, <1>3 DEF LeadersOK

LEMMA ChosenWritesStep ==
    ASSUME SafetyInv, Step
    PROVE  ChosenWritesOK'
  <1>0. /\ TypeOK /\ TypeOK' /\ LogsOK /\ LogsOK' /\ TreeOK' /\ LeadersOK
        /\ ChosenWritesOK /\ OwnersOK /\ OwnersOK'
    BY TypesStep, LogsStep, TreeStep, OwnersStep DEF SafetyInv
  <1> SUFFICES ASSUME NEW s \in Server, write'[s] # Nil, write'[s].st = "chosen"
               PROVE  /\ Settled(write[s].index - 1, write[s].term)'
                      /\ Keeps(s, write[s].index - 1, write[s].term)'
                      /\ \A l \in written' : l[2] = write'[s].term => l[1] < write'[s].index
    BY DEF ChosenWritesOK
  <1>1. ~EvaluateVoteResult(s) /\ ~CommitWrite(s) /\ ~AbortWrite(s) /\ ~Restart(s)
    BY <1>0, ElectedAdds, CommitEffect, AbortWriteEffect, RestartEffect DEF Adds
  <1>2. ~AddRaftEntry(s)
    BY WriteAdds DEF Adds
  <1>3. PICK n, t : n = write'[s].index - 1 /\ t = write'[s].term
    OBVIOUS
  <1>4. write'[s].index \in Index /\ write'[s].index # 1 /\ t \in Term
    <2>1. write'[s] \in Write
      BY <1>0 DEF TypeOK
    <2> QED
      BY <1>3, <2>1 DEF Write
  <1>5. n \in Index /\ n \in Nat
    BY <1>3, <1>4, BoundAssumption DEF Index
  <1>6. /\ Settled(n, t) /\ Keeps(s, n, t) /\ t <= currentTerm[s]
        /\ \A l \in written : l[2] = t => l[1] < write'[s].index
    <2>1. CASE write'[s] = write[s]
      <3>1. write[s] # Nil /\ write[s].st = "chosen"
        BY <2>1
      <3>2. Owns(s, t)
        BY <1>3, <2>1, <3>1 DEF Owns
      <3> QED
        BY <1>0, <1>3, <1>4, <2>1, <3>1, <3>2 DEF ChosenWritesOK, OwnersOK
    <2>2. CASE PreCommit(s)
      <3>1. /\ write[s] = Nil /\ role[s] = "leader"
            /\ write'[s].index = lastLogIndex[s] + 1 /\ t = currentTerm[s]
        BY <1>0, <1>3, <2>2, PreCommitEffect
      <3>2. lastLogIndex[s] \in Nat /\ currentTerm[s] \in Nat
        BY <1>0, LastLog, LogType DEF Index
      <3>3. n = lastLogIndex[s]
        BY <1>3, <3>1, <3>2
      <3>4. ASSUME NEW l \in written, l[2] = t
            PROVE  l[1] < write'[s].index
        <4>1. log[s][l[1]] = t
          BY <1>0, <3>1, <3>4 DEF LeadersOK
        <4>2. l[1] \in Index
          BY <1>0 DEF TypeOK
        <4>3. l[1] <= lastLogIndex[s]
          BY <1>0, <1>4, <4>1, <4>2, LastLog DEF Term, NoLog
        <4> QED
          BY <3>1, <3>2, <4>2, <4>3 DEF Index
      <3>5. t <= currentTerm[s]
        BY <3>1, <3>2
      <3> QED
        BY <1>0, <3>1, <3>3, <3>4, <3>5 DEF LeadersOK
    <2> QED
      BY <1>1, <1>2, <2>1, <2>2, WriteChange
  <1>7. Settled(n, t)'
    BY <1>0, <1>4, <1>5, <1>6, SettledStable
  <1>8. Keeps(s, n, t)'
    BY <1>4, <1>5, <1>6, SettledChosen, ChosenKeeps
  <1>9. ASSUME NEW l \in written', l[2] = t
        PROVE  l[1] < write'[s].index
    <2>1. ASSUME NEW x \in Server, Adds(x, l[1], l[2]), Owns(x, l[2])'
          PROVE  FALSE
      <3>1. Owns(s, t)'
        BY <1>3 DEF Owns
      <3>2. x = s
        BY <1>0, <1>4, <1>9, <2>1, <3>1 DEF OwnersOK
      <3> QED
        BY <2>1, <3>2 DEF Adds
    <2> QED
      BY <1>6, <1>9, <2>1, AdderOwns
  <1> QED
    BY <1>3, <1>7, <1>8, <1>9

LEMMA ReplicatedStep ==
    ASSUME SafetyInv, Step
    PROVE  ReplicatedOK'
  <1>1. \A s \in Server : s \notin replicated[s]
    BY DEF SafetyInv, ReplicatedOK
  <1>2. ASSUME NEW s \in Server
        PROVE  s \notin replicated'[s]
    BY <1>1, ReplicatedChange
  <1> QED
    BY <1>2 DEF ReplicatedOK

\* A call keeps its arguments while it is under way; a new one is on its way.
LEMMA CallCases ==
    ASSUME SafetyInv, Step, NEW s \in Server, NEW p \in Server, call'[s][p] # Nil
    PROVE  \/ call'[s][p] = call[s][p]
           \/ \E pre, entry :
                 /\ s # p
                 /\ SentCall(s, p, pre, entry)
                 /\ \/ SendAppend(s, p) /\ entry = currentTerm[s]
                    \/ SendPing(s, p) /\ pre = lastLogIndex[s]
                    \/ /\ ReplyMismatch(s, p) \/ ReplyMatch(s, p)
                       /\ call[s][p] # Nil /\ call[s][p].st = "answered"
                 /\ UNCHANGED <<role, currentTerm, votedVars, logVars, commitIndex,
                                indexToApply, lastApplied, write, written, committed>>
           \/ /\ AppendEntriesGetReply(s, p) /\ s # p
              /\ call[s][p] # Nil /\ call[s][p].st = "sent"
              /\ Rejects(s, p) \/ Differs(s, p) \/ Accepts(s, p)
  <1>0. TypeOK /\ LogsOK /\ LeadersOK /\ CallsOK
    BY DEF SafetyInv
  <1>1. CASE SendAppend(s, p) /\ s # p
    BY <1>0, <1>1, SendAppendEffect DEF history
  <1>2. CASE SendPing(s, p) /\ s # p
    BY <1>0, <1>2, SendPingEffect DEF history
  <1>3. CASE ReplyMismatch(s, p) /\ s # p
    <2>1. ~Ended(s, p)
      BY DEF Ended
    <2> QED
      BY <1>0, <1>3, <2>1, ReplyMismatchEffect DEF history
  <1>4. CASE ReplyMatch(s, p) /\ s # p
    <2>1. ~Ended(s, p)
      BY DEF Ended
    <2> QED
      BY <1>0, <1>4, <2>1, ReplyMatchEffect DEF history
  <1>5. CASE AppendEntriesGetReply(s, p) /\ s # p
    <2>1. ~StepsDown(s, p)
      BY DEF StepsDown, Ended
    <2> QED
      BY <1>5, <2>1, HandlerStep
  <1> QED
    BY <1>1, <1>2, <1>3, <1>4, <1>5, CallChange

LEMMA CommitTrueStable ==
    ASSUME SafetyInv, Step, NEW a, a.pre \in Index, a.term \in Term, CommitTrue(a)
    PROVE  CommitTrue(a)'
  <1>0. LogsOK' /\ TreeOK'
    BY LogsStep, TreeStep
  <1>1. PICK n \in Index, t \in 1..a.term :
          /\ Settled(n, t)
          /\ \/ AtOrAfter(a.pre, a.preTerm, n, t) /\ FollowerCommitIndex(a) <= n
             \/ a.pre <= n /\ Below(a.pre, a.preTerm, n, t)
    BY DEF CommitTrue
  <1>2. t \in Term
    BY BoundAssumption DEF Term
  <1>3. Settled(n, t)'
    BY <1>0, <1>1, <1>2, SettledStable
  <1>4. a.pre <= n /\ Below(a.pre, a.preTerm, n, t) => Below(a.pre, a.preTerm, n, t)'
    BY <1>0, <1>1, <1>2, BelowStable
  <1> QED
    BY <1>1, <1>3, <1>4 DEF CommitTrue

\* The commit index of a leader is that of a settled log.
LEMMA NewCommitTrue ==
    ASSUME SafetyInv, NEW s \in Server, role[s] = "leader", NEW a,
           a.pre \in Index, log[s][a.pre] # NoLog, a.preTerm = log[s][a.pre],
           a.commit = commitIndex[s], a.term = currentTerm[s]
    PROVE  CommitTrue(a)
  <1>0. TypeOK /\ LogsOK /\ TreeOK /\ LeadersOK /\ AppliedOK
    BY DEF SafetyInv
  <1>1. a.commit \in Index /\ a.term \in Term /\ a.term \in Nat
    BY <1>0, LogType DEF TypeOK
  <1>2. a.commit \in Nat /\ a.pre \in Nat
    BY <1>1 DEF Index
  <1>3. PICK t \in 1..a.term : Chosen(a.commit, log[s][a.commit], t)
    <2>1. a.commit <= commitIndex[s]
      BY <1>2
    <2> QED
      BY <1>0, <1>1, <2>1 DEF AppliedOK
  <1>4. PICK n \in Index : a.commit <= n /\ Settled(n, t)
    BY <1>3 DEF Chosen
  <1>5. t \in Term /\ t \in Nat /\ n \in Nat /\ t # NoLog /\ currentTerm[s] >= t
    BY <1>1, BoundAssumption DEF Term, Index, NoLog
  <1>6. log[s][n] = t
    <2>1. GrowsAbove(n, t) /\ IsWritten(n, t)
      BY <1>4, SettledHeld
    <2> QED
      BY <1>0, <1>5, <2>1, LeaderHas
  <1>7. FollowerCommitIndex(a) <= a.commit
    <2>1. FollowerCommitIndex(a) = IF a.commit <= a.pre THEN a.commit ELSE a.pre
      BY <1>2, MinOfTwo DEF FollowerCommitIndex
    <2> QED
      BY <1>2, <2>1
  <1>8. CASE a.pre >= n
    <2>1. FollowerCommitIndex(a) \in Nat
      BY <1>2, MinOfTwo DEF FollowerCommitIndex
    <2>2. FollowerCommitIndex(a) <= n
      BY <1>2, <1>4, <1>5, <1>7, <2>1
    <2>3. log[s][n] <= log[s][a.pre]
      BY <1>0, <1>5, <1>8 DEF LogsOK
    <2>4. a.preTerm \in Nat
      BY <1>0, LastLog DEF Term
    <2>5. AtOrAfter(a.pre, a.preTerm, n, t)
      BY <1>5, <1>6, <1>8, <2>3, <2>4 DEF AtOrAfter
    <2> QED
      BY <1>4, <2>2, <2>5 DEF CommitTrue
  <1>9. CASE a.pre <= n
    <2>1. Below(n, log[s][n], n, t)
      BY <1>6 DEF Below
    <2>2. Below(a.pre, a.preTerm, n, t)
      BY <1>0, <1>5, <1>6, <1>9, <2>1, BelowPath
    <2> QED
      BY <1>4, <1>9, <2>2 DEF CommitTrue
  <1> QED
    BY <1>2, <1>5, <1>8, <1>9

\* The logs of a server stay while it is leader.
LEMMA LeaderLogStays ==
    ASSUME SafetyInv, Step, NEW s \in Server, role[s] = "leader", role'[s] = "leader",
           NEW i \in Index, log[s][i] # NoLog
    PROVE  log'[s][i] = log[s][i]
  BY LeadersLogs DEF Adds

\* The commit index of a leader only grows.
LEMMA LeaderCommitGrows ==
    ASSUME SafetyInv, Step, NEW s \in Server, role[s] = "leader", role'[s] = "leader"
    PROVE  commitIndex'[s] >= commitIndex[s]
  <1>0. TypeOK /\ AheadOK
    BY DEF SafetyInv
  <1>1. commitIndex[s] \in Index
    BY <1>0 DEF TypeOK
  <1>2. CASE commitIndex'[s] = commitIndex[s]
    BY <1>1, <1>2 DEF Index
  <1>3. CASE CommitWrite(s)
    <2>1. Waiting(s) /\ commitIndex'[s] = write[s].index /\ write[s].index \in Index
      BY <1>3, CommitEffect
    <2>2. commitIndex[s] < write[s].index
      BY <1>0, <2>1 DEF AheadOK
    <2> QED
      BY <1>1, <2>1, <2>2 DEF Index
  <1>4. ~ApplyLog(s) /\ ~Restart(s)
    BY <1>0, ApplyLogEffect, RestartEffect DEF SafetyInv
  <1>5. ASSUME NEW x \in Server, AppendEntriesGetReply(x, s), Accepts(x, s)
        PROVE  FALSE
    BY <1>5, AcceptEffect DEF AcceptedRest
  <1> QED
    BY <1>2, <1>3, <1>4, <1>5, AppliedChange

LEMMA IsWrittenStable ==
    ASSUME SafetyInv, Step, NEW i, NEW k, IsWritten(i, k)
    PROVE  IsWritten(i, k)'
  BY WrittenCases DEF IsWritten

\* A call under way stays in order.
LEMMA OldCall ==
    ASSUME SafetyInv, Prompt, Step, NEW s \in Server, NEW p \in Server,
           call[s][p] # Nil, call'[s][p] # Nil, call'[s][p].args = call[s][p].args,
           call'[s][p].st = "sent" => call[s][p].st = "sent",
           call'[s][p].st = "answered" =>
              /\ call[s][p].args.term <= call'[s][p].term
              /\ call'[s][p].term <= currentTerm'[p]
    PROVE  CallOK(s, p)'
  <1>0. TypeOK /\ TypeOK' /\ LogsOK /\ CallOK(s, p)
    BY TypesStep DEF SafetyInv, CallsOK
  <1>1. PICK a : a = call[s][p].args
    OBVIOUS
  <1>2. /\ s # p /\ role[s] # "candidate"
        /\ role[s] = "leader" =>
              /\ a.term = currentTerm[s]
              /\ log[s][a.pre] = a.preTerm
              /\ a.entry # NoLog => log[s][a.index] = a.entry
              /\ a.commit <= commitIndex[s]
        /\ IsWritten(a.pre, a.preTerm)
        /\ a.entry # NoLog =>
              /\ a.index = a.pre + 1
              /\ <<a.index, a.entry, a.preTerm>> \in written
              /\ a.entry <= a.term
        /\ call[s][p].st = "sent" /\ a.term > currentTerm[p] => FirstCall(a)
        /\ CommitTrue(a)
    BY <1>0, <1>1 DEF CallOK
  <1>3. /\ a.pre \in Index /\ a.preTerm \in Term /\ a.index \in Index
        /\ a.term \in Term /\ a.commit \in Index
    BY <1>0, <1>1, CallFields
  <1>4. role'[s] # "candidate"
    <2>1. CASE StartVote(s)
      <3>1. PeersReady(s)
        BY <1>0, <2>1, StartVoteEffect
      <3>2. call[s][p] = Nil
        BY <1>2, <3>1 DEF PeersReady, Prompt, Peer
      <3> QED
        BY <3>2
    <2> QED
      BY <1>2, <2>1, RoleChange
  <1>5. ASSUME role'[s] = "leader"
        PROVE  /\ a.term = currentTerm'[s]
               /\ log'[s][a.pre] = a.preTerm
               /\ a.entry # NoLog => log'[s][a.index] = a.entry
               /\ a.commit <= commitIndex'[s]
    <2>1. role[s] = "leader" /\ currentTerm'[s] = currentTerm[s]
      BY <1>2, <1>5, RoleChange, NewLeadersTerm
    <2>2. log'[s][a.pre] = a.preTerm
      <3>1. log[s][a.pre] # NoLog
        BY <1>2, <1>3, <2>1 DEF Term, NoLog
      <3> QED
        BY <1>2, <1>3, <1>5, <2>1, <3>1, LeaderLogStays
    <2>3. a.entry # NoLog => log'[s][a.index] = a.entry
      BY <1>2, <1>3, <1>5, <2>1, LeaderLogStays
    <2>4. a.commit <= commitIndex'[s]
      <3>1. commitIndex'[s] >= commitIndex[s]
        BY <1>5, <2>1, LeaderCommitGrows
      <3>2. commitIndex[s] \in Index
        BY <1>0 DEF TypeOK
      <3>3. commitIndex'[s] \in Index
        BY <1>0 DEF TypeOK
      <3> QED
        BY <1>2, <1>3, <2>1, <3>1, <3>2, <3>3 DEF Index
    <2> QED
      BY <1>2, <2>1, <2>2, <2>3, <2>4
  <1>6. IsWritten(a.pre, a.preTerm)' /\ CommitTrue(a)'
    BY <1>2, <1>3, IsWrittenStable, CommitTrueStable
  <1>7. a.entry # NoLog =>
              /\ a.index = a.pre + 1
              /\ <<a.index, a.entry, a.preTerm>> \in written'
              /\ a.entry <= a.term
    BY <1>2, WrittenCases
  <1>8. call'[s][p].st = "sent" /\ a.term > currentTerm'[p] => FirstCall(a)
    <2>1. currentTerm'[p] >= currentTerm[p] /\ currentTerm[p] \in Nat /\ currentTerm'[p] \in Nat
      BY RoleChange
    <2> QED
      BY <1>2, <1>3, <2>1 DEF Term
  <1>9. FirstCall(a)' <=> FirstCall(a)
    BY DEF FirstCall
  <1>10. call'[s][p].args = a
    BY <1>1
  <1>11. call'[s][p].st = "answered" => a.term <= call'[s][p].term
                                       /\ call'[s][p].term <= currentTerm'[p]
    BY <1>1
  <1> QED
    BY <1>2, <1>4, <1>5, <1>6, <1>7, <1>8, <1>9, <1>10, <1>11 DEF CallOK

\* A new call is in order.
LEMMA NewCall ==
    ASSUME SafetyInv, Step, NEW s \in Server, NEW p \in Server, s # p,
           NEW pre, NEW entry, SentCall(s, p, pre, entry),
           UNCHANGED <<role, currentTerm, logVars, commitIndex, written>>,
           log[s][pre] = currentTerm[s] \/ entry = currentTerm[s]
              \/ currentTerm[s] <= currentTerm[p]
    PROVE  CallOK(s, p)'
  <1>0. TypeOK /\ TypeOK' /\ LogsOK /\ TreeOK
    BY TypesStep DEF SafetyInv
  <1>1. PICK a : a = call'[s][p].args
    OBVIOUS
  <1>2. /\ role[s] = "leader" /\ pre \in Index /\ log[s][pre] # NoLog
        /\ entry # NoLog => pre + 1 \in Index /\ log[s][pre + 1] = entry
        /\ call'[s][p].st = "sent"
        /\ a.pre = pre /\ a.preTerm = log[s][pre] /\ a.entry = entry
        /\ entry # NoLog => a.index = pre + 1
        /\ a.term = currentTerm[s] /\ a.commit = commitIndex[s]
    BY <1>1 DEF SentCall
  <1>3. /\ role' = role /\ currentTerm' = currentTerm /\ log' = log
        /\ commitIndex' = commitIndex /\ written' = written
    BY DEF logVars
  <1>4. currentTerm[s] \in Term /\ currentTerm[s] \in Nat /\ currentTerm[p] \in Nat
    BY <1>0, LogType
  <1>5. CommitTrue(a)'
    <2>1. CommitTrue(a)
      BY <1>2, NewCommitTrue
    <2> QED
      BY <1>2, <1>4, <2>1, CommitTrueStable
  <1>6. IsWritten(a.pre, a.preTerm)'
    <2>1. <<pre, log[s][pre], LogBefore(log[s], pre)>> \in written
      BY <1>0, <1>2 DEF TreeOK, Path
    <2> DEFINE l == <<pre, log[s][pre], LogBefore(log[s], pre)>>
    <2>2. l[1] = pre /\ l[2] = log[s][pre]
      OBVIOUS
    <2> QED
      BY <1>2, <1>3, <2>1, <2>2 DEF IsWritten
  <1>7. a.entry # NoLog => /\ a.index = a.pre + 1
                           /\ <<a.index, a.entry, a.preTerm>> \in written'
                           /\ a.entry <= a.term
    <2> SUFFICES ASSUME entry # NoLog
                 PROVE  <<pre + 1, entry, log[s][pre]>> \in written /\ entry <= currentTerm[s]
      BY <1>2, <1>3
    <2>1. LogBefore(log[s], pre + 1) = log[s][pre]
      <3>1. pre + 1 # 1 /\ (pre + 1) - 1 = pre
        BY <1>2 DEF Index
      <3> QED
        BY <3>1 DEF LogBefore
    <2>2. <<pre + 1, entry, log[s][pre]>> \in written
      BY <1>0, <1>2, <2>1 DEF TreeOK, Path
    <2>3. entry <= currentTerm[s]
      <3>1. /\ entry \in Term /\ entry <= log[s][lastLogIndex[s]]
            /\ log[s][lastLogIndex[s]] \in Term /\ log[s][lastLogIndex[s]] <= currentTerm[s]
        BY <1>0, <1>2, LastLog
      <3> QED
        BY <1>4, <3>1 DEF Term
    <2> QED
      BY <2>2, <2>3
  <1>8. a.term > currentTerm'[p] => FirstCall(a)
    BY <1>2, <1>3, <1>4 DEF FirstCall
  <1>9. FirstCall(a)' <=> FirstCall(a)
    BY DEF FirstCall
  <1>10. /\ a.term = currentTerm'[s] /\ log'[s][a.pre] = a.preTerm
         /\ a.entry # NoLog => log'[s][a.index] = a.entry
         /\ a.commit <= commitIndex'[s]
         /\ role'[s] = "leader"
    <2>0. commitIndex[s] \in Index
      BY <1>0 DEF TypeOK
    <2>1. a.commit \in Nat
      BY <1>2, <2>0 DEF Index
    <2> QED
      BY <1>2, <1>3, <2>1
  <1> QED
    BY <1>1, <1>2, <1>5, <1>6, <1>7, <1>8, <1>9, <1>10 DEF CallOK

LEMMA CallsStep ==
    ASSUME SafetyInv, Prompt, Step
    PROVE  CallsOK'
  <1>0. TypeOK /\ LogsOK /\ LeadersOK /\ CallsOK
    BY DEF SafetyInv
  <1> SUFFICES ASSUME NEW s \in Server, NEW p \in Server, call'[s][p] # Nil
               PROVE  CallOK(s, p)'
    BY DEF CallsOK, CallOK
  <1>1. currentTerm'[p] >= currentTerm[p] /\ currentTerm[p] \in Nat /\ currentTerm'[p] \in Nat
    BY RoleChange
  <1>2. CASE call'[s][p] = call[s][p]
    <2>1. call[s][p].st = "answered" => /\ call[s][p].args.term <= call[s][p].term
                                        /\ call[s][p].term <= currentTerm[p]
      BY <1>0, <1>2 DEF CallsOK, CallOK
    <2>2. call[s][p].st = "answered" => call[s][p].term \in Nat
      BY <1>0, <1>2, CallFields DEF Term
    <2>3. call'[s][p].st = "answered" => /\ call[s][p].args.term <= call'[s][p].term
                                         /\ call'[s][p].term <= currentTerm'[p]
      BY <1>1, <1>2, <2>1, <2>2
    <2> QED
      BY <1>2, <2>3, OldCall
  <1>3. ASSUME NEW pre, NEW entry, s # p, SentCall(s, p, pre, entry),
               \/ SendAppend(s, p) /\ entry = currentTerm[s]
               \/ SendPing(s, p) /\ pre = lastLogIndex[s]
               \/ /\ ReplyMismatch(s, p) \/ ReplyMatch(s, p)
                  /\ call[s][p] # Nil /\ call[s][p].st = "answered",
               UNCHANGED <<role, currentTerm, logVars, commitIndex, written>>
        PROVE  CallOK(s, p)'
    <2>1. role[s] = "leader"
      BY <1>3 DEF SentCall
    <2>2. pre = lastLogIndex[s] => log[s][pre] = currentTerm[s]
      BY <1>0, <2>1 DEF LeadersOK
    <2>3. call[s][p] # Nil /\ call[s][p].st = "answered" => currentTerm[s] <= currentTerm[p]
      <3> SUFFICES ASSUME call[s][p] # Nil, call[s][p].st = "answered"
                   PROVE  currentTerm[s] <= currentTerm[p]
        OBVIOUS
      <3>1. /\ call[s][p].args.term = currentTerm[s]
            /\ call[s][p].args.term <= call[s][p].term
            /\ call[s][p].term <= currentTerm[p]
        BY <1>0, <2>1 DEF CallsOK, CallOK
      <3>2. call[s][p].term \in Nat /\ currentTerm[s] \in Nat
        BY <1>0, CallFields, LogType DEF Term
      <3> QED
        BY <1>1, <3>1, <3>2
    <2> QED
      BY <1>3, <2>2, <2>3, NewCall
  <1>4. ASSUME AppendEntriesGetReply(s, p), call[s][p] # Nil, call[s][p].st = "sent",
               Rejects(s, p) \/ Differs(s, p) \/ Accepts(s, p)
        PROVE  CallOK(s, p)'
    <2>1. call[s][p].args.term \in Nat
      BY <1>0, <1>4, CallFields DEF Term
    <2>2. /\ call'[s][p].args = call[s][p].args
          /\ call'[s][p].st = "answered"
          /\ call[s][p].args.term <= call'[s][p].term
          /\ call'[s][p].term <= currentTerm'[p]
      <3>1. CASE Rejects(s, p)
        BY <1>1, <2>1, <3>1 DEF Rejects, Answered
      <3>2. CASE Differs(s, p)
        BY <1>1, <2>1, <3>2 DEF Differs, Answered, Follows
      <3>3. CASE Accepts(s, p)
        BY <1>1, <2>1, <3>3 DEF Accepts, Answered, Follows
      <3> QED
        BY <1>4, <3>1, <3>2, <3>3
    <2> QED
      BY <1>4, <2>2, OldCall
  <1> QED
    BY <1>2, <1>3, <1>4, CallCases

\* A leader that waits has waited before, or has just added its log.
LEMMA WaitingCases ==
    ASSUME SafetyInv, Step, NEW s \in Server, Waiting(s)'
    PROVE  /\ currentTerm'[s] = currentTerm[s]
           /\ \/ Waiting(s) /\ write'[s] = write[s]
              \/ /\ Adds(s, write'[s].index, write'[s].term)
                 /\ write'[s].term = currentTerm[s]
                 /\ \/ EvaluateVoteResult(s)
                    \/ AddRaftEntry(s) /\ role[s] = "leader"
  <1>0. TypeOK /\ LogsOK /\ LeadersOK
    BY DEF SafetyInv
  <1>1. role'[s] = "leader" /\ write'[s] # Nil /\ write'[s].st = "logged"
    BY DEF Waiting
  <1>2. CASE EvaluateVoteResult(s)
    <2>1. Adds(s, lastLogIndex[s] + 1, currentTerm[s])
      BY <1>2, ElectedAdds
    <2>2. write'[s].index = lastLogIndex[s] + 1 /\ write'[s].term = currentTerm[s]
          /\ currentTerm'[s] = currentTerm[s]
      BY <2>1 DEF Adds
    <2> QED
      BY <1>2, <2>1, <2>2
  <1>3. CASE ~EvaluateVoteResult(s)
    <2>1. role[s] = "leader" /\ currentTerm'[s] = currentTerm[s]
      BY <1>1, <1>3, RoleChange
    <2>2. CASE AddRaftEntry(s)
      <3>1. Adds(s, write[s].index, write[s].term) /\ write[s] # Nil
        BY <2>1, <2>2, LeaderAdds, WriteAdds
      <3>2. /\ write'[s].index = write[s].index /\ write'[s].term = write[s].term
            /\ write[s].term = currentTerm[s]
        BY <1>0, <2>1, <3>1 DEF Adds, LeadersOK
      <3> QED
        BY <2>1, <2>2, <3>1, <3>2
    <2>3. CASE ~AddRaftEntry(s)
      <3>1. ~PreCommit(s)
        BY <1>0, <1>1, PreCommitEffect
      <3>2. ~CommitWrite(s) /\ ~AbortWrite(s) /\ ~Restart(s)
        BY <1>0, <1>1, CommitEffect, AbortWriteEffect, RestartEffect
      <3>3. write'[s] = write[s]
        BY <1>3, <2>3, <3>1, <3>2, WriteChange
      <3> QED
        BY <1>1, <2>1, <3>3 DEF Waiting
    <2> QED
      BY <2>2, <2>3
  <1> QED
    BY <1>2, <1>3

\* A peer comes to count for a write by accepting a call.
LEMMA AcksCases ==
    ASSUME SafetyInv, Step, NEW s \in Server, write'[s] = write[s],
           NEW q \in Server, q \in Acks(s)'
    PROVE  \/ q \in Acks(s)
           \/ /\ AppendEntriesGetReply(s, q) /\ Accepts(s, q)
              /\ call[s][q] # Nil
              /\ ConfirmsWrite(s, call[s][q].args)
  <1>0. TypeOK
    BY DEF SafetyInv
  <1>1. CASE q \in replicated'[s]
    <2>1. CASE q \in replicated[s]
      BY <2>1 DEF Acks
    <2>2. ASSUME ReplyMatch(s, q), ConfirmsWrite(s, call[s][q].args)
          PROVE  q \in Acks(s)
      <3>1. call[s][q] # Nil /\ call[s][q].st = "answered" /\ call[s][q].status = 0
        BY <1>0, <2>2, ReplyMatchEffect
      <3> QED
        BY <2>2, <3>1 DEF Acks
    <2> QED
      BY <1>1, <2>1, <2>2, ReplicatedChange
  <1>2. CASE /\ call'[s][q] # Nil /\ call'[s][q].st = "answered"
             /\ call'[s][q].status = 0 /\ ConfirmsWrite(s, call[s][q].args)'
    <2>1. ConfirmsWrite(s, call'[s][q].args)
      BY <1>2 DEF ConfirmsWrite
    <2>2. CASE call'[s][q] = call[s][q]
      BY <1>2, <2>1, <2>2 DEF Acks
    <2>3. ASSUME NEW pre, NEW entry, SentCall(s, q, pre, entry)
          PROVE  FALSE
      BY <1>2, <2>3 DEF SentCall
    <2>4. lastLogIndex[q] # 0
      BY <1>0 DEF TypeOK, Index
    <2>5. ~Rejects(s, q) /\ ~Differs(s, q)
      BY <1>2, <2>4 DEF Rejects, Differs, Answered
    <2>6. Accepts(s, q) => call'[s][q].args = call[s][q].args
      BY DEF Accepts, Answered
    <2> QED
      BY <1>2, <2>1, <2>2, <2>3, <2>5, <2>6, CallCases
  <1> QED
    BY <1>1, <1>2 DEF Acks

\* Who has moved on to a later term will not count for the write any more.
LEMMA NoLateAck ==
    ASSUME SafetyInv, Step, NEW s \in Server, Waiting(s), write'[s] = write[s],
           NEW v \in Server, currentTerm[v] > write[s].term, v \notin Acks(s)
    PROVE  /\ currentTerm'[v] > write[s].term
           /\ v \notin Acks(s)'
  <1>0. TypeOK /\ LeadersOK /\ CallsOK
    BY DEF SafetyInv
  <1>1. write[s].term = currentTerm[s] /\ role[s] = "leader"
    BY <1>0 DEF LeadersOK, Waiting
  <1>2. currentTerm[s] \in Nat /\ currentTerm[v] \in Nat
    BY <1>0, LogType
  <1>3. currentTerm'[v] >= currentTerm[v] /\ currentTerm'[v] \in Nat
    BY RoleChange
  <1>4. ASSUME Accepts(s, v), call[s][v] # Nil
        PROVE  FALSE
    <2>1. call[s][v].args.term >= currentTerm[v]
      BY <1>4 DEF Accepts
    <2>2. call[s][v].args.term = currentTerm[s]
      BY <1>0, <1>1, <1>4 DEF CallsOK, CallOK
    <2> QED
      BY <1>1, <1>2, <2>1, <2>2
  <1>5. v \notin Acks(s)'
    BY <1>4, AcksCases
  <1> QED
    BY <1>1, <1>2, <1>3, <1>5

LEMMA HasIsWritten ==
    ASSUME TreeOK, NEW s \in Server, NEW n \in Index, log[s][n] # NoLog
    PROVE  IsWritten(n, log[s][n])
  <1>1. <<n, log[s][n], LogBefore(log[s], n)>> \in written
    BY DEF TreeOK, Path
  <1> DEFINE l == <<n, log[s][n], LogBefore(log[s], n)>>
  <1>2. l[1] = n /\ l[2] = log[s][n]
    OBVIOUS
  <1> QED
    BY <1>1, <1>2 DEF IsWritten

\* The peer that accepts the write holds it.
LEMMA AckHolds ==
    ASSUME SafetyInv, Prompt, Step, NEW s \in Server, Waiting(s), NEW q \in Server,
           AppendEntriesGetReply(s, q), Accepts(s, q), ConfirmsWrite(s, call[s][q].args),
           GrowsAbove(write[s].index, write[s].term)
    PROVE  Holds(q, write[s].index, write[s].term)'
  <1>0. TypeOK /\ TypeOK' /\ LogsOK /\ LeadersOK /\ CallsOK /\ VotesOK'
    BY TypesStep, VotesStep DEF SafetyInv
  <1>1. PICK a : a = call[s][q].args
    OBVIOUS
  <1>2. AcceptedCall(s, q, a) /\ AcceptedLogs(q, a) /\ AcceptedRest(s, q, a)
    BY <1>1, AcceptEffect
  <1>3. PICK n, t : n = write[s].index /\ t = write[s].term
    OBVIOUS
  <1>4. /\ role[s] = "leader" /\ write[s] # Nil /\ t = currentTerm[s]
        /\ n = lastLogIndex[s] /\ log[s][n] = t /\ n \in Index /\ t \in Term
    <2>1. role[s] = "leader" /\ write[s] # Nil /\ write[s].st = "logged"
      BY DEF Waiting
    <2>2. /\ t = currentTerm[s] /\ n = lastLogIndex[s]
          /\ log[s][lastLogIndex[s]] = currentTerm[s]
      BY <1>0, <1>3, <2>1 DEF LeadersOK
    <2>3. lastLogIndex[s] \in Index /\ currentTerm[s] \in Term
      BY <1>0, LastLog, LogType
    <2> QED
      BY <2>1, <2>2, <2>3
  <1>5. /\ a.term = t /\ a.entry = t /\ a.entry # NoLog /\ a.pre + 1 = n
        /\ call[s][q] # Nil
    <2>1. a.entry # NoLog /\ a.index = n /\ call[s][q] # Nil
      BY <1>1, <1>2, <1>3 DEF ConfirmsWrite, AcceptedCall
    <2>2. a.term = currentTerm[s] /\ log[s][a.index] = a.entry /\ a.index = a.pre + 1
      BY <1>0, <1>1, <1>4, <2>1 DEF CallsOK, CallOK
    <2> QED
      BY <1>4, <2>1, <2>2
  <1>6. n \in Nat /\ t \in Nat /\ a.pre \in Nat
    BY <1>2, <1>4 DEF Index, Term, AcceptedCall
  <1>7. log'[q][n] = t
    <2>1. n > a.pre
      BY <1>5, <1>6
    <2> QED
      BY <1>2, <1>4, <1>5, <2>1 DEF AcceptedLogs
  <1>8. currentTerm'[q] = t
    BY <1>2, <1>5 DEF AcceptedCall
  <1>9. Keeps(q, n, t)'
    <2>1. t <= call[s][q].args.term /\ n <= call[s][q].args.pre + 1 /\ n <= n
      BY <1>1, <1>5, <1>6
    <2> QED
      BY <1>3, <1>4, <1>7, <2>1, AcceptKeeps
  <1>10. LastAtOrAfter(q, n, t)'
    <2>1. lastLogIndex'[q] = n /\ lastLogTerm'[q] = t
      BY <1>2, <1>5 DEF AcceptedLogs
    <2> QED
      BY <1>6, <2>1 DEF LastAtOrAfter, AtOrAfter
  <1>11. ASSUME NEW c \in Server, role'[c] = "candidate", currentTerm'[c] > t,
                q \in votes'[c]
         PROVE  FALSE
    <2>1. currentTerm'[q] > currentTerm'[c] \/ currentTerm'[q] = currentTerm'[c]
      BY <1>0, <1>11 DEF VotesOK
    <2>2. currentTerm'[c] \in Nat
      BY RoleChange
    <2> QED
      BY <1>6, <1>8, <1>11, <2>1, <2>2
  <1>12. currentTerm'[q] >= t
    BY <1>6, <1>8
  <1>13. Holds(q, n, t)'
    BY <1>9, <1>10, <1>11, <1>12 DEF Holds
  <1>14. write'[s] = write[s]
    BY <1>2 DEF AcceptedRest
  <1> QED
    BY <1>3, <1>13, <1>14

\* What WaitingOK says of a write.
WriteHeld(s, n, t) ==
    /\ GrowsAbove(n, t)
    /\ Keeps(s, n, t)
    /\ \A q \in Acks(s) : Holds(q, n, t)

WriteDoomed(s, t) ==
    \E V \in SUBSET Server :
        /\ IsMajority(V)
        /\ \A v \in V : currentTerm[v] > t /\ v \notin Acks(s)

LEMMA AcksAreServers ==
    ASSUME TypeOK, NEW s \in Server
    PROVE  Acks(s) \subseteq Server
  BY DEF TypeOK, Acks

\* A write the leader goes on waiting with.
LEMMA OldWaiting ==
    ASSUME SafetyInv, Prompt, Step, NEW s \in Server, Waiting(s), write'[s] = write[s]
    PROVE  \/ WriteHeld(s, write[s].index, write[s].term)'
           \/ WriteDoomed(s, write[s].term)'
  <1>0. /\ TypeOK /\ TypeOK' /\ LogsOK /\ LogsOK' /\ TreeOK /\ LeadersOK /\ CallsOK
        /\ VotesOK /\ WaitingOK
    BY TypesStep, LogsStep DEF SafetyInv
  <1>1. PICK n, t : n = write[s].index /\ t = write[s].term
    OBVIOUS
  <1>2. /\ role[s] = "leader" /\ write[s] # Nil /\ t = currentTerm[s]
        /\ n = lastLogIndex[s] /\ log[s][n] = t /\ n \in Index /\ t \in Term
    <2>1. role[s] = "leader" /\ write[s] # Nil /\ write[s].st = "logged"
      BY DEF Waiting
    <2>2. /\ t = currentTerm[s] /\ n = lastLogIndex[s]
          /\ log[s][lastLogIndex[s]] = currentTerm[s]
      BY <1>0, <1>1, <2>1 DEF LeadersOK
    <2>3. lastLogIndex[s] \in Index /\ currentTerm[s] \in Term
      BY <1>0, LastLog, LogType
    <2> QED
      BY <2>1, <2>2, <2>3
  <1>3. ASSUME NEW V \in SUBSET Server, IsMajority(V),
               \A v \in V : currentTerm[v] > t /\ v \notin Acks(s)
        PROVE  WriteDoomed(s, t)'
    <2>1. \A v \in V : currentTerm'[v] > t /\ v \notin Acks(s)'
      BY <1>1, <1>3, NoLateAck
    <2>2. IsMajority(V)'
      BY <1>3 DEF IsMajority
    <2> QED
      BY <2>1, <2>2 DEF WriteDoomed
  <1>4. ASSUME GrowsAbove(n, t), Keeps(s, n, t), \A q \in Acks(s) : Holds(q, n, t)
        PROVE  WriteHeld(s, n, t)' \/ WriteDoomed(s, t)'
    <2>1. t \in Nat /\ t # NoLog /\ n \in Nat
      BY <1>2 DEF Term, Index, NoLog
    <2>2. IsWritten(n, t)
      BY <1>0, <1>2, <2>1, HasIsWritten
    <2>3. ASSUME NEW x \in Server, EvaluateVoteResult(x), currentTerm[x] > t,
                 ~LastAtOrAfter(x, n, t)
          PROVE  WriteDoomed(s, t)'
      <3>1. IsMajority(votes[x]) /\ role[x] = "candidate"
        BY <2>3, NewLeadersTerm
      <3>2. ASSUME NEW v \in votes[x]
            PROVE  currentTerm[v] > t /\ v \notin Acks(s)
        <4>1. v \in Server
          BY <3>1 DEF IsMajority
        <4>2. currentTerm[v] > currentTerm[x] \/ currentTerm[v] = currentTerm[x]
          BY <1>0, <3>1 DEF VotesOK
        <4>3. currentTerm[v] \in Nat /\ currentTerm[x] \in Nat
          BY <1>0, <4>1, LogType
        <4>4. currentTerm[v] > t
          BY <2>1, <2>3, <4>2, <4>3
        <4>5. v \notin Acks(s)
          BY <1>4, <2>3, <3>1 DEF Holds
        <4> QED
          BY <4>4, <4>5
      <3>3. votes[x] \in SUBSET Server
        BY <3>1 DEF IsMajority
      <3>4. PICK V \in SUBSET Server : V = votes[x]
        BY <3>3
      <3> QED
        BY <1>3, <3>1, <3>2, <3>4
    <2>4. ASSUME \A x \in Server : EvaluateVoteResult(x) /\ currentTerm[x] > t
                                     => LastAtOrAfter(x, n, t)
          PROVE  WriteHeld(s, n, t)'
      <3>1. GrowsAbove(n, t)'
        BY <1>2, <1>4, <2>2, <2>4, GrowsStable
      <3>2. Keeps(s, n, t)'
        <4>1. ASSUME NEW p \in Server, role[p] = "leader", currentTerm[p] >= currentTerm[s]
              PROVE  log[p][n] = t
          BY <1>0, <1>2, <1>4, <2>2, <4>1, LeaderHas
        <4> QED
          BY <1>2, <1>4, <4>1, KeepsStable
      <3>3. ASSUME NEW q \in Acks(s)'
            PROVE  Holds(q, n, t)'
        <4>1. q \in Server
          BY <1>0 DEF TypeOK, Acks
        <4>2. CASE q \in Acks(s)
          BY <1>0, <1>2, <1>4, <2>2, <4>1, <4>2, HoldsStable
        <4>3. CASE /\ AppendEntriesGetReply(s, q) /\ Accepts(s, q)
                   /\ ConfirmsWrite(s, call[s][q].args)
          <5>1. Holds(q, write[s].index, write[s].term)'
            BY <1>1, <1>4, <4>1, <4>3, AckHolds
          <5>2. write'[s].index = n /\ write'[s].term = t
            BY <1>1
          <5> QED
            BY <5>1, <5>2
        <4> QED
          BY <4>1, <4>2, <4>3, AcksCases
      <3> QED
        BY <3>1, <3>2, <3>3 DEF WriteHeld
    <2> QED
      BY <2>3, <2>4
  <1>5. WriteHeld(s, n, t)' \/ WriteDoomed(s, t)'
    BY <1>0, <1>1, <1>3, <1>4 DEF WaitingOK
  <1>6. write'[s].index = n /\ write'[s].term = t
    BY <1>1
  <1> QED
    BY <1>5, <1>6

\* No answer counts for a write that was added just now.
LEMMA NoAckYet ==
    ASSUME SafetyInv, Step, NEW s \in Server, NEW n, NEW t, Adds(s, n, t),
           \/ EvaluateVoteResult(s)
           \/ AddRaftEntry(s) /\ role[s] = "leader"
    PROVE  Acks(s)' = {}
  <1>0. TypeOK /\ CallsOK
    BY DEF SafetyInv
  <1>1. /\ call' = call /\ replicated'[s] = {} /\ write'[s].index = n
        /\ log[s][n] = NoLog
    BY DEF Adds
  <1>2. ASSUME NEW p \in Server, call[s][p] # Nil, ConfirmsWrite(s, call[s][p].args)'
        PROVE  FALSE
    <2>1. role[s] # "candidate"
      BY <1>0, <1>2 DEF CallsOK, CallOK
    <2>2. role[s] = "leader"
      BY <2>1, NewLeadersTerm
    <2>3. call[s][p].args.entry # NoLog /\ call[s][p].args.index = n
      BY <1>1, <1>2 DEF ConfirmsWrite
    <2>4. log[s][call[s][p].args.index] = call[s][p].args.entry
      BY <1>0, <1>2, <2>2, <2>3 DEF CallsOK, CallOK
    <2> QED
      BY <1>1, <2>3, <2>4
  <1> QED
    BY <1>1, <1>2 DEF Acks

\* A write the leader has added just now.
LEMMA NewWaiting ==
    ASSUME SafetyInv, Step, NEW s \in Server, NEW n, NEW t, Adds(s, n, t),
           t = currentTerm[s],
           \/ EvaluateVoteResult(s)
           \/ AddRaftEntry(s) /\ role[s] = "leader"
    PROVE  WriteHeld(s, n, t)' \/ WriteDoomed(s, t)'
  <1>0. /\ TypeOK /\ TypeOK' /\ LogsOK /\ LeadersOK /\ CallsOK /\ CallsOK
        /\ TermsOK /\ OwnersOK /\ OwnersOK'
    BY TypesStep, OwnersStep DEF SafetyInv
  <1>1. /\ n \in Index /\ t \in Term /\ n - 1 = lastLogIndex[s] /\ log'[s][n] = t
        /\ written' = written \cup {<<n, t, log[s][n - 1]>>}
        /\ currentTerm' = currentTerm /\ call' = call
        /\ write'[s] # Nil /\ write'[s].term = t
    BY DEF Adds
  <1>2. n \in Nat /\ t \in Nat /\ t # NoLog
    BY <1>1 DEF Index, Term, NoLog
  <1>3. Acks(s)' = {}
    BY NoAckYet
  <1>4. ASSUME NEW l \in written, l[2] > t
        PROVE  WriteDoomed(s, t)'
    <2>1. PICK Q \in SUBSET Server : IsMajority(Q) /\ \A q \in Q : currentTerm[q] >= l[2]
      BY <1>0 DEF TermsOK, Taken
    <2>2. l[2] \in Nat
      BY <1>0 DEF TypeOK, Term
    <2>3. ASSUME NEW q \in Q PROVE currentTerm'[q] > t
      <3>1. currentTerm[q] \in Nat
        BY <1>0, LogType
      <3> QED
        BY <1>1, <1>2, <1>4, <2>1, <2>2, <3>1
    <2>4. IsMajority(Q)'
      BY <2>1 DEF IsMajority
    <2> QED
      BY <1>3, <2>3, <2>4 DEF WriteDoomed
  <1>5. ASSUME \A l \in written : ~(l[2] > t)
        PROVE  WriteHeld(s, n, t)'
    <2>1. ASSUME NEW l \in written, l[2] = t
          PROVE  l[1] < n
      <3>1. role[s] = "leader"
        BY <2>1, NewLeadersTerm
      <3>2. log[s][l[1]] = t
        BY <1>0, <2>1, <3>1 DEF LeadersOK
      <3>3. l[1] \in Index
        BY <1>0 DEF TypeOK
      <3>4. l[1] <= lastLogIndex[s]
        BY <1>0, <1>2, <3>2, <3>3, LastLog
      <3> QED
        BY <1>1, <1>2, <3>3, <3>4 DEF Index
    <2>2. GrowsAbove(n, t)'
      <3> SUFFICES ASSUME NEW l \in written', AtOrAfter(l[1], l[2], n, t)
                   PROVE  l[1] = n /\ l[2] = t
        BY <1>2 DEF GrowsAbove, AtOrAfter
      <3>1. CASE l \in written
        <4>1. l[1] \in Nat
          BY <1>0, <3>1 DEF TypeOK, Index
        <4>2. l[2] = t /\ l[1] >= n
          BY <1>5, <3>1 DEF AtOrAfter
        <4> QED
          BY <1>2, <2>1, <3>1, <4>1, <4>2
      <3>2. CASE l = <<n, t, log[s][n - 1]>>
        BY <3>2
      <3> QED
        BY <1>1, <3>1, <3>2
    <2>3. ASSUME NEW y \in Server
          PROVE  CallKeeps(call[y][s], s, n, t)'
      <3> SUFFICES ASSUME call[y][s] # Nil, call[y][s].args.term >= currentTerm[s]
                   PROVE  FALSE
        BY <1>1 DEF CallKeeps
      <3>1. PICK u : u = call[y][s].args.term
        OBVIOUS
      <3>2. u \in Term /\ u \in Nat
        BY <1>0, <3>1, CallFields DEF Term
      <3>3. Owns(y, u) /\ Owns(y, u)'
        BY <1>1, <3>1 DEF Owns
      <3>4. CASE u = t
        <4>1. Owns(s, t)'
          BY <1>1 DEF Owns
        <4>2. y = s
          BY <1>0, <1>1, <3>3, <3>4, <4>1 DEF OwnersOK
        <4> QED
          BY <1>0, <4>2 DEF CallsOK, CallOK
      <3>5. CASE u # t
        <4>1. u > t
          BY <1>2, <3>1, <3>2, <3>5
        <4>2. \E l \in written : l[2] = u
          BY <1>0, <3>2, <3>3 DEF OwnersOK
        <4> QED
          BY <1>5, <4>1, <4>2
      <3> QED
        BY <3>4, <3>5
    <2>4. Keeps(s, n, t)'
      BY <1>1, <2>3 DEF Keeps
    <2> QED
      BY <1>3, <2>2, <2>4 DEF WriteHeld
  <1> QED
    BY <1>4, <1>5

LEMMA WaitingStep ==
    ASSUME SafetyInv, Prompt, Step
    PROVE  WaitingOK'
  <1>1. ASSUME NEW s \in Server, Waiting(s)'
        PROVE  \/ WriteHeld(s, write[s].index, write[s].term)'
               \/ WriteDoomed(s, write[s].term)'
    <2>1. CASE Waiting(s) /\ write'[s] = write[s]
      BY <2>1, OldWaiting
    <2>2. ASSUME Adds(s, write'[s].index, write'[s].term), write'[s].term = currentTerm[s],
                 \/ EvaluateVoteResult(s)
                 \/ AddRaftEntry(s) /\ role[s] = "leader"
          PROVE  \/ WriteHeld(s, write[s].index, write[s].term)'
                 \/ WriteDoomed(s, write[s].term)'
      <3>1. PICK n, t : n = write'[s].index /\ t = write'[s].term
        OBVIOUS
      <3>2. WriteHeld(s, n, t)' \/ WriteDoomed(s, t)'
        BY <2>2, <3>1, NewWaiting
      <3> QED
        BY <3>1, <3>2
    <2> QED
      BY <1>1, <2>1, <2>2, WaitingCases
  <1> QED
    BY <1>1 DEF WaitingOK, WriteHeld, WriteDoomed

\* What a server keeps because it is chosen.
KeepsChosen(s, i) ==
    /\ Keeps(s, i, log[s][i])
    /\ \E t \in 1..currentTerm[s] : Chosen(i, log[s][i], t)

LEMMA KeepsChosenStable ==
    ASSUME SafetyInv, Step, NEW s \in Server, NEW i \in Index, KeepsChosen(s, i)
    PROVE  KeepsChosen(s, i)' /\ log'[s][i] = log[s][i]
  <1>0. TypeOK /\ LogsOK' /\ TreeOK'
    BY LogsStep, TreeStep DEF SafetyInv
  <1>1. PICK k : k = log[s][i]
    OBVIOUS
  <1>2. PICK t \in 1..currentTerm[s] : Chosen(i, k, t)
    BY <1>1 DEF KeepsChosen
  <1>3. currentTerm[s] \in Term /\ currentTerm[s] \in Nat /\ currentTerm'[s] \in Nat
        /\ currentTerm'[s] >= currentTerm[s]
    BY <1>0, LogType, RoleChange
  <1>4. t \in Term /\ t <= currentTerm[s] /\ t \in 1..currentTerm'[s]
    BY <1>3, BoundAssumption DEF Term
  <1>5. Keeps(s, i, k)'
    BY <1>1, <1>2, <1>4, ChosenKeeps DEF KeepsChosen
  <1>6. log'[s][i] = k
    BY <1>5 DEF Keeps
  <1>7. Chosen(i, k, t)'
    BY <1>0, <1>2, <1>4, ChosenStable
  <1> QED
    BY <1>1, <1>4, <1>5, <1>6, <1>7 DEF KeepsChosen

\* The commit index a follower takes from a call is true.
LEMMA AcceptedChosen ==
    ASSUME SafetyInv, Step, NEW x \in Server, NEW s \in Server,
           AppendEntriesGetReply(x, s), Accepts(x, s),
           NEW i \in Index, i <= FollowerCommitIndex(call[x][s].args)
    PROVE  KeepsChosen(s, i)'
  <1>0. TypeOK /\ LogsOK /\ TreeOK /\ CallsOK /\ LogsOK' /\ TreeOK'
    BY LogsStep, TreeStep DEF SafetyInv
  <1>1. PICK a : a = call[x][s].args
    OBVIOUS
  <1>2. AcceptedCall(x, s, a) /\ AcceptedLogs(s, a) /\ AcceptedRest(x, s, a)
    BY <1>1, AcceptEffect
  <1>3. /\ a.pre \in Index /\ a.preTerm \in Term /\ a.term \in Term
        /\ log[s][a.pre] = a.preTerm /\ currentTerm'[s] = a.term
        /\ FollowerCommitIndex(a) \in Index /\ FollowerCommitIndex(a) <= a.pre
        /\ call[x][s] # Nil
    BY <1>2 DEF AcceptedCall, AcceptedRest
  <1>4. CommitTrue(a)
    BY <1>0, <1>1, <1>3 DEF CallsOK, CallOK
  <1>5. PICK n \in Index, t \in 1..a.term :
          /\ Settled(n, t)
          /\ \/ AtOrAfter(a.pre, a.preTerm, n, t) /\ FollowerCommitIndex(a) <= n
             \/ a.pre <= n /\ Below(a.pre, a.preTerm, n, t)
    BY <1>4 DEF CommitTrue
  <1>6. t \in Term /\ t <= a.term /\ t # NoLog
    BY <1>3, BoundAssumption DEF Term, NoLog
  <1>7. /\ i \in Nat /\ n \in Nat /\ a.pre \in Nat /\ FollowerCommitIndex(a) \in Nat
        /\ i <= a.pre /\ a.preTerm # NoLog
    <2>1. /\ i \in Nat /\ n \in Nat /\ a.pre \in Nat /\ FollowerCommitIndex(a) \in Nat
          /\ a.preTerm # NoLog
      BY <1>3 DEF Index, Term, NoLog
    <2> QED
      BY <1>1, <1>3, <2>1
  <1>8. PICK k : k = log[s][i]
    OBVIOUS
  <1>9. i <= n /\ Below(i, k, n, t) /\ (i = n => k = t)
    <2>1. CASE AtOrAfter(a.pre, a.preTerm, n, t) /\ FollowerCommitIndex(a) <= n
      <3>1. a.pre >= n /\ log[s][n] = t
        <4>1. PICK m \in Index, u \in Term : m = a.pre /\ u = a.preTerm
          BY <1>3
        <4>2. AtOrAfter(m, u, n, t) /\ log[s][m] = u
          BY <1>3, <2>1, <4>1
        <4>3. m >= n /\ log[s][n] = t
          BY <1>0, <1>5, <1>6, <4>2, SettledAbove
        <4> QED
          BY <4>1, <4>3
      <3>2. Below(n, log[s][n], n, t)
        BY <3>1 DEF Below
      <3>3. i <= n
        BY <1>1, <1>7, <2>1
      <3>4. Below(i, k, n, t)
        BY <1>0, <1>6, <1>8, <3>1, <3>2, <3>3, BelowPath
      <3> QED
        BY <1>8, <3>1, <3>3, <3>4
    <2>2. CASE a.pre <= n /\ Below(a.pre, a.preTerm, n, t)
      <3>1. i <= n
        BY <1>7, <2>2
      <3>2. Below(i, k, n, t)
        BY <1>0, <1>3, <1>7, <1>8, <2>2, BelowPath
      <3>3. ASSUME i = n PROVE k = t
        <4>1. PICK q \in Server : log[q][n] = t
          BY <1>5, SettledHeld
        <4>2. log[q][i] = k
          BY <3>2, <4>1 DEF Below
        <4> QED
          BY <3>3, <4>1, <4>2
      <3> QED
        BY <3>1, <3>2, <3>3
    <2> QED
      BY <1>5, <2>1, <2>2
  <1>10. log'[s][i] = k
    BY <1>2, <1>7, <1>8 DEF AcceptedLogs
  <1>11. Keeps(s, i, k)'
    <2>1. GrowsAbove(n, t)
      BY <1>5, SettledHeld
    <2>2. i <= call[x][s].args.pre + 1 /\ t <= call[x][s].args.term
      BY <1>1, <1>6, <1>7
    <2> QED
      BY <1>6, <1>9, <1>10, <2>1, <2>2, AcceptKeeps
  <1>12. Chosen(i, k, t)'
    <2>1. Chosen(i, k, t)
      BY <1>5, <1>9 DEF Chosen
    <2> QED
      BY <1>0, <1>6, <2>1, ChosenStable
  <1> QED
    BY <1>3, <1>5, <1>10, <1>11, <1>12 DEF KeepsChosen

LEMMA CommitKeepsChosen ==
    ASSUME SafetyInv, Step, NEW s \in Server, CommitWrite(s),
           NEW i \in Index, i <= lastLogIndex[s]
    PROVE  KeepsChosen(s, i)'
  <1>0. TypeOK /\ LogsOK' /\ TreeOK'
    BY LogsStep, TreeStep DEF SafetyInv
  <1>1. PICK k : k = log[s][i]
    OBVIOUS
  <1>2. log' = log /\ call' = call /\ currentTerm' = currentTerm
    BY CommitEffect
  <1>3. Keeps(s, lastLogIndex[s], currentTerm[s])
    BY <1>0, CommitSettles
  <1>4. Keeps(s, i, k)
    <2>1. lastLogIndex[s] \in Index /\ currentTerm[s] \in Term
      BY <1>0 DEF TypeOK
    <2> QED
      BY <1>1, <1>3, <2>1, KeepsBelow
  <1>5. Keeps(s, i, k)'
    BY <1>2, <1>4 DEF Keeps, CallKeeps
  <1>6. Chosen(i, log[s][i], currentTerm[s])'
    BY CommitChooses
  <1>7. currentTerm'[s] \in 1..currentTerm'[s] /\ log'[s][i] = k
    <2>1. currentTerm[s] \in Term
      BY <1>0, LogType
    <2> QED
      BY <1>1, <1>2, <2>1 DEF Term
  <1> QED
    BY <1>5, <1>6, <1>7 DEF KeepsChosen

LEMMA AppliedStep ==
    ASSUME SafetyInv, Step
    PROVE  AppliedOK'
  <1>0. TypeOK /\ LogsOK /\ AppliedOK
    BY DEF SafetyInv
  <1> SUFFICES ASSUME NEW s \in Server, NEW i \in Index,
                      i <= lastApplied'[s] \/ i <= indexToApply'[s] \/ i <= commitIndex'[s]
               PROVE  KeepsChosen(s, i)'
    BY DEF AppliedOK, KeepsChosen
  <1>1. /\ i \in Nat /\ i > 0 /\ lastApplied[s] \in Nat /\ indexToApply[s] \in Nat
        /\ commitIndex[s] \in Nat
    BY <1>0 DEF TypeOK, Index
  <1>2. ASSUME i <= lastApplied[s] \/ i <= indexToApply[s] \/ i <= commitIndex[s]
        PROVE  KeepsChosen(s, i)'
    <2>1. KeepsChosen(s, i)
      BY <1>0, <1>2 DEF AppliedOK, KeepsChosen
    <2> QED
      BY <2>1, KeepsChosenStable
  <1>3. CASE CommitWrite(s)
    <2>1. /\ lastApplied'[s] \in Index /\ lastApplied'[s] <= lastLogIndex[s]
          /\ commitIndex'[s] = lastLogIndex[s] /\ indexToApply' = indexToApply
          /\ lastLogIndex[s] \in Index
      BY <1>3, CommitEffect
    <2>2. i <= lastLogIndex[s] \/ i <= indexToApply[s]
      BY <1>1, <2>1 DEF Index
    <2> QED
      BY <1>2, <1>3, <2>2, CommitKeepsChosen
  <1>4. CASE ApplyLog(s)
    <2>1. /\ lastApplied'[s] = lastApplied[s] + 1 /\ lastApplied'[s] <= indexToApply[s]
          /\ commitIndex'[s] = commitIndex[s] \/ commitIndex'[s] = lastApplied'[s]
          /\ indexToApply' = indexToApply
      BY <1>0, <1>4, ApplyLogEffect
    <2> QED
      BY <1>1, <1>2, <2>1
  <1>5. CASE Restart(s)
    <2>1. /\ lastApplied'[s] \in Index /\ lastApplied'[s] <= lastApplied[s]
          /\ commitIndex'[s] = lastApplied'[s] /\ indexToApply'[s] = 0
      BY <1>0, <1>5, RestartEffect
    <2>2. i <= lastApplied[s]
      BY <1>1, <2>1 DEF Index
    <2> QED
      BY <1>2, <2>2
  <1>6. ASSUME NEW x \in Server, AppendEntriesGetReply(x, s), Accepts(x, s)
        PROVE  KeepsChosen(s, i)'
    <2>1. /\ lastApplied' = lastApplied
          /\ commitIndex'[s] = FollowerCommitIndex(call[x][s].args)
          /\ indexToApply'[s] = FollowerCommitIndex(call[x][s].args)
      BY <1>6, AcceptEffect DEF AcceptedRest
    <2> QED
      BY <1>2, <1>6, <2>1, AcceptedChosen
  <1>7. CASE /\ lastApplied'[s] = lastApplied[s] /\ indexToApply'[s] = indexToApply[s]
             /\ commitIndex'[s] = commitIndex[s]
    BY <1>2, <1>7
  <1> QED
    BY <1>3, <1>4, <1>5, <1>6, <1>7, AppliedChange

LEMMA GuardFromIndexes ==
    ASSUME NEW b \in Index, NEW d \in 0..MaxIndex, NEW i \in Int, i >= 0,
           \A j \in Index : j <= b \/ j <= d => j <= i
    PROVE  b <= i /\ d <= i
  <1>1. b <= i
    BY DEF Index
  <1>2. CASE d = 0
    BY <1>1, <1>2
  <1>3. CASE d # 0
    <2>1. d \in Index /\ d <= d
      BY <1>3, BoundAssumption DEF Index
    <2> QED
      BY <1>1, <2>1
  <1> QED
    BY <1>2, <1>3

\* What a server has applied or may apply it keeps.
LEMMA AppliedKept ==
    ASSUME SafetyInv, NEW p \in Server, NEW j \in Index,
           j <= lastApplied[p] \/ j <= indexToApply[p] \/ j <= commitIndex[p]
    PROVE  /\ KeepsChosen(p, j)
           /\ log[p][j] \in Term
           /\ \E t \in Term : t <= currentTerm[p] /\ Chosen(j, log[p][j], t)
  <1>0. TypeOK /\ LogsOK /\ AppliedOK
    BY DEF SafetyInv
  <1>1. KeepsChosen(p, j)
    BY <1>0 DEF AppliedOK, KeepsChosen
  <1>2. PICK t \in 1..currentTerm[p] : Chosen(j, log[p][j], t)
    BY <1>1 DEF KeepsChosen
  <1>3. currentTerm[p] \in Term
    BY <1>0, LogType
  <1>4. t \in Term /\ t <= currentTerm[p]
    BY <1>3, BoundAssumption DEF Term
  <1>5. log[p][j] \in Term
    BY <1>0, <1>2, <1>4, ChosenIsLog
  <1> QED
    BY <1>1, <1>2, <1>4, <1>5

\* A leader of a term at or after that of p has at least the logs p has applied.
LEMMA LeaderNotBehind ==
    ASSUME SafetyInv, NEW s \in Server, role[s] = "leader", NEW p \in Server,
           currentTerm[p] <= currentTerm[s], NEW j \in Index,
           j <= lastApplied[p] \/ j <= indexToApply[p]
    PROVE  j <= lastLogIndex[s]
  <1>0. TypeOK /\ LogsOK /\ TreeOK /\ LeadersOK
    BY DEF SafetyInv
  <1>1. PICK t \in Term : t <= currentTerm[p] /\ Chosen(j, log[p][j], t)
    BY AppliedKept
  <1>2. currentTerm[s] \in Nat /\ currentTerm[p] \in Nat
    BY <1>0, LogType
  <1>3. currentTerm[s] >= t
    BY <1>1, <1>2 DEF Term
  <1>4. lastLogIndex[s] >= j
    BY <1>0, <1>1, <1>3, ChosenLeader
  <1> QED
    BY <1>0, <1>4, LastLog DEF Index

\* Neither is a candidate that is elected.
LEMMA ElectedNotBehind ==
    ASSUME SafetyInv, NEW s \in Server, EvaluateVoteResult(s), NEW p \in Server,
           currentTerm[p] <= currentTerm[s], NEW j \in Index,
           j <= lastApplied[p] \/ j <= indexToApply[p]
    PROVE  j <= lastLogIndex[s]
  <1>0. TypeOK /\ LogsOK /\ TreeOK
    BY DEF SafetyInv
  <1>1. PICK t \in Term : t <= currentTerm[p] /\ Chosen(j, log[p][j], t)
    BY AppliedKept
  <1>2. PICK n \in Index : j <= n /\ Settled(n, t)
    BY <1>1 DEF Chosen
  <1>3. currentTerm[s] \in Nat /\ currentTerm[p] \in Nat /\ t \in Nat /\ n \in Nat /\ j \in Nat
    BY <1>0, LogType DEF Term, Index
  <1>4. /\ IsMajority(votes[s]) /\ role[s] = "candidate"
        /\ \A l \in written : l[2] # currentTerm[s]
    BY NewLeadersTerm
  <1>5. GrowsAbove(n, t) /\ IsWritten(n, t)
    BY <1>2, SettledHeld
  <1>6. currentTerm[s] > t
    <2>1. currentTerm[s] # t
      BY <1>4, <1>5 DEF IsWritten
    <2> QED
      BY <1>1, <1>3, <2>1
  <1>7. LastAtOrAfter(s, n, t)
    <2>1. PICK Q \in SUBSET Server : IsMajority(Q) /\ \A q \in Q : Holds(q, n, t)
      BY <1>2 DEF Settled
    <2>2. PICK q \in Server : q \in Q /\ q \in votes[s]
      BY <1>4, <2>1, MajoritiesMeet
    <2> QED
      BY <1>4, <1>6, <2>1, <2>2 DEF Holds
  <1>8. /\ lastLogIndex[s] \in Index /\ lastLogIndex[s] \in Nat
        /\ log[s][lastLogIndex[s]] # NoLog
        /\ AtOrAfter(lastLogIndex[s], log[s][lastLogIndex[s]], n, t)
    <2>1. /\ lastLogIndex[s] \in Index /\ log[s][lastLogIndex[s]] \in Term
          /\ lastLogTerm[s] \in Term /\ lastLogTerm[s] <= log[s][lastLogIndex[s]]
      BY <1>0, LastLog
    <2>2. AtOrAfter(lastLogIndex[s], lastLogTerm[s], n, t)
      BY <1>7 DEF LastAtOrAfter
    <2> QED
      BY <1>3, <2>1, <2>2 DEF AtOrAfter, Index, Term, NoLog
  <1>9. lastLogIndex[s] >= n
    <2>1. Path(log[s], written) /\ log[s] \in [Index -> Term \cup {NoLog}]
      BY <1>0, LogType DEF TreeOK
    <2> QED
      BY <1>0, <1>5, <1>8, <2>1, InRegion
  <1> QED
    BY <1>2, <1>3, <1>8, <1>9

\* The index below which a call must not find applied logs.
CallBound(c) == IF c.st = "answered" /\ c.status # 0 THEN c.args.pre - 1 ELSE c.args.pre

\* A call of a term that p has not met starts above what p takes for committed.
LEMMA LaterCallAhead ==
    ASSUME SafetyInv, NEW s \in Server, NEW p \in Server, call[s][p] # Nil,
           call[s][p].args.term > currentTerm[p],
           NEW n \in Index, NEW t \in Term, GrowsAbove(n, t), call[s][p].args.term > t
    PROVE  CallBound(call[s][p]) = call[s][p].args.pre /\ n <= call[s][p].args.pre
  <1>0. TypeOK /\ CallsOK
    BY DEF SafetyInv
  <1>1. /\ call[s][p].args.term \in Nat /\ call[s][p].args.pre \in Nat
        /\ call[s][p].st \in {"sent", "answered"}
        /\ call[s][p].st = "answered" => call[s][p].term \in Nat
        /\ currentTerm[p] \in Nat
    BY <1>0, CallFields, LogType DEF Term, Index
  <1>2. call[s][p].st = "answered" => /\ call[s][p].args.term <= call[s][p].term
                                      /\ call[s][p].term <= currentTerm[p]
    BY <1>0 DEF CallsOK, CallOK
  <1>3. call[s][p].st # "answered"
    BY <1>1, <1>2
  <1>4. call[s][p].st = "sent"
    BY <1>1, <1>3
  <1>5. FirstCall(call[s][p].args)
    BY <1>0, <1>4 DEF CallsOK, CallOK
  <1>6. call[s][p].args.pre > n \/ call[s][p].args.pre = n
    BY <1>5, FirstCallAbove
  <1>7. n \in Nat
    BY DEF Index
  <1> QED
    BY <1>1, <1>3, <1>6, <1>7 DEF CallBound

\* What a write commits, or a call tells to be committed, is settled.
LEMMA CommitGrows ==
    ASSUME SafetyInv, Step, NEW s \in Server, CommitWrite(s)
    PROVE  /\ lastLogIndex[s] \in Index /\ currentTerm[s] \in Term
           /\ GrowsAbove(lastLogIndex[s], currentTerm[s])
           /\ IsWritten(lastLogIndex[s], currentTerm[s])
           /\ lastApplied'[s] <= lastLogIndex[s] /\ lastApplied'[s] \in Index
           /\ indexToApply' = indexToApply
  <1>0. TypeOK
    BY DEF SafetyInv
  <1>1. PICK n \in Index, t \in Term : n = lastLogIndex[s] /\ t = currentTerm[s]
    BY <1>0 DEF TypeOK
  <1>2. /\ lastLogIndex' = lastLogIndex /\ currentTerm' = currentTerm /\ written' = written
        /\ lastApplied'[s] <= lastLogIndex[s] /\ lastApplied'[s] \in Index
        /\ indexToApply' = indexToApply
    BY CommitEffect
  <1>3. Settled(lastLogIndex[s], currentTerm[s])'
    BY LogsStep, TreeStep, CommitSettles
  <1>4. Settled(n, t)'
    BY <1>1, <1>2, <1>3
  <1>5. GrowsAbove(n, t)' /\ IsWritten(n, t)'
    BY <1>4 DEF Settled
  <1>6. GrowsAbove(n, t) /\ IsWritten(n, t)
    BY <1>2, <1>5 DEF GrowsAbove, IsWritten
  <1> QED
    BY <1>1, <1>2, <1>6

LEMMA AcceptGrows ==
    ASSUME SafetyInv, NEW x \in Server, NEW s \in Server, AppendEntriesGetReply(x, s),
           Accepts(x, s)
    PROVE  \E n \in Index, t \in Term :
              /\ GrowsAbove(n, t) /\ IsWritten(n, t)
              /\ t <= call[x][s].args.term
              /\ indexToApply'[s] \in Index /\ indexToApply'[s] <= n
              /\ indexToApply'[s] <= call[x][s].args.pre
              /\ indexToApply'[s] <= call[x][s].args.commit
  <1>0. TypeOK /\ CallsOK
    BY DEF SafetyInv
  <1>1. PICK a : a = call[x][s].args
    OBVIOUS
  <1>2. AcceptedCall(x, s, a) /\ AcceptedRest(x, s, a)
    BY <1>1, AcceptEffect
  <1>3. /\ a.pre \in Index /\ a.term \in Term /\ call[x][s] # Nil
        /\ FollowerCommitIndex(a) \in Index /\ FollowerCommitIndex(a) <= a.pre
        /\ FollowerCommitIndex(a) <= a.commit
        /\ indexToApply'[s] = FollowerCommitIndex(a)
    BY <1>2 DEF AcceptedCall, AcceptedRest
  <1>4. CommitTrue(a)
    BY <1>0, <1>1, <1>3 DEF CallsOK, CallOK
  <1>5. PICK n \in Index, t \in 1..a.term :
          /\ Settled(n, t)
          /\ FollowerCommitIndex(a) <= n \/ a.pre <= n
    BY <1>4 DEF CommitTrue
  <1>6. t \in Term /\ t <= a.term
    BY <1>3, BoundAssumption DEF Term
  <1>7. FollowerCommitIndex(a) <= n
    BY <1>3, <1>5 DEF Index
  <1> QED
    BY <1>1, <1>3, <1>5, <1>6, <1>7, SettledHeld

\* A call that does not change.
LEMMA AheadSame ==
    ASSUME SafetyInv, Step, NEW s \in Server, NEW p \in Server, call[s][p] # Nil,
           call'[s][p] = call[s][p], call[s][p].args.term >= currentTerm'[p]
    PROVE  ApplyGuard(p, CallBound(call[s][p]))'
  <1>0. TypeOK /\ TypeOK' /\ LogsOK /\ LeadersOK /\ CallsOK /\ OwnersOK /\ AheadOK
    BY TypesStep DEF SafetyInv
  <1>1. PICK b : b = CallBound(call[s][p])
    OBVIOUS
  <1>2. PICK a : a = call[s][p].args
    OBVIOUS
  <1>3. a.pre \in Nat /\ a.term \in Term /\ a.term \in Nat /\ b \in Int
    <2>1. a.pre \in Index /\ a.term \in Term
      BY <1>0, <1>2, CallFields
    <2> QED
      BY <1>1, <1>2, <2>1 DEF CallBound, Index, Term
  <1>4. /\ currentTerm[p] \in Nat /\ currentTerm'[p] \in Nat
        /\ currentTerm'[p] >= currentTerm[p]
    BY RoleChange
  <1>5. a.term >= currentTerm[p]
    BY <1>2, <1>3, <1>4
  <1>6. lastApplied[p] <= b /\ indexToApply[p] <= b
    BY <1>0, <1>1, <1>2, <1>5 DEF AheadOK, ApplyGuard, CallBound
  <1>7. lastApplied[p] \in Nat /\ indexToApply[p] \in Nat
    <2>1. lastApplied[p] \in Index /\ indexToApply[p] \in 0..MaxIndex
      BY <1>0 DEF TypeOK
    <2> QED
      BY <2>1 DEF Index
  <1>8. lastApplied'[p] <= b /\ indexToApply'[p] <= b
    <2>1. CASE lastApplied'[p] = lastApplied[p] /\ indexToApply'[p] = indexToApply[p]
      BY <1>6, <2>1
    <2>2. CASE ApplyLog(p)
      <3>1. /\ lastApplied'[p] = lastApplied[p] + 1 /\ lastApplied'[p] <= indexToApply[p]
            /\ indexToApply' = indexToApply
        BY <1>0, <2>2, ApplyLogEffect
      <3> QED
        BY <1>3, <1>6, <1>7, <3>1
    <2>3. CASE Restart(p)
      <3>1. call'[s][p] = Nil
        BY <1>0, <2>3, RestartEffect
      <3> QED
        BY <3>1
    <2>4. CASE CommitWrite(p)
      <3>1. PICK n \in Index, t \in Term : n = lastLogIndex[p] /\ t = currentTerm[p]
        BY <2>4, CommitGrows
      <3>2. /\ GrowsAbove(n, t) /\ lastApplied'[p] <= n /\ lastApplied'[p] \in Nat
            /\ indexToApply' = indexToApply /\ n \in Nat
        BY <2>4, <3>1, CommitGrows DEF Index
      <3>3. a.term # t
        <4> SUFFICES ASSUME a.term = t PROVE FALSE
          OBVIOUS
        <4>1. role[p] = "leader"
          BY <2>4, CommitEffect
        <4>2. Owns(s, t) /\ Owns(p, t)
          BY <1>2, <3>1, <4>1 DEF Owns
        <4>3. s = p
          BY <1>0, <3>1, <4>2 DEF OwnersOK
        <4> QED
          BY <1>0, <4>3 DEF CallsOK, CallOK
      <3>4. a.term > t /\ a.term > currentTerm[p]
        BY <1>3, <1>4, <1>5, <3>1, <3>3
      <3>5. b = a.pre /\ n <= a.pre
        BY <1>1, <1>2, <3>2, <3>4, LaterCallAhead
      <3> QED
        BY <1>3, <1>6, <3>2, <3>5
    <2>5. ASSUME NEW x \in Server, AppendEntriesGetReply(x, p), Accepts(x, p)
          PROVE  lastApplied'[p] <= b /\ indexToApply'[p] <= b
      <3>1. PICK u : u = call[x][p].args.term
        OBVIOUS
      <3>2. /\ lastApplied' = lastApplied /\ call'[x][p].st = "answered"
            /\ currentTerm'[p] = u /\ u \in Term /\ call[x][p].st = "sent"
            /\ u >= currentTerm[p] /\ call[x][p] # Nil
        <4>1. AcceptedCall(x, p, call[x][p].args) /\ AcceptedRest(x, p, call[x][p].args)
          BY <2>5, AcceptEffect
        <4>2. lastApplied' = lastApplied /\ call'[x][p].st = "answered"
          BY <4>1 DEF AcceptedRest, Answered
        <4> QED
          BY <3>1, <4>1, <4>2 DEF AcceptedCall
      <3>3. x # s
        BY <3>2
      <3>4. a.term # u
        <4> SUFFICES ASSUME a.term = u PROVE FALSE
          OBVIOUS
        <4>1. Owns(s, u) /\ Owns(x, u)
          BY <1>2, <3>1, <3>2 DEF Owns
        <4> QED
          BY <1>0, <3>2, <3>3, <4>1 DEF OwnersOK
      <3>5. u \in Nat
        BY <3>2 DEF Term
      <3>6. a.term > u /\ a.term > currentTerm[p]
        BY <1>2, <1>3, <1>4, <3>2, <3>4, <3>5
      <3>7. PICK n \in Index, t \in Term :
              /\ GrowsAbove(n, t) /\ t <= u
              /\ indexToApply'[p] \in Index /\ indexToApply'[p] <= n
        BY <2>5, <3>1, AcceptGrows
      <3>8. t \in Nat /\ n \in Nat /\ indexToApply'[p] \in Nat
        BY <3>7 DEF Term, Index
      <3>9. a.term > t
        BY <1>3, <3>5, <3>6, <3>7, <3>8
      <3>10. b = a.pre /\ n <= a.pre
        BY <1>1, <1>2, <3>6, <3>7, <3>9, LaterCallAhead
      <3> QED
        BY <1>3, <1>6, <3>2, <3>7, <3>8, <3>10
    <2> QED
      BY <2>1, <2>2, <2>3, <2>4, <2>5, AppliedChange
  <1>9. CallBound(call[s][p])' = b
    BY <1>1 DEF CallBound
  <1> QED
    BY <1>8, <1>9 DEF ApplyGuard

\* A new call starts where the peer has applied nothing yet.
LEMMA AheadSent ==
    ASSUME SafetyInv, Step, NEW s \in Server, NEW p \in Server, NEW pre, NEW entry,
           SentCall(s, p, pre, entry),
           \/ SendAppend(s, p)
           \/ SendPing(s, p) /\ pre = lastLogIndex[s]
           \/ ReplyMismatch(s, p) \/ ReplyMatch(s, p),
           currentTerm[s] >= currentTerm[p]
    PROVE  lastApplied[p] <= pre /\ indexToApply[p] <= pre
  <1>0. TypeOK /\ TypeOK' /\ LogsOK /\ LeadersOK /\ CallsOK /\ AheadOK
    BY TypesStep DEF SafetyInv
  <1>1. /\ role[s] = "leader" /\ pre \in Index /\ call'[s][p] # Nil
        /\ call'[s][p].args.pre = pre
    BY DEF SentCall
  <1>2. /\ currentTerm[s] \in Nat /\ currentTerm[p] \in Nat /\ pre \in Int /\ pre >= 0
        /\ currentTerm[p] <= currentTerm[s]
    BY <1>0, <1>1, LogType DEF Index
  <1>3. lastApplied[p] \in Index /\ indexToApply[p] \in 0..MaxIndex
    BY <1>0 DEF TypeOK
  <1> SUFFICES ASSUME NEW j \in Index, j <= lastApplied[p] \/ j <= indexToApply[p]
               PROVE  j <= pre
    <2>1. ASSUME \A j \in Index : j <= lastApplied[p] \/ j <= indexToApply[p] => j <= pre
          PROVE  lastApplied[p] <= pre /\ indexToApply[p] <= pre
      BY <1>2, <1>3, <2>1, GuardFromIndexes
    <2> QED
      BY <2>1
  <1>4. j \in Nat /\ lastApplied[p] \in Nat /\ indexToApply[p] \in Nat
    BY <1>3 DEF Index
  <1>5. CASE SendAppend(s, p)
    <2>1. /\ Waiting(s) /\ SentCall(s, p, write[s].index - 1, write[s].term)
      BY <1>0, <1>5, SendAppendEffect
    <2>2. pre = write[s].index - 1
      BY <1>1, <2>1 DEF SentCall
    <2>3. lastApplied[p] <= pre /\ indexToApply[p] <= pre
      BY <1>0, <1>2, <2>1, <2>2 DEF AheadOK, ApplyGuard
    <2> QED
      BY <1>2, <1>4, <2>3
  <1>6. CASE SendPing(s, p) /\ pre = lastLogIndex[s]
    BY <1>1, <1>2, <1>6, LeaderNotBehind
  <1>7. CASE ReplyMismatch(s, p)
    <2>1. PICK a, status : a = call[s][p].args /\ status = call[s][p].status
      OBVIOUS
    <2>2. /\ call[s][p] # Nil /\ call[s][p].st = "answered" /\ status # 0
          /\ \/ SentCall(s, p, SearchFrom(a, status) - 1, log[s][SearchFrom(a, status)])
             \/ Ended(s, p)
      BY <1>0, <1>7, <2>1, ReplyMismatchEffect
    <2>3. pre = SearchFrom(a, status) - 1
      BY <1>1, <2>2 DEF SentCall, Ended
    <2>4. a.pre \in Index /\ a.term = currentTerm[s] /\ status \in Nat
      <3>1. a.pre \in Index /\ status \in Nat
        BY <1>0, <2>1, <2>2, CallFields
      <3>2. a.term = currentTerm[s]
        BY <1>0, <1>1, <2>1, <2>2 DEF CallsOK, CallOK
      <3> QED
        BY <3>1, <3>2
    <2>5. CallKeeps(call[s][p], p, j, log[p][j])
      BY AppliedKept DEF KeepsChosen, Keeps
    <2>6. a.pre > j /\ status >= j
      BY <1>2, <2>1, <2>2, <2>4, <2>5 DEF CallKeeps
    <2> QED
      BY <1>4, <2>3, <2>4, <2>6, BoundAssumption DEF SearchFrom, Index
  <1>8. CASE ReplyMatch(s, p)
    <2>1. PICK a : a = call[s][p].args
      OBVIOUS
    <2>2. /\ call[s][p] # Nil /\ call[s][p].st = "answered" /\ call[s][p].status = 0
          /\ Ended(s, p) \/ \E e : SentCall(s, p, a.pre + 1, e)
      BY <1>0, <1>8, <2>1, ReplyMatchEffect
    <2>3. pre = a.pre + 1
      BY <1>1, <2>2 DEF SentCall, Ended
    <2>4. a.pre \in Nat /\ a.term = currentTerm[s]
      <3>1. a.pre \in Nat
        BY <1>0, <2>1, <2>2, CallFields DEF Index
      <3>2. a.term = currentTerm[s]
        BY <1>0, <1>1, <2>1, <2>2 DEF CallsOK, CallOK
      <3> QED
        BY <3>1, <3>2
    <2>5. lastApplied[p] <= a.pre /\ indexToApply[p] <= a.pre
      BY <1>0, <1>2, <2>1, <2>2, <2>4 DEF AheadOK, ApplyGuard
    <2> QED
      BY <1>4, <2>3, <2>4, <2>5
  <1> QED
    BY <1>5, <1>6, <1>7, <1>8

\* A call that was answered just now.
LEMMA AheadAnswered ==
    ASSUME SafetyInv, Step, AppliedOK', NEW s \in Server, NEW p \in Server,
           AppendEntriesGetReply(s, p), call[s][p] # Nil, call[s][p].st = "sent",
           Differs(s, p) \/ Accepts(s, p)
    PROVE  ApplyGuard(p, CallBound(call[s][p]))'
  <1>0. TypeOK /\ TypeOK' /\ LogsOK /\ AheadOK
    BY TypesStep DEF SafetyInv
  <1>1. PICK a : a = call[s][p].args
    OBVIOUS
  <1>2. a.pre \in Index /\ a.pre \in Nat /\ a.term \in Nat
    BY <1>0, <1>1, CallFields DEF Index, Term
  <1>3. lastApplied[p] \in Index /\ indexToApply[p] \in 0..MaxIndex
    BY <1>0 DEF TypeOK
  <1>4. lastApplied' = lastApplied
    BY HandlerStep
  <1>5. CASE Differs(s, p)
    <2>1. /\ call'[s][p].args = a /\ call'[s][p].st = "answered"
          /\ call'[s][p].status = lastLogIndex[p]
          /\ currentTerm'[p] = a.term /\ indexToApply' = indexToApply
      BY <1>1, <1>5 DEF Differs, Answered, Follows
    <2>2. lastLogIndex[p] # 0
      BY <1>0, LastLog DEF Index
    <2>3. call'[s][p] # Nil
      <3>1. call'[s][p] = [st |-> "answered", args |-> a, term |-> a.term,
                           status |-> lastLogIndex[p]]
        BY <1>1, <1>5 DEF Differs, Answered
      <3>2. a \in Args /\ a.term \in Term
        BY <1>0, <1>1, CallFields
      <3>3. lastLogIndex[p] \in Index
        BY <1>0, LastLog
      <3>4. lastLogIndex[p] \in 0..MaxIndex
        BY <3>3 DEF Index
      <3>5. call'[s][p] \in Call
        BY <3>1, <3>2, <3>4 DEF Call
      <3> QED
        BY <3>5, NilAssumption
    <2>4. ASSUME NEW j \in Index, j <= lastApplied[p] \/ j <= indexToApply[p]
          PROVE  j <= a.pre - 1
      <3>1. j <= lastApplied'[p] \/ j <= indexToApply'[p]
        BY <1>4, <2>1, <2>4
      <3>2. Keeps(p, j, log[p][j])'
        BY <3>1 DEF AppliedOK
      <3>3. CallKeeps(call[s][p], p, j, log[p][j])'
        BY <3>2 DEF Keeps
      <3>4. a.pre > j
        BY <1>2, <2>1, <2>2, <2>3, <3>3 DEF CallKeeps
      <3> QED
        BY <1>2, <3>4 DEF Index
    <2>5. lastApplied[p] <= a.pre - 1 /\ indexToApply[p] <= a.pre - 1
      <3>1. a.pre - 1 \in Int /\ a.pre - 1 >= 0
        BY <1>2 DEF Index
      <3> QED
        BY <1>3, <2>4, <3>1, GuardFromIndexes
    <2>6. CallBound(call[s][p])' = a.pre - 1
      BY <2>1, <2>2 DEF CallBound
    <2> QED
      BY <1>4, <2>1, <2>5, <2>6 DEF ApplyGuard
  <1>6. CASE Accepts(s, p)
    <2>1. AcceptedCall(s, p, a) /\ AcceptedRest(s, p, a)
      BY <1>1, <1>6, AcceptEffect
    <2>2. /\ call'[s][p].args = a /\ call'[s][p].status = 0
          /\ indexToApply'[p] <= a.pre /\ a.term >= currentTerm[p]
      BY <1>1, <2>1 DEF AcceptedCall, AcceptedRest, Answered
    <2>3. lastApplied[p] <= a.pre
      BY <1>0, <1>1, <2>2 DEF AheadOK, ApplyGuard
    <2>4. CallBound(call[s][p])' = a.pre
      BY <2>2 DEF CallBound
    <2> QED
      BY <1>4, <2>2, <2>3, <2>4 DEF ApplyGuard
  <1> QED
    BY <1>5, <1>6

\* A log that an earlier term has settled is below the write that s waits with.
LEMMA SettledBelowWrite ==
    ASSUME SafetyInv, NEW s \in Server, Waiting(s), NEW n \in Index, NEW t \in Term,
           GrowsAbove(n, t), IsWritten(n, t), t < currentTerm[s]
    PROVE  n <= write[s].index - 1
  <1>0. TypeOK /\ LogsOK /\ TreeOK /\ LeadersOK
    BY DEF SafetyInv
  <1>1. /\ role[s] = "leader" /\ write[s].index = lastLogIndex[s]
        /\ log[s][lastLogIndex[s]] = currentTerm[s]
    BY <1>0 DEF Waiting, LeadersOK
  <1>2. currentTerm[s] \in Nat /\ t \in Nat /\ n \in Nat /\ lastLogIndex[s] \in Nat
    BY <1>0, LogType, LastLog DEF Term, Index
  <1>3. currentTerm[s] >= t
    BY <1>2
  <1>4. log[s][n] = t /\ lastLogIndex[s] >= n
    BY <1>0, <1>1, <1>3, LeaderHas
  <1>5. n # lastLogIndex[s]
    BY <1>1, <1>2, <1>4
  <1> QED
    BY <1>1, <1>2, <1>4, <1>5

LEMMA AheadOldWaiting ==
    ASSUME SafetyInv, Step, NEW s \in Server, Waiting(s), Waiting(s)', write'[s] = write[s],
           currentTerm'[s] = currentTerm[s]
    PROVE  /\ commitIndex'[s] < write[s].index
           /\ \A p \in Server : currentTerm'[p] <= currentTerm[s] =>
                 lastApplied'[p] <= write[s].index - 1
                 /\ indexToApply'[p] <= write[s].index - 1
  <1>0. TypeOK /\ LogsOK /\ CallsOK /\ OwnersOK /\ LeadersOK /\ AheadOK
    BY DEF SafetyInv
  <1>1. role[s] = "leader" /\ role'[s] = "leader" /\ write'[s] # Nil /\ write[s] # Nil
    BY DEF Waiting
  <1>2. /\ commitIndex[s] < write[s].index
        /\ \A p \in Server : currentTerm[p] <= currentTerm[s] =>
              lastApplied[p] <= write[s].index - 1 /\ indexToApply[p] <= write[s].index - 1
    BY <1>0 DEF AheadOK, ApplyGuard
  <1>3. ~CommitWrite(s)
    BY <1>1, CommitEffect
  <1>4. PICK m : m = write[s].index - 1
    OBVIOUS
  <1>5. m \in Int /\ write[s].index \in Nat
    <2>1. write[s] \in Write
      BY <1>0, <1>1 DEF TypeOK
    <2>2. write[s].index \in Nat
      BY <2>1 DEF Write, Index
    <2> QED
      BY <1>4, <2>2
  <1>6. commitIndex'[s] < write[s].index
    <2>1. ~ApplyLog(s) /\ ~Restart(s)
      BY <1>0, <1>1, ApplyLogEffect, RestartEffect
    <2>2. ASSUME NEW x \in Server, AppendEntriesGetReply(x, s), Accepts(x, s)
          PROVE  FALSE
      BY <1>1, <2>2, AcceptEffect DEF AcceptedRest
    <2> QED
      BY <1>2, <1>3, <2>1, <2>2, AppliedChange
  <1>7. ASSUME NEW p \in Server, currentTerm'[p] <= currentTerm[s]
        PROVE  lastApplied'[p] <= m /\ indexToApply'[p] <= m
    <2>1. /\ currentTerm[p] \in Nat /\ currentTerm'[p] \in Nat
          /\ currentTerm'[p] >= currentTerm[p]
      BY RoleChange
    <2>2. currentTerm[s] \in Nat /\ currentTerm[s] \in Term
      BY <1>0, LogType
    <2>3. currentTerm[p] <= currentTerm[s]
      BY <1>7, <2>1, <2>2
    <2>4. lastApplied[p] <= m /\ indexToApply[p] <= m
      BY <1>2, <1>4, <2>3
    <2>5. lastApplied[p] \in Nat /\ indexToApply[p] \in Nat /\ lastApplied[p] >= 1
      <3>1. lastApplied[p] \in Index /\ indexToApply[p] \in 0..MaxIndex
        BY <1>0 DEF TypeOK
      <3> QED
        BY <3>1 DEF Index
    <2>6. CASE lastApplied'[p] = lastApplied[p] /\ indexToApply'[p] = indexToApply[p]
      BY <2>4, <2>6
    <2>7. CASE ApplyLog(p)
      <3>1. /\ lastApplied'[p] = lastApplied[p] + 1 /\ lastApplied'[p] <= indexToApply[p]
            /\ indexToApply' = indexToApply
        BY <1>0, <2>7, ApplyLogEffect
      <3> QED
        BY <1>5, <2>4, <2>5, <3>1
    <2>8. CASE Restart(p)
      <3>1. /\ lastApplied'[p] \in Index /\ lastApplied'[p] <= lastApplied[p]
            /\ indexToApply'[p] = 0
        BY <1>0, <2>8, RestartEffect
      <3> QED
        BY <1>5, <2>4, <2>5, <3>1 DEF Index
    <2>9. CASE CommitWrite(p)
      <3>1. PICK n \in Index, t \in Term : n = lastLogIndex[p] /\ t = currentTerm[p]
        BY <2>9, CommitGrows
      <3>2. /\ GrowsAbove(n, t) /\ IsWritten(n, t)
            /\ lastApplied'[p] <= n /\ lastApplied'[p] \in Nat
            /\ indexToApply' = indexToApply /\ n \in Nat
        BY <2>9, <3>1, CommitGrows DEF Index
      <3>3. t # currentTerm[s]
        <4> SUFFICES ASSUME t = currentTerm[s] PROVE FALSE
          OBVIOUS
        <4>1. role[p] = "leader"
          BY <2>9, CommitEffect
        <4>2. Owns(s, t) /\ Owns(p, t)
          BY <1>1, <3>1, <4>1 DEF Owns
        <4>3. s = p
          BY <1>0, <3>1, <4>2 DEF OwnersOK
        <4> QED
          BY <1>3, <2>9, <4>3
      <3>4. t < currentTerm[s]
        BY <2>1, <2>2, <2>3, <3>1, <3>3
      <3>5. n <= m
        BY <1>4, <3>2, <3>4, SettledBelowWrite
      <3> QED
        BY <1>5, <2>4, <3>2, <3>5
    <2>10. ASSUME NEW x \in Server, AppendEntriesGetReply(x, p), Accepts(x, p)
           PROVE  lastApplied'[p] <= m /\ indexToApply'[p] <= m
      <3>1. PICK u : u = call[x][p].args.term
        OBVIOUS
      <3>2. /\ lastApplied' = lastApplied /\ currentTerm'[p] = u /\ u \in Term
            /\ call[x][p] # Nil /\ call[x][p].args.commit \in Index
        <4>1. AcceptedCall(x, p, call[x][p].args) /\ AcceptedRest(x, p, call[x][p].args)
          BY <2>10, AcceptEffect
        <4> QED
          BY <3>1, <4>1 DEF AcceptedCall, AcceptedRest
      <3>3. PICK n \in Index, t \in Term :
              /\ GrowsAbove(n, t) /\ IsWritten(n, t) /\ t <= u
              /\ indexToApply'[p] \in Index /\ indexToApply'[p] <= n
              /\ indexToApply'[p] <= call[x][p].args.commit
        BY <2>10, <3>1, AcceptGrows
      <3>4. t \in Nat /\ n \in Nat /\ indexToApply'[p] \in Nat /\ u \in Nat
            /\ call[x][p].args.commit \in Nat
        BY <3>2, <3>3 DEF Term, Index
      <3>5. CASE u = currentTerm[s]
        <4>1. Owns(s, u) /\ Owns(x, u)
          BY <1>1, <3>1, <3>2, <3>5 DEF Owns
        <4>2. x = s
          BY <1>0, <3>2, <4>1 DEF OwnersOK
        <4>3. call[x][p].args.commit <= commitIndex[s]
          BY <1>0, <1>1, <3>2, <4>2 DEF CallsOK, CallOK
        <4>4. commitIndex[s] \in Nat
          BY <1>0 DEF TypeOK, Index
        <4>5. indexToApply'[p] <= m
          BY <1>2, <1>4, <1>5, <3>3, <3>4, <4>3, <4>4
        <4> QED
          BY <2>4, <3>2, <4>5
      <3>6. CASE u # currentTerm[s]
        <4>1. t < currentTerm[s]
          BY <1>7, <2>2, <3>2, <3>3, <3>4, <3>6
        <4>2. n <= m
          BY <1>4, <3>3, <4>1, SettledBelowWrite
        <4> QED
          BY <1>5, <2>4, <3>2, <3>3, <3>4, <4>2
      <3> QED
        BY <3>5, <3>6
    <2> QED
      BY <2>6, <2>7, <2>8, <2>9, <2>10, AppliedChange
  <1> QED
    BY <1>4, <1>6, <1>7

LEMMA AheadNewWaiting ==
    ASSUME SafetyInv, Step, NEW s \in Server, NEW n, NEW t, Adds(s, n, t),
           \/ EvaluateVoteResult(s)
           \/ AddRaftEntry(s) /\ role[s] = "leader"
    PROVE  /\ commitIndex'[s] < n
           /\ \A p \in Server : currentTerm'[p] <= currentTerm[s] =>
                 lastApplied'[p] <= n - 1 /\ indexToApply'[p] <= n - 1
  <1>0. TypeOK /\ LogsOK
    BY DEF SafetyInv
  <1>1. /\ n \in Index /\ n - 1 \in Index /\ lastLogIndex[s] = n - 1
        /\ currentTerm' = currentTerm /\ commitIndex' = commitIndex
        /\ indexToApply' = indexToApply /\ lastApplied' = lastApplied
    BY DEF Adds
  <1>2. commitIndex[s] < n
    <2>1. commitIndex[s] \in Index
      BY <1>0 DEF TypeOK
    <2>2. commitIndex[s] <= commitIndex[s]
      BY <2>1 DEF Index
    <2>3. log[s][commitIndex[s]] \in Term
      BY <2>1, <2>2, AppliedKept
    <2>4. commitIndex[s] <= lastLogIndex[s]
      BY <1>0, <2>1, <2>3, LastLog DEF Term, NoLog
    <2> QED
      BY <1>1, <2>1, <2>4 DEF Index
  <1>3. ASSUME NEW p \in Server, currentTerm[p] <= currentTerm[s]
        PROVE  lastApplied[p] <= n - 1 /\ indexToApply[p] <= n - 1
    <2>1. ASSUME NEW j \in Index, j <= lastApplied[p] \/ j <= indexToApply[p]
          PROVE  j <= n - 1
      BY <1>1, <1>3, <2>1, LeaderNotBehind, ElectedNotBehind
    <2>2. lastApplied[p] \in Index /\ indexToApply[p] \in 0..MaxIndex
      BY <1>0 DEF TypeOK
    <2>3. n - 1 \in Int /\ n - 1 >= 0
      BY <1>1 DEF Index
    <2> QED
      BY <2>1, <2>2, <2>3, GuardFromIndexes
  <1> QED
    BY <1>1, <1>2, <1>3

LEMMA AheadStep ==
    ASSUME SafetyInv, Step
    PROVE  AheadOK'
  <1>0. TypeOK /\ LogsOK /\ AppliedOK'
    BY AppliedStep DEF SafetyInv
  <1>1. ASSUME NEW s \in Server, NEW p \in Server, call'[s][p] # Nil,
               call'[s][p].args.term >= currentTerm'[p]
        PROVE  ApplyGuard(p, CallBound(call[s][p]))'
    <2>1. CASE call'[s][p] = call[s][p]
      BY <1>1, <2>1, AheadSame
    <2>2. ASSUME NEW pre, NEW entry, SentCall(s, p, pre, entry),
                 \/ SendAppend(s, p)
                 \/ SendPing(s, p) /\ pre = lastLogIndex[s]
                 \/ ReplyMismatch(s, p) \/ ReplyMatch(s, p),
                 UNCHANGED <<currentTerm, indexToApply, lastApplied>>
          PROVE  ApplyGuard(p, CallBound(call[s][p]))'
      <3>1. /\ call'[s][p].st = "sent" /\ call'[s][p].args.pre = pre
            /\ call'[s][p].args.term = currentTerm[s]
        BY <2>2 DEF SentCall
      <3>2. lastApplied[p] <= pre /\ indexToApply[p] <= pre
        BY <1>1, <2>2, <3>1, AheadSent
      <3>3. CallBound(call[s][p])' = pre
        BY <3>1 DEF CallBound
      <3> QED
        BY <2>2, <3>2, <3>3 DEF ApplyGuard
    <2>3. ASSUME AppendEntriesGetReply(s, p), call[s][p] # Nil, call[s][p].st = "sent",
                 Rejects(s, p) \/ Differs(s, p) \/ Accepts(s, p)
          PROVE  ApplyGuard(p, CallBound(call[s][p]))'
      <3>1. ~Rejects(s, p)
        <4>1. call[s][p].args.term \in Nat /\ currentTerm[p] \in Nat
          BY <1>0, <2>3, CallFields, LogType DEF Term
        <4> QED
          BY <1>1, <4>1 DEF Rejects, Answered
      <3> QED
        BY <1>0, <2>3, <3>1, AheadAnswered
    <2> QED
      BY <1>1, <2>1, <2>2, <2>3, CallCases
  <1>2. ASSUME NEW s \in Server, Waiting(s)'
        PROVE  /\ commitIndex'[s] < write'[s].index
               /\ \A p \in Server : currentTerm'[p] <= currentTerm'[s] =>
                    lastApplied'[p] <= write'[s].index - 1
                    /\ indexToApply'[p] <= write'[s].index - 1
    <2>1. currentTerm'[s] = currentTerm[s]
      BY <1>2, WaitingCases
    <2>2. CASE Waiting(s) /\ write'[s] = write[s]
      BY <1>2, <2>1, <2>2, AheadOldWaiting
    <2>3. CASE /\ Adds(s, write'[s].index, write'[s].term)
               /\ \/ EvaluateVoteResult(s)
                  \/ AddRaftEntry(s) /\ role[s] = "leader"
      BY <2>1, <2>3, AheadNewWaiting
    <2> QED
      BY <1>2, <2>2, <2>3, WaitingCases
  <1> QED
    BY <1>1, <1>2 DEF AheadOK, ApplyGuard, CallBound

\* The initial state is safe: the first log is settled.
LEMMA InitSettled ==
    ASSUME Init
    PROVE  /\ Settled(1, 1) /\ Chosen(1, 1, 1)
           /\ \A s \in Server : KeepsChosen(s, 1)
  <1>1. 1 \in Index /\ 1 \in Term /\ 1 # NoLog
    BY BoundAssumption DEF Index, Term, NoLog
  <1>2. \A s \in Server : log[s][1] = 1 /\ log[s] \in [Index -> Nat]
    BY <1>1 DEF Init, NoLog
  <1>3. \A s \in Server :
          /\ role[s] = "follower" /\ currentTerm[s] = 1 /\ votes[s] = {}
          /\ lastLogIndex[s] = 1 /\ lastLogTerm[s] = 1
          /\ \A p \in Server : call[s][p] = Nil
    BY DEF Init
  <1>4. \A s \in Server : Keeps(s, 1, 1)
    BY <1>2, <1>3 DEF Keeps, CallKeeps
  <1>5. \A s \in Server : Holds(s, 1, 1)
    BY <1>3, <1>4 DEF Holds, LastAtOrAfter, AtOrAfter
  <1>6. written = {<<1, 1, NoLog>>}
    BY DEF Init
  <1>7. GrowsAbove(1, 1) /\ IsWritten(1, 1)
    <2> DEFINE l == <<1, 1, NoLog>>
    <2>1. l[1] = 1 /\ l[2] = 1 /\ l[3] = NoLog /\ written = {l}
      BY <1>6
    <2> HIDE DEF l
    <2> QED
      BY <2>1 DEF GrowsAbove, IsWritten
  <1>8. IsMajority(Server)
    BY ServersCount DEF IsMajority, clusterSize
  <1>9. ASSUME NEW i \in 1..1, NEW s \in Server
        PROVE  IsCommitted(i, log[s][i])
    <2>1. i = 1
      OBVIOUS
    <2>2. <<1, 1, 1>> \in committed
      BY DEF Init
    <2> QED
      BY <1>1, <1>2, <2>1, <2>2 DEF IsCommitted
  <1>10. Settled(1, 1)
    <2>1. \E Q \in SUBSET Server : IsMajority(Q) /\ \A q \in Q : Holds(q, 1, 1)
      BY <1>5, <1>8
    <2> QED
      BY <1>7, <1>9, <2>1 DEF Settled
  <1>11. Chosen(1, 1, 1)
    BY <1>1, <1>10, SettledChosen
  <1>12. ASSUME NEW s \in Server PROVE KeepsChosen(s, 1)
    <2>1. 1 \in 1..currentTerm[s]
      BY <1>3
    <2> QED
      BY <1>2, <1>4, <1>11, <2>1 DEF KeepsChosen
  <1> QED
    BY <1>10, <1>11, <1>12

LEMMA InitSafe == Init => SafetyInv
  <1> SUFFICES ASSUME Init PROVE SafetyInv
    OBVIOUS
  <1>0. TypeOK
    BY InitTypes
  <1>1. 1 \in Index /\ 1 \in Term /\ MaxIndex \in Nat
    BY BoundAssumption DEF Index, Term
  <1>2. \A s \in Server : \A i \in Index : log[s][i] = IF i = 1 THEN 1 ELSE 0
    BY DEF Init, NoLog
  <1>3. \A s \in Server :
          /\ role[s] = "follower" /\ currentTerm[s] = 1 /\ votes[s] = {}
          /\ votedForTerm[s] = 0 /\ replicated[s] = {} /\ write[s] = Nil
          /\ lastLogIndex[s] = 1 /\ lastLogTerm[s] = 1
          /\ lastApplied[s] = 1 /\ commitIndex[s] = 1 /\ indexToApply[s] = 0
          /\ \A p \in Server : call[s][p] = Nil
    BY DEF Init
  <1>4. LogsOK
    <2> SUFFICES ASSUME NEW s \in Server
                 PROVE  /\ \A i \in Index : log[s][i] # NoLog <=> i <= lastLogIndex[s]
                        /\ \A i, j \in Index :
                              i <= j /\ log[s][j] # NoLog => log[s][i] <= log[s][j]
                        /\ lastLogTerm[s] <= log[s][lastLogIndex[s]]
                        /\ log[s][lastLogIndex[s]] <= currentTerm[s]
      BY DEF LogsOK
    <2>1. \A i \in Index : i >= 1 /\ i \in Nat
      BY DEF Index
    <2> QED
      BY <1>1, <1>2, <1>3, <2>1 DEF NoLog
  <1>5. TreeOK
    <2> DEFINE l == <<1, 1, NoLog>>
    <2>1. l[1] = 1 /\ l[2] = 1 /\ l[3] = NoLog /\ written = {l}
      BY DEF Init
    <2>2. ASSUME NEW s \in Server, NEW i \in Index, log[s][i] # NoLog
          PROVE  <<i, log[s][i], LogBefore(log[s], i)>> \in written
      BY <1>2, <2>1, <2>2 DEF LogBefore, NoLog
    <2> HIDE DEF l
    <2>3. Tree(written)
      BY <2>1 DEF Tree
    <2> QED
      BY <2>2, <2>3 DEF TreeOK, Path
  <1>6. VotesOK
    BY <1>3 DEF VotesOK
  <1>7. TermsOK
    <2>1. Taken(1)
      <3>1. IsMajority(Server)
        BY ServersCount DEF IsMajority, clusterSize
      <3> QED
        BY <1>3, <3>1 DEF Taken, Open
    <2> DEFINE l == <<1, 1, NoLog>>
    <2>2. l[2] = 1 /\ written = {l}
      BY DEF Init
    <2> HIDE DEF l
    <2> QED
      BY <2>1, <2>2 DEF TermsOK
  <1>8. OwnersOK
    BY <1>3 DEF OwnersOK, Owns
  <1>9. CallsOK
    BY <1>3 DEF CallsOK, CallOK
  <1>10. LeadersOK /\ ChosenWritesOK /\ WaitingOK /\ ReplicatedOK
    BY <1>3 DEF LeadersOK, ChosenWritesOK, WaitingOK, Waiting, ReplicatedOK
  <1>11. CommittedOK
    <2> DEFINE c == <<1, 1, 1>>
    <2>1. c[1] = 1 /\ c[2] = 1 /\ c[3] = 1 /\ committed = {c}
      BY DEF Init
    <2> HIDE DEF c
    <2> QED
      BY <2>1, InitSettled DEF CommittedOK
  <1>12. AppliedOK
    <2>1. ASSUME NEW s \in Server, NEW i \in Index,
                 i <= lastApplied[s] \/ i <= indexToApply[s] \/ i <= commitIndex[s]
          PROVE  KeepsChosen(s, i)
      <3>1. i = 1
        BY <1>3, <2>1 DEF Index
      <3> QED
        BY <3>1, InitSettled
    <2> QED
      BY <2>1 DEF AppliedOK, KeepsChosen
  <1>13. AheadOK
    BY <1>3 DEF AheadOK, Waiting
  <1>14. orphans = {} /\ fatal = {} /\ ~reused
    BY DEF Init
  <1> QED
    BY <1>0, <1>4, <1>5, <1>6, <1>7, <1>8, <1>9, <1>10, <1>11, <1>12, <1>13, <1>14
       DEF SafetyInv

\* Nothing changes what is settled if no variable changes.
LEMMA SafeStutter ==
    ASSUME SafetyInv, UNCHANGED vars
    PROVE  SafetyInv'
  <1>1. /\ role' = role /\ currentTerm' = currentTerm /\ votedFor' = votedFor
        /\ votedForTerm' = votedForTerm /\ votes' = votes
        /\ log' = log /\ lastLogIndex' = lastLogIndex /\ lastLogTerm' = lastLogTerm
        /\ commitIndex' = commitIndex /\ indexToApply' = indexToApply
        /\ lastApplied' = lastApplied /\ write' = write /\ replicated' = replicated
        /\ call' = call /\ orphans' = orphans /\ fails' = fails /\ restarts' = restarts
        /\ written' = written /\ reused' = reused /\ committed' = committed
        /\ fatal' = fatal
    BY DEF vars, votedVars, logVars, bounds, history
  <1>2. TypeOK'
    BY <1>1 DEF SafetyInv, TypeOK
  <1>3. LogsOK' /\ TreeOK'
    BY <1>1 DEF SafetyInv, LogsOK, TreeOK, Tree, Path, LogBefore
  <1>4. VotesOK' /\ TermsOK'
    BY <1>1 DEF SafetyInv, VotesOK, TermsOK, Taken, Open, Blocks, IsMajority
  <1>5. OwnersOK'
    BY <1>1 DEF SafetyInv, OwnersOK, Owns
  <1>6. \A q \in Server : \A i, k : Keeps(q, i, k)' <=> Keeps(q, i, k)
    BY <1>1 DEF Keeps, CallKeeps
  <1>7. \A q \in Server : \A n, t : Holds(q, n, t)' <=> Holds(q, n, t)
    BY <1>1, <1>6 DEF Holds, LastAtOrAfter
  <1>8. \A n, t : GrowsAbove(n, t)' <=> GrowsAbove(n, t)
    BY <1>1 DEF GrowsAbove
  <1>9. \A n, t : Settled(n, t)' <=> Settled(n, t)
    BY <1>1, <1>7, <1>8 DEF Settled, IsWritten, IsMajority, IsCommitted
  <1>10. \A i, k, t : Chosen(i, k, t)' <=> Chosen(i, k, t)
    BY <1>1, <1>9 DEF Chosen, Below
  <1>11. CallsOK'
    <2>1. \A a : CommitTrue(a)' <=> CommitTrue(a)
      BY <1>1, <1>9 DEF CommitTrue, Below
    <2> QED
      BY <1>1, <2>1 DEF SafetyInv, CallsOK, CallOK, IsWritten
  <1>12. LeadersOK' /\ ChosenWritesOK'
    BY <1>1, <1>6, <1>9 DEF SafetyInv, LeadersOK, ChosenWritesOK
  <1>13. WaitingOK'
    <2>1. ASSUME NEW s \in Server, Waiting(s)'
          PROVE  \/ WriteHeld(s, write[s].index, write[s].term)'
                 \/ WriteDoomed(s, write[s].term)'
      <3>1. Acks(s)' = Acks(s)
        BY <1>1 DEF Acks, ConfirmsWrite
      <3>2. Acks(s) \subseteq Server
        BY AcksAreServers DEF SafetyInv
      <3>3. Waiting(s)
        BY <1>1, <2>1 DEF Waiting
      <3>4. PICK n, t : n = write[s].index /\ t = write[s].term
        OBVIOUS
      <3>5. WriteHeld(s, n, t) \/ WriteDoomed(s, t)
        BY <3>3, <3>4 DEF SafetyInv, WaitingOK, WriteHeld, WriteDoomed
      <3>6. WriteHeld(s, n, t) => WriteHeld(s, n, t)'
        BY <1>6, <1>7, <1>8, <3>1, <3>2 DEF WriteHeld
      <3>7. WriteDoomed(s, t) => WriteDoomed(s, t)'
        BY <1>1, <3>1 DEF WriteDoomed, IsMajority
      <3>8. n = write'[s].index /\ t = write'[s].term
        BY <1>1, <3>4
      <3> QED
        BY <3>5, <3>6, <3>7, <3>8
    <2> QED
      BY <2>1 DEF WaitingOK, WriteHeld, WriteDoomed
  <1>17. ReplicatedOK'
    BY <1>1 DEF SafetyInv, ReplicatedOK
  <1>14. CommittedOK' /\ AppliedOK'
    BY <1>1, <1>6, <1>10 DEF SafetyInv, CommittedOK, AppliedOK
  <1>15. AheadOK'
    BY <1>1 DEF SafetyInv, AheadOK, ApplyGuard, Waiting
  <1>16. orphans' = {} /\ fatal' = {} /\ ~reused'
    BY <1>1 DEF SafetyInv
  <1> QED
    BY <1>2, <1>3, <1>4, <1>5, <1>11, <1>12, <1>13, <1>14, <1>15, <1>16, <1>17
       DEF SafetyInv

LEMMA SafetyStep ==
    ASSUME Prompt, SafetyInv, [Next]_vars
    PROVE  SafetyInv'
  <1>1. CASE UNCHANGED vars
    BY <1>1, SafeStutter
  <1>2. CASE Next
    <2>1. Step
      BY <1>2 DEF Step, SafetyInv
    <2>2. reused' = FALSE
      <3>1. reused' = reused
        BY <2>1, WrittenCases
      <3> QED
        BY <3>1 DEF SafetyInv, TypeOK
    <2>3. TypeOK' /\ LogsOK' /\ TreeOK' /\ VotesOK' /\ TermsOK' /\ OwnersOK' /\ CallsOK'
      BY <2>1, TypesStep, LogsStep, TreeStep, VotesStep, TermsStep, OwnersStep, CallsStep
    <2>4. LeadersOK' /\ ChosenWritesOK' /\ WaitingOK' /\ ReplicatedOK'
      BY <2>1, LeadersStep, ChosenWritesStep, WaitingStep, ReplicatedStep
    <2>5. CommittedOK' /\ AppliedOK' /\ AheadOK'
      BY <2>1, CommittedStep, AppliedStep, AheadStep
    <2>6. orphans' = {} /\ fatal' = {}
      BY <2>1, QuietChange
    <2> QED
      BY <2>2, <2>3, <2>4, <2>5, <2>6 DEF SafetyInv
  <1> QED
    BY <1>1, <1>2

-----------------------------------------------------------------------------

\* The inductive invariant holds when calls are prompt and votes are not forgotten.
THEOREM SafetyHolds ==
    ASSUME Prompt
    PROVE  Spec => []SafetyInv
  <1>1. Init => SafetyInv
    BY InitSafe
  <1>2. SafetyInv /\ [Next]_vars => SafetyInv'
    BY SafetyStep
  <1> QED
    BY <1>1, <1>2, PTL DEF Spec

\* A leader has every log that was committed in a term before its own, as
\* _VmDirEvaluateVoteResult assumes when it applies all logs before its no-op.
THEOREM LeadersComplete ==
    ASSUME Prompt
    PROVE  Spec => []LeaderCompleteness
  <1>1. SafetyInv => LeaderCompleteness
    <2> SUFFICES ASSUME SafetyInv, NEW s \in Server, role[s] = "leader",
                        NEW c \in committed, c[3] < currentTerm[s]
                 PROVE  log[s][c[1]] = c[2]
      BY DEF LeaderCompleteness
    <2>0. TypeOK /\ LogsOK /\ TreeOK /\ LeadersOK /\ CommittedOK
      BY DEF SafetyInv
    <2>1. c[1] \in Index /\ c[3] \in Term /\ Chosen(c[1], c[2], c[3])
      BY <2>0 DEF TypeOK, CommittedOK
    <2>2. currentTerm[s] >= c[3]
      BY <2>0, <2>1, LogType DEF Term
    <2> QED
      BY <2>0, <2>1, <2>2, ChosenLeader
  <1> QED
    BY <1>1, SafetyHolds, PTL

\* No two servers apply different logs at one index, by whichever of the three ways a log
\* gets applied: the leader's commit, its no-op, or _VmDirRaftLogApplyThread.
THEOREM ServersAgree ==
    ASSUME Prompt
    PROVE  Spec => []AppliedAgree
  <1>1. SafetyInv => AppliedAgree
    <2> SUFFICES ASSUME SafetyInv, NEW s \in Server, NEW p \in Server,
                        NEW i \in 1..lastApplied[s], i <= lastApplied[p]
                 PROVE  log[s][i] = log[p][i] /\ log[s][i] # NoLog
      BY DEF AppliedAgree
    <2>0. TypeOK /\ TreeOK
      BY DEF SafetyInv
    <2>1. i \in Index /\ i <= lastApplied[s]
      <3>1. lastApplied[s] \in Index
        BY <2>0 DEF TypeOK
      <3> QED
        BY <3>1, BoundAssumption DEF Index
    <2>2. PICK t \in Term : Chosen(i, log[s][i], t)
      BY <2>1, AppliedKept
    <2>3. PICK u \in Term : Chosen(i, log[p][i], u)
      BY <2>1, AppliedKept
    <2>4. log[s][i] \in Term
      BY <2>1, AppliedKept
    <2> QED
      BY <2>0, <2>1, <2>2, <2>3, <2>4, ChosenAgree DEF Term, NoLog
  <1> QED
    BY <1>1, SafetyHolds, PTL

\* Two servers with a log of the same index and term have the same logs up to it, which is
\* why _VmDirLogLookup compares a single log.
THEOREM LogsMatch ==
    ASSUME Prompt
    PROVE  Spec => []LogMatching
  <1>1. SafetyInv => LogMatching
    <2> SUFFICES ASSUME SafetyInv, NEW s \in Server, NEW p \in Server, NEW i \in Index,
                        log[s][i] # NoLog, log[s][i] = log[p][i], NEW j \in 1..i
                 PROVE  log[s][j] = log[p][j]
      BY DEF LogMatching
    <2>0. TypeOK /\ TreeOK
      BY DEF SafetyInv
    <2>1. j \in Index /\ j <= i
      BY BoundAssumption DEF Index
    <2>2. log[s] \in [Index -> Term \cup {NoLog}] /\ log[p] \in [Index -> Term \cup {NoLog}]
      BY <2>0, LogType
    <2>3. Tree(written) /\ Path(log[s], written) /\ Path(log[p], written)
      BY <2>0 DEF TreeOK
    <2> QED
      BY <2>1, <2>2, <2>3, PathsAgree
  <1> QED
    BY <1>1, SafetyHolds, PTL

\* A log that a client was told is committed stays with a majority, whatever
\* VmDirDeleteAllLogs deletes.
THEOREM CommittedKept ==
    ASSUME Prompt
    PROVE  Spec => []CommittedStays
  <1>1. SafetyInv => CommittedStays
    <2> SUFFICES ASSUME SafetyInv, NEW c \in committed
                 PROVE  Cardinality({s \in Server : log[s][c[1]] = c[2]}) >= Majority
      BY DEF CommittedStays
    <2>1. Chosen(c[1], c[2], c[3])
      BY DEF SafetyInv, CommittedOK
    <2>2. PICK n \in Index : Settled(n, c[3]) /\ Below(c[1], c[2], n, c[3])
      BY <2>1 DEF Chosen
    <2>3. PICK Q \in SUBSET Server : IsMajority(Q) /\ \A q \in Q : Holds(q, n, c[3])
      BY <2>2 DEF Settled
    <2> DEFINE S == {s \in Server : log[s][c[1]] = c[2]}
    <2>4. Q \subseteq S
      BY <2>2, <2>3 DEF Holds, Keeps, Below
    <2>5. IsFiniteSet(S) /\ IsFiniteSet(Q)
      BY ServerAssumption, FS_Subset
    <2>6. Cardinality(Q) <= Cardinality(S)
      BY <2>4, <2>5, FS_Subset
    <2>7. Cardinality(Q) \in Nat /\ Cardinality(S) \in Nat /\ Majority \in Nat
      BY <2>5, FS_CardinalityType, ServersCount
    <2> HIDE DEF S
    <2>8. Cardinality(S) >= Majority
      BY <2>3, <2>6, <2>7 DEF IsMajority
    <2> QED
      BY <2>8 DEF S
  <1> QED
    BY <1>1, SafetyHolds, PTL

\* No pair of index and term is used for two writes: "the longIndex used by the aborted
\* transaction can never be reused".
THEOREM NothingReused ==
    ASSUME Prompt
    PROVE  Spec => []NoReuse
  <1>1. SafetyInv => NoReuse
    BY DEF SafetyInv, NoReuse
  <1> QED
    BY <1>1, SafetyHolds, PTL

\* VmDirDeleteAllLogs never meets a log that was applied: the assert(!bFatalError) of
\* _VmDirAppendEntriesGetReply never fails.
THEOREM NoServerDies ==
    ASSUME Prompt
    PROVE  Spec => []NoFatalError
  <1>1. SafetyInv => NoFatalError
    BY DEF SafetyInv, NoFatalError
  <1> QED
    BY <1>1, SafetyHolds, PTL
=============================================================================
