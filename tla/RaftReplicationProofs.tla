----------------------- MODULE RaftReplicationProofs -----------------------
(***************************************************************************)
(* Proofs about RaftReplication: its types, whatever is lost, late or      *)
(* forgotten, and facts about single steps that RaftSafetyProofs uses.     *)
(***************************************************************************)
EXTENDS RaftReplicationInv, FiniteSetTheorems, WellFoundedInduction, TLAPS

-----------------------------------------------------------------------------
(* Largest and smallest elements *)

\* A set of natural numbers that is not empty has a smallest one.
LEMMA SmallestExists ==
    ASSUME NEW T \in SUBSET Nat, T # {}
    PROVE  \E d \in T : \A b \in T : d <= b
  <1> DEFINE Less == {p \in Nat \X Nat : p[1] < p[2]}
  <1>1. IsWellFoundedOn(Less, Nat)
    BY NatLessThanWellFounded, Zenon DEF OpToRel
  <1> HIDE DEF Less
  <1>2. PICK d \in T : \A b \in T : ~(<<b, d>> \in Less)
    BY <1>1, WFMin
  <1>3. ASSUME NEW b \in T, ~(<<b, d>> \in Less) PROVE d <= b
    BY <1>3 DEF Less
  <1> QED
    BY <1>2, <1>3

\* A bounded set of natural numbers that is not empty has a largest one.
LEMMA LargestExists ==
    ASSUME NEW n \in Nat, NEW S \in SUBSET (0..n), S # {}
    PROVE  \E m \in S : \A i \in S : m >= i
  <1> DEFINE T == {n - i : i \in S}
  <1>1. \A i \in S : i \in Nat /\ n - i \in Nat
    OBVIOUS
  <1>0. T \in SUBSET Nat /\ T # {}
    BY <1>1
  <1>2. PICK d \in T : \A b \in T : d <= b
    BY <1>0, SmallestExists
  <1>3. PICK m \in S : d = n - m
    BY <1>2
  <1>4. ASSUME NEW i \in S PROVE m >= i
    <2>1. n - i \in T
      OBVIOUS
    <2> QED
      BY <1>1, <1>2, <1>3, <2>1
  <1> QED
    BY <1>4

\* Max finds it.
LEMMA MaxIsLargest ==
    ASSUME NEW n \in Nat, NEW S \in SUBSET (0..n), S # {}
    PROVE  Max(S) \in S /\ \A i \in S : i <= Max(S)
  <1>1. \E m \in S : \A i \in S : m >= i
    BY LargestExists
  <1>2. Max(S) \in S /\ \A i \in S : Max(S) >= i
    BY <1>1 DEF Max
  <1> QED
    BY <1>2

LEMMA MinOfTwo ==
    ASSUME NEW a \in Int, NEW b \in Int
    PROVE  Min({a, b}) = IF a <= b THEN a ELSE b
  <1>1. \E x \in {a, b} : \A y \in {a, b} : x <= y
    OBVIOUS
  <1>2. Min({a, b}) \in {a, b} /\ \A y \in {a, b} : Min({a, b}) <= y
    BY <1>1 DEF Min
  <1> QED
    BY <1>2

LEMMA MaxOfTwo ==
    ASSUME NEW a \in Int, NEW b \in Int
    PROVE  Max({a, b}) = IF a <= b THEN b ELSE a
  <1>1. \E x \in {a, b} : \A y \in {a, b} : x >= y
    OBVIOUS
  <1>2. Max({a, b}) \in {a, b} /\ \A y \in {a, b} : Max({a, b}) >= y
    BY <1>1 DEF Max
  <1> QED
    BY <1>2

\* The previous log of _VmDirGetPrevLogArgs is the highest at most i, if there is one.
LEMMA PrevIndexIs ==
    ASSUME TypeOK, NEW s \in Server, NEW i \in Int
    PROVE  /\ PrevIndex(s, i) \in 0..MaxIndex
           /\ PrevIndex(s, i) > 0 =>
                /\ PrevIndex(s, i) \in Index
                /\ PrevIndex(s, i) <= i
                /\ log[s][PrevIndex(s, i)] \in Term
           /\ \A j \in Index : j <= i /\ log[s][j] # NoLog => j <= PrevIndex(s, i)
  <1> DEFINE S == {0} \cup {j \in Index : j <= i /\ log[s][j] # NoLog}
  <1>1. MaxIndex \in Nat /\ S \subseteq 0..MaxIndex /\ S # {}
    BY BoundAssumption DEF Index
  <1>2. Max(S) \in S /\ \A j \in S : j <= Max(S)
    BY <1>1, MaxIsLargest
  <1>3. \A j \in Index : log[s][j] \in Term \cup {NoLog}
    BY DEF TypeOK
  <1>4. PrevIndex(s, i) = Max(S)
    BY DEF PrevIndex
  <1>5. Max(S) > 0 => Max(S) \in Index /\ Max(S) <= i /\ log[s][Max(S)] # NoLog
    BY <1>2
  <1> HIDE DEF S
  <1>6. Max(S) \in 0..MaxIndex
    BY <1>1, <1>2
  <1>7. \A j \in Index : j <= i /\ log[s][j] # NoLog => j <= Max(S)
    BY <1>2 DEF S
  <1> QED
    BY <1>3, <1>4, <1>5, <1>6, <1>7

-----------------------------------------------------------------------------
(* Types *)

LEMMA InitTypes == Init => TypeOK
  <1> SUFFICES ASSUME Init PROVE TypeOK
    OBVIOUS
  <1>1. 1 \in Term /\ 1 \in Index /\ 0 \in 0..MaxIndex /\ 0 \in 0..MaxTerm
    BY BoundAssumption DEF Term, Index
  <1>2. /\ role \in [Server -> Role]
        /\ currentTerm \in [Server -> Term]
        /\ votedFor \in [Server -> Server \cup {Nil}]
        /\ votedForTerm \in [Server -> 0..MaxTerm]
        /\ votes \in [Server -> SUBSET Server]
    BY <1>1 DEF Init, Role
  <1>3. log \in [Server -> [Index -> Term \cup {NoLog}]]
    BY <1>1 DEF Init
  <1>4. /\ lastLogIndex \in [Server -> Index]
        /\ lastLogTerm \in [Server -> Term]
        /\ commitIndex \in [Server -> Index]
        /\ indexToApply \in [Server -> 0..MaxIndex]
        /\ lastApplied \in [Server -> Index]
        /\ write \in [Server -> Write \cup {Nil}]
        /\ replicated \in [Server -> SUBSET Server]
        /\ call \in [Server -> [Server -> Call \cup {Nil}]]
    BY <1>1 DEF Init
  <1>5. /\ orphans \subseteq Args \X Server
        /\ fails \in Nat /\ restarts \in Nat
        /\ written \subseteq Index \X Term \X (Term \cup {NoLog})
        /\ committed \subseteq Index \X (Term \cup {NoLog}) \X Term
        /\ fatal \subseteq Server
    BY <1>1 DEF Init
  <1>6. reused \in BOOLEAN
    BY DEF Init
  <1> QED
    BY <1>2, <1>3, <1>4, <1>5, <1>6 DEF TypeOK

\* A server's update of its logs.
LEMMA AddLogTypes ==
    ASSUME TypeOK, NEW s \in Server, NEW w \in Write, AddLog(s, w)
    PROVE  /\ log' \in [Server -> [Index -> Term \cup {NoLog}]]
           /\ lastLogIndex' \in [Server -> Index]
           /\ lastLogTerm' \in [Server -> Term]
           /\ write' \in [Server -> Write \cup {Nil}]
           /\ replicated' \in [Server -> SUBSET Server]
           /\ written' \subseteq Index \X Term \X (Term \cup {NoLog})
           /\ reused' \in BOOLEAN
  <1>1. w.index \in Index /\ w.index - 1 \in Index /\ w.term \in Term
    BY BoundAssumption DEF Write, Index
  <1>2. [w EXCEPT !.st = "logged"] \in Write
    BY DEF Write
  <1>3. log[s][w.index - 1] \in Term \cup {NoLog}
    BY <1>1 DEF TypeOK
  <1>4. log' \in [Server -> [Index -> Term \cup {NoLog}]]
    BY <1>1 DEF TypeOK, AddLog
  <1>5. /\ lastLogIndex' \in [Server -> Index]
        /\ lastLogTerm' \in [Server -> Term]
        /\ replicated' \in [Server -> SUBSET Server]
    BY <1>1 DEF TypeOK, AddLog
  <1>6. write' \in [Server -> Write \cup {Nil}]
    BY <1>2 DEF TypeOK, AddLog
  <1>7. written' \subseteq Index \X Term \X (Term \cup {NoLog})
    BY <1>1, <1>3 DEF TypeOK, AddLog
  <1>8. reused' \in BOOLEAN
    BY Zenon DEF TypeOK, AddLog
  <1> QED
    BY <1>4, <1>5, <1>6, <1>7, <1>8

LEMMA NoLogAddedTypes ==
    ASSUME TypeOK, NoLogAdded
    PROVE  /\ log' \in [Server -> [Index -> Term \cup {NoLog}]]
           /\ lastLogIndex' \in [Server -> Index]
           /\ lastLogTerm' \in [Server -> Term]
           /\ replicated' \in [Server -> SUBSET Server]
           /\ written' \subseteq Index \X Term \X (Term \cup {NoLog})
           /\ reused' \in BOOLEAN
  BY DEF TypeOK, NoLogAdded, logVars

LEMMA NextWriteType ==
    ASSUME TypeOK, NEW s \in Server, NEW noop \in BOOLEAN, lastLogIndex[s] < MaxIndex
    PROVE  NextWrite(s, noop) \in Write
  <1>1. lastLogIndex[s] + 1 \in Index \ {1} /\ currentTerm[s] \in Term
    BY BoundAssumption DEF TypeOK, Index
  <1> QED
    BY <1>1 DEF NextWrite, Write

LEMMA SendCallTypes ==
    ASSUME TypeOK, NEW s \in Server, NEW p \in Server,
           NEW append \in BOOLEAN, NEW start \in Index, NEW pre \in Index, NEW i,
           NEW entry \in Term \cup {NoLog}, entry # NoLog => i \in Index,
           log[s][pre] # NoLog,
           SendCall(s, p, append, start, pre, i, entry)
    PROVE  call' \in [Server -> [Server -> Call \cup {Nil}]]
  <1> DEFINE a == [append |-> append, start |-> start, pre |-> pre,
                   preTerm |-> log[s][pre],
                   index |-> IF entry = NoLog THEN 1 ELSE i,
                   entry |-> entry,
                   term |-> currentTerm[s], commit |-> commitIndex[s]]
  <1>1. log[s][pre] \in Term /\ currentTerm[s] \in Term
    BY DEF TypeOK
  <1>2. commitIndex[s] \in Index /\ 1 \in Index
    BY BoundAssumption DEF TypeOK, Index
  <1>3. a \in Args
    BY <1>1, <1>2 DEF Args
  <1>4. call' = [call EXCEPT ![s][p] = [st |-> "sent", args |-> a]]
    BY DEF SendCall
  <1> HIDE DEF a
  <1>5. [st |-> "sent", args |-> a] \in Call
    BY <1>3 DEF Call
  <1> QED
    BY <1>4, <1>5 DEF TypeOK

LEMMA EndCallTypes ==
    ASSUME TypeOK, NEW s \in Server, NEW p \in Server, EndCall(s, p)
    PROVE  call' \in [Server -> [Server -> Call \cup {Nil}]]
  BY DEF TypeOK, EndCall

\* What is known of a call by its type.
LEMMA CallFields ==
    ASSUME TypeOK, NEW s \in Server, NEW p \in Server, call[s][p] # Nil
    PROVE  /\ call[s][p].st \in {"sent", "answered"}
           /\ call[s][p].args \in Args
           /\ call[s][p].args.append \in BOOLEAN
           /\ call[s][p].args.start \in Index
           /\ call[s][p].args.pre \in Index
           /\ call[s][p].args.preTerm \in Term
           /\ call[s][p].args.index \in Index
           /\ call[s][p].args.entry \in Term \cup {NoLog}
           /\ call[s][p].args.term \in Term
           /\ call[s][p].args.commit \in Index
           /\ call[s][p].st = "answered" =>
                 call[s][p].term \in Term /\ call[s][p].status \in 0..MaxIndex
  <1>1. call[s][p] \in Call
    BY DEF TypeOK
  <1>2. call[s][p].args \in Args /\ call[s][p].st \in {"sent", "answered"}
    BY <1>1 DEF Call
  <1>3. call[s][p].st = "answered" =>
                 call[s][p].term \in Term /\ call[s][p].status \in 0..MaxIndex
    BY <1>1 DEF Call
  <1>4. \A a \in Args : /\ a.append \in BOOLEAN
           /\ a.start \in Index
           /\ a.pre \in Index
           /\ a.preTerm \in Term
           /\ a.index \in Index
           /\ a.entry \in Term \cup {NoLog}
           /\ a.term \in Term
           /\ a.commit \in Index
    BY DEF Args
  <1> QED
    BY <1>2, <1>3, <1>4

LEMMA VoteTypes ==
    ASSUME TypeOK, NEW s \in Server, NEW p \in Server,
           StartVote(s) \/ GrantVote(s, p) \/ DenyVote(s, p)
    PROVE  TypeOK'
  <1>1. CASE StartVote(s)
    <2>1. currentTerm[s] + 1 \in Term /\ currentTerm[s] + 1 \in 0..MaxTerm
      BY <1>1, BoundAssumption DEF StartVote, TypeOK, Term
    <2> QED
      BY <1>1, <2>1
      DEF StartVote, TypeOK, Role, logVars, bounds, history
  <1>2. CASE GrantVote(s, p)
    <2>1. currentTerm[s] \in Term /\ currentTerm[s] \in 0..MaxTerm
      BY BoundAssumption DEF TypeOK, Term
    <2> QED
      BY <1>2, <2>1
      DEF GrantVote, TypeOK, Role, logVars, bounds, history
  <1>3. CASE DenyVote(s, p)
    BY <1>3
    DEF DenyVote, TypeOK, Role, votedVars, logVars, bounds, history
  <1> QED
    BY <1>1, <1>2, <1>3

LEMMA WriteTypes ==
    ASSUME TypeOK, NEW s \in Server,
           \/ EvaluateVoteResult(s) \/ PreCommit(s) \/ AddRaftEntry(s)
           \/ AbortWrite(s) \/ RetryConsensus(s)
    PROVE  TypeOK'
  <1>1. CASE EvaluateVoteResult(s)
    <2>1. NextWrite(s, TRUE) \in Write
      BY <1>1, NextWriteType DEF EvaluateVoteResult
    <2>2. CASE log[s][lastLogIndex[s] + 1] = NoLog
      <3>1. AddLog(s, NextWrite(s, TRUE)) /\ role' = [role EXCEPT ![s] = "leader"]
        BY <1>1, <2>2 DEF EvaluateVoteResult
      <3> HIDE DEF NextWrite
      <3> QED
        BY <1>1, <2>1, <3>1, AddLogTypes DEF EvaluateVoteResult, TypeOK, Role, bounds
    <2>3. CASE log[s][lastLogIndex[s] + 1] # NoLog
      <3>1. NoLogAdded /\ role' = [role EXCEPT ![s] = "follower"] /\ UNCHANGED write
        BY <1>1, <2>3 DEF EvaluateVoteResult
      <3> QED
        BY <1>1, <3>1, NoLogAddedTypes DEF EvaluateVoteResult, TypeOK, Role, bounds
    <2> QED
      BY <2>2, <2>3
  <1>2. CASE PreCommit(s)
    <2>1. NextWrite(s, FALSE) \in Write
      BY <1>2, NextWriteType DEF PreCommit
    <2> QED
      BY <1>2, <2>1 DEF PreCommit, TypeOK, votedVars, logVars, bounds, history
  <1>3. CASE AddRaftEntry(s)
    <2>1. write[s] \in Write
      BY <1>3 DEF AddRaftEntry, TypeOK
    <2>2. CASE log[s][write[s].index] = NoLog
      BY <1>3, <2>1, <2>2, AddLogTypes DEF AddRaftEntry, TypeOK, votedVars, bounds
    <2>3. CASE log[s][write[s].index] # NoLog
      BY <1>3, <2>3, NoLogAddedTypes DEF AddRaftEntry, TypeOK, votedVars, bounds
    <2> QED
      BY <2>2, <2>3
  <1>4. CASE AbortWrite(s)
    BY <1>4 DEF AbortWrite, EndWrite, TypeOK, Role, votedVars, logVars, bounds, history
  <1>5. CASE RetryConsensus(s)
    BY <1>5 DEF RetryConsensus, TypeOK, votedVars, logVars, bounds, history
  <1> QED
    BY <1>1, <1>2, <1>3, <1>4, <1>5

LEMMA CommitWriteTypes ==
    ASSUME TypeOK, NEW s \in Server, CommitWrite(s)
    PROVE  TypeOK'
  <1> DEFINE n    == write[s].index
             upto == IF write[s].noop THEN Max({n - 1, lastApplied[s]}) ELSE n
  <1>1. n \in Index /\ n - 1 \in Index /\ write[s].term \in Term
    <2>1. write[s] \in Write
      BY DEF CommitWrite, TypeOK
    <2> QED
      BY <2>1, BoundAssumption DEF Write, Index
  <1>2. upto \in Index
    <2>1. n - 1 \in Int /\ lastApplied[s] \in Int /\ lastApplied[s] \in Index
      BY <1>1 DEF TypeOK, Index
    <2>2. Max({n - 1, lastApplied[s]}) \in {n - 1, lastApplied[s]}
      BY <2>1, MaxOfTwo
    <2> QED
      BY <1>1, <2>1, <2>2
  <1> DEFINE new == {<<i, log[s][i], currentTerm[s]>> :
                        i \in {j \in 1..n : ~IsCommitted(j, log[s][j])}}
  <1>3. new \subseteq Index \X (Term \cup {NoLog}) \X Term
    <2>1. \A i \in 1..n : i \in Index
      BY <1>1, BoundAssumption DEF Index
    <2>2. \A i \in 1..n : log[s][i] \in Term \cup {NoLog}
      BY <2>1 DEF TypeOK
    <2>3. currentTerm[s] \in Term
      BY DEF TypeOK
    <2> QED
      BY <2>1, <2>2, <2>3
  <1>4. /\ commitIndex' = [commitIndex EXCEPT ![s] = n]
        /\ lastLogIndex' = [lastLogIndex EXCEPT ![s] = n]
        /\ lastLogTerm' = [lastLogTerm EXCEPT ![s] = write[s].term]
        /\ lastApplied' = [lastApplied EXCEPT ![s] = upto]
        /\ committed' = committed \cup new
    BY DEF CommitWrite
  <1> HIDE DEF n, upto, new
  <1>5. /\ UNCHANGED <<role, currentTerm, votedVars, log, indexToApply, call, orphans,
                       bounds, written, reused, fatal>>
        /\ EndWrite(s)
    BY DEF CommitWrite
  <1> QED
    BY <1>1, <1>2, <1>3, <1>4, <1>5 DEF TypeOK, EndWrite, votedVars, bounds

LEMMA SendTypes ==
    ASSUME TypeOK, NEW s \in Server, NEW p \in Server,
           SendAppend(s, p) \/ SendPing(s, p)
    PROVE  TypeOK'
  <1>1. call' \in [Server -> [Server -> Call \cup {Nil}]]
    <2>1. CASE SendAppend(s, p)
      <3> DEFINE n   == write[s].index
                 pre == PrevIndex(s, n - 1)
      <3>1. write[s] \in Write
        BY <2>1 DEF SendAppend, TypeOK
      <3>2. n \in Index /\ write[s].term \in Term /\ n - 1 \in Int
        BY <3>1 DEF Write, Index
      <3>3. pre > 0 /\ SendCall(s, p, TRUE, n, pre, n, write[s].term)
        BY <2>1 DEF SendAppend
      <3>4. pre \in Index /\ log[s][pre] \in Term
        BY <3>2, <3>3, PrevIndexIs
      <3>5. log[s][pre] # NoLog
        BY <3>4 DEF Term, NoLog
      <3> HIDE DEF n, pre
      <3> QED
        BY <3>2, <3>3, <3>4, <3>5, SendCallTypes
    <2>2. CASE SendPing(s, p)
      <3> DEFINE pre == PrevIndex(s, lastLogIndex[s] + 1)
      <3>1. lastLogIndex[s] \in Index /\ lastLogIndex[s] + 1 \in Int
        BY DEF TypeOK, Index
      <3>3. pre > 0 /\ SendCall(s, p, FALSE, lastLogIndex[s], pre, 0, NoLog)
        BY <2>2 DEF SendPing
      <3>4. pre \in Index /\ log[s][pre] \in Term
        BY <3>1, <3>3, PrevIndexIs
      <3>5. log[s][pre] # NoLog
        BY <3>4 DEF Term, NoLog
      <3> HIDE DEF pre
      <3> QED
        BY <3>1, <3>3, <3>4, <3>5, SendCallTypes
    <2> QED
      BY <2>1, <2>2
  <1>2. UNCHANGED <<role, currentTerm, votedVars, logVars, commitIndex, indexToApply,
                   lastApplied, write, replicated, orphans, bounds, history>>
    BY DEF SendAppend, SendPing
  <1> QED
    BY <1>1, <1>2 DEF TypeOK, votedVars, logVars, bounds, history

\* The log a search goes on with exists as an index.
LEMMA SearchFromType ==
    ASSUME NEW a \in Args, NEW status \in 0..MaxIndex, status # 0
    PROVE  SearchFrom(a, status) \in Index /\ SearchFrom(a, status) <= a.pre
  <1>1. a.pre \in 1..MaxIndex
    BY DEF Args, Index
  <1> QED
    BY <1>1, BoundAssumption DEF SearchFrom, Index

LEMMA ReplyTypes ==
    ASSUME TypeOK, NEW s \in Server, NEW p \in Server,
           \/ ReplyAfterLeadership(s, p) \/ ReplyMismatch(s, p) \/ ReplyMatch(s, p)
    PROVE  TypeOK'
  <1>0. /\ call[s][p] # Nil /\ call[s][p].st = "answered"
        /\ call[s][p].args \in Args
        /\ call[s][p].args.append \in BOOLEAN
        /\ call[s][p].args.start \in Index
        /\ call[s][p].args.pre \in Index
        /\ call[s][p].term \in Term
        /\ call[s][p].status \in 0..MaxIndex
    BY CallFields DEF ReplyAfterLeadership, ReplyMismatch, ReplyMatch, Answer
  <1>1. CASE ReplyAfterLeadership(s, p)
    <2>1. call' \in [Server -> [Server -> Call \cup {Nil}]]
      BY <1>1, EndCallTypes DEF ReplyAfterLeadership
    <2> QED
      BY <1>0, <1>1, <2>1
      DEF ReplyAfterLeadership, TypeOK, Role, votedVars, logVars, bounds, history
  <1>2. CASE ReplyMismatch(s, p)
    <2> DEFINE a   == call[s][p].args
               i   == SearchFrom(a, call[s][p].status)
               pre == PrevIndex(s, i - 1)
    <2>1. i \in Index /\ i - 1 \in Int
      BY <1>0, <1>2, SearchFromType DEF ReplyMismatch, Index
    <2>2. CASE log[s][i] # NoLog /\ pre > 0
      <3>1. SendCall(s, p, a.append, a.start, pre, i, log[s][i])
        BY <1>2, <2>2 DEF ReplyMismatch
      <3>2. pre \in Index /\ log[s][pre] \in Term
        BY <2>1, <2>2, PrevIndexIs
      <3>3. log[s][pre] # NoLog /\ log[s][i] \in Term \cup {NoLog}
        BY <2>1, <3>2 DEF Term, NoLog, TypeOK
      <3>4. call' \in [Server -> [Server -> Call \cup {Nil}]]
        <4> HIDE DEF a, i, pre
        <4> QED
          BY <1>0, <2>1, <3>1, <3>2, <3>3, SendCallTypes DEF a
      <3> QED
        BY <1>2, <3>4 DEF ReplyMismatch, TypeOK, votedVars, logVars, bounds, history
    <2>3. CASE ~(log[s][i] # NoLog /\ pre > 0)
      <3>1. EndCall(s, p)
        BY <1>2, <2>3 DEF ReplyMismatch
      <3>2. call' \in [Server -> [Server -> Call \cup {Nil}]]
        BY <3>1, EndCallTypes
      <3> QED
        BY <1>2, <3>2 DEF ReplyMismatch, TypeOK, votedVars, logVars, bounds, history
    <2> QED
      BY <2>2, <2>3
  <1>3. CASE ReplyMatch(s, p)
    <2> DEFINE a == call[s][p].args
               e == IF a.pre + 2 \in Index THEN log[s][a.pre + 2] ELSE NoLog
    <2>0. \/ replicated' = replicated
          \/ replicated' = [replicated EXCEPT ![s] = @ \cup {p}]
      BY <1>3 DEF ReplyMatch
    <2>1. replicated' \in [Server -> SUBSET Server]
      <3>1. replicated[s] \cup {p} \in SUBSET Server
        BY DEF TypeOK
      <3> QED
        BY <2>0, <3>1 DEF TypeOK
    <2>2. call' \in [Server -> [Server -> Call \cup {Nil}]]
      <3>1. CASE EndCall(s, p)
        BY <3>1, EndCallTypes
      <3>2. CASE ~EndCall(s, p)
        <4>1. /\ a.pre < a.start
              /\ log[s][a.pre + 1] # NoLog
              /\ SendCall(s, p, a.append, a.start, a.pre + 1, a.pre + 2, e)
          BY <1>0, <1>3, <3>2 DEF ReplyMatch, Index
        <4>2. a.pre + 1 \in Index
          BY <1>0, <4>1, BoundAssumption DEF Index
        <4>3. e \in Term \cup {NoLog} /\ (e # NoLog => a.pre + 2 \in Index)
          BY DEF TypeOK
        <4> HIDE DEF e
        <4> QED
          BY <1>0, <4>1, <4>2, <4>3, SendCallTypes
      <3> QED
        BY <3>1, <3>2
    <2> QED
      BY <1>3, <2>1, <2>2
      DEF ReplyMatch, TypeOK, votedVars, logVars, bounds, history
  <1> QED
    BY <1>1, <1>2, <1>3

LEMMA CallFailTypes ==
    ASSUME TypeOK, NEW s \in Server, NEW p \in Server, CallFail(s, p)
    PROVE  TypeOK'
  <1>1. call[s][p].args \in Args
    BY CallFields DEF CallFail
  <1>2. call' \in [Server -> [Server -> Call \cup {Nil}]]
    BY EndCallTypes DEF CallFail
  <1>3. orphans' \subseteq Args \X Server /\ fails' \in Nat
    BY <1>1 DEF CallFail, TypeOK
  <1> QED
    BY <1>2, <1>3 DEF CallFail, TypeOK, votedVars, logVars, history

\* The handler's changes, and its answer.
LEMMA HandlerTypes ==
    ASSUME TypeOK, NEW p \in Server, NEW a \in Args, NEW answer, Handler(p, a, answer)
    PROVE  /\ role' \in [Server -> Role]
           /\ currentTerm' \in [Server -> Term]
           /\ log' \in [Server -> [Index -> Term \cup {NoLog}]]
           /\ lastLogIndex' \in [Server -> Index]
           /\ lastLogTerm' \in [Server -> Term]
           /\ commitIndex' \in [Server -> Index]
           /\ indexToApply' \in [Server -> 0..MaxIndex]
           /\ fatal' \subseteq Server
  <1>0. /\ a.pre \in Index /\ a.preTerm \in Term /\ a.index \in Index
        /\ a.entry \in Term \cup {NoLog} /\ a.term \in Term /\ a.commit \in Index
    BY DEF Args
  <1>1. CASE UNCHANGED <<logVars, commitIndex, indexToApply, fatal>>
    <2>1. role' \in [Server -> Role] /\ currentTerm' \in [Server -> Term]
      BY <1>0 DEF Handler, TypeOK, Role
    <2> QED
      BY <1>1, <2>1 DEF TypeOK, logVars
  <1>2. CASE ~UNCHANGED <<logVars, commitIndex, indexToApply, fatal>>
    <2>1. /\ role' = [role EXCEPT ![p] = "follower"]
          /\ currentTerm' = [currentTerm EXCEPT ![p] = a.term]
          /\ Matches(p, a)
          /\ \/ ~DeletesApplied(p, a) /\ StoreLogs(p, a)
             \/ DieOfFatalError(p)
      BY <1>2 DEF Handler
    <2>2. role' \in [Server -> Role] /\ currentTerm' \in [Server -> Term]
      BY <1>0, <2>1 DEF TypeOK, Role
    <2>3. CASE StoreLogs(p, a)
      <3> DEFINE deleted == {i \in Index : i > a.pre /\ log[p][i] # NoLog}
                 kept    == [i \in Index |-> IF i \in deleted THEN NoLog ELSE log[p][i]]
                 upto    == FollowerCommitIndex(a)
      <3>1. upto \in Index /\ upto \in 0..MaxIndex
        <4>1. a.commit \in Int /\ a.pre \in Int
          BY <1>0 DEF Index
        <4> QED
          BY <1>0, <4>1, MinOfTwo DEF FollowerCommitIndex, Index
      <3>2. kept \in [Index -> Term \cup {NoLog}]
        BY DEF TypeOK
      <3>3. /\ commitIndex' = [commitIndex EXCEPT ![p] = upto]
            /\ indexToApply' = [indexToApply EXCEPT ![p] = upto]
            /\ fatal' = fatal
            /\ \/ /\ a.entry # NoLog
                  /\ log' = [log EXCEPT ![p] = [kept EXCEPT ![a.index] = a.entry]]
                  /\ lastLogIndex' = [lastLogIndex EXCEPT ![p] = a.index]
                  /\ lastLogTerm' = [lastLogTerm EXCEPT ![p] = a.entry]
               \/ /\ log' = [log EXCEPT ![p] = kept]
                  /\ \/ /\ lastLogIndex' = [lastLogIndex EXCEPT ![p] = a.pre]
                        /\ lastLogTerm' = [lastLogTerm EXCEPT ![p] = a.preTerm]
                     \/ UNCHANGED <<lastLogIndex, lastLogTerm>>
        BY <2>3 DEF StoreLogs
      <3> HIDE DEF upto, kept
      <3>4. [kept EXCEPT ![a.index] = a.entry] \in [Index -> Term \cup {NoLog}]
        BY <1>0, <3>2
      <3>5. log' \in [Server -> [Index -> Term \cup {NoLog}]]
        BY <3>2, <3>3, <3>4 DEF TypeOK
      <3>6. lastLogIndex' \in [Server -> Index] /\ lastLogTerm' \in [Server -> Term]
        <4>1. a.entry # NoLog => a.entry \in Term
          BY <1>0
        <4> QED
          BY <1>0, <3>3, <4>1 DEF TypeOK
      <3>7. commitIndex' \in [Server -> Index] /\ indexToApply' \in [Server -> 0..MaxIndex]
        BY <3>1, <3>3 DEF TypeOK
      <3> QED
        BY <2>2, <3>3, <3>5, <3>6, <3>7 DEF TypeOK
    <2>4. CASE DieOfFatalError(p)
      <3> DEFINE kept == [i \in Index |-> IF i > lastApplied[p] THEN NoLog ELSE log[p][i]]
      <3>1. kept \in [Index -> Term \cup {NoLog}]
        BY DEF TypeOK
      <3>2. log' = [log EXCEPT ![p] = kept]
        BY <2>4 DEF DieOfFatalError
      <3> HIDE DEF kept
      <3> QED
        BY <2>2, <2>4, <3>1, <3>2 DEF DieOfFatalError, TypeOK
    <2> QED
      BY <2>1, <2>3, <2>4
  <1> QED
    BY <1>1, <1>2

LEMMA ServeTypes ==
    ASSUME TypeOK, NEW s \in Server, NEW p \in Server, AppendEntriesGetReply(s, p)
    PROVE  TypeOK'
  <1>1. PICK answer \in {Nil} \cup Reply :
          /\ Handler(p, call[s][p].args, answer)
          /\ IF answer = Nil THEN EndCall(s, p)
             ELSE call' = [call EXCEPT ![s][p] =
                             [st |-> "answered", args |-> @.args,
                              term |-> answer[1], status |-> answer[2]]]
    BY DEF AppendEntriesGetReply
  <1>2. call[s][p].args \in Args
    BY CallFields DEF AppendEntriesGetReply
  <1>3. call' \in [Server -> [Server -> Call \cup {Nil}]]
    <2>1. CASE answer = Nil
      BY <1>1, <2>1, EndCallTypes
    <2>2. CASE answer # Nil
      <3> DEFINE c == [st |-> "answered", args |-> call[s][p].args,
                       term |-> answer[1], status |-> answer[2]]
      <3>1. answer[1] \in Term /\ answer[2] \in 0..MaxIndex
        BY <2>2 DEF Reply
      <3>2. c \in Call
        BY <1>2, <3>1 DEF Call
      <3>3. call' = [call EXCEPT ![s][p] = c]
        BY <1>1, <2>2 DEF TypeOK
      <3> HIDE DEF c
      <3> QED
        BY <3>2, <3>3 DEF TypeOK
    <2> QED
      BY <2>1, <2>2
  <1>4. UNCHANGED <<votedVars, lastApplied, write, replicated, orphans, bounds, written,
                   reused, committed>>
    BY DEF AppendEntriesGetReply
  <1> QED
    BY <1>1, <1>2, <1>3, <1>4, HandlerTypes DEF TypeOK, votedVars, bounds

LEMMA ServeOrphanTypes ==
    ASSUME TypeOK, NEW o \in orphans, ServeOrphan(o)
    PROVE  TypeOK'
  <1>1. PICK answer : Handler(o[2], o[1], answer)
    BY DEF ServeOrphan
  <1>2. o[1] \in Args /\ o[2] \in Server
    BY DEF TypeOK
  <1>3. orphans' = orphans \ {o}
    BY DEF ServeOrphan
  <1>4. UNCHANGED <<votedVars, lastApplied, write, replicated, call, bounds, written,
                   reused, committed>>
    BY DEF ServeOrphan
  <1> QED
    BY <1>1, <1>2, <1>3, <1>4, HandlerTypes DEF TypeOK, votedVars, bounds

\* lastApplied on disk is at most lastApplied in memory.
LEMMA DurablyAppliedType ==
    ASSUME TypeOK, NEW s \in Server
    PROVE  DurablyApplied(s) \in Index /\ DurablyApplied(s) <= lastApplied[s]
  <1> DEFINE S == {1} \cup {i \in 2..lastApplied[s] : log[s][i] = log[s][i - 1]}
  <1>1. lastApplied[s] \in 1..MaxIndex
    BY DEF TypeOK, Index
  <1>2. MaxIndex \in Nat /\ S \subseteq 0..MaxIndex /\ S # {}
    BY <1>1, BoundAssumption
  <1>3. Max(S) \in S
    BY <1>2, MaxIsLargest
  <1>4. DurablyApplied(s) = Max(S)
    BY DEF DurablyApplied
  <1>5. S \subseteq 1..lastApplied[s]
    BY <1>1
  <1> HIDE DEF S
  <1>6. Max(S) \in 1..lastApplied[s]
    BY <1>3, <1>5
  <1> QED
    BY <1>1, <1>4, <1>6, BoundAssumption DEF Index

LEMMA RestartTypes ==
    ASSUME TypeOK, NEW s \in Server, Restart(s), log[s][1] # NoLog
    PROVE  TypeOK'
  <1>1. LastLogOnDisk(s) \in Index /\ log[s][LastLogOnDisk(s)] \in Term
    <2>1. 1 \in Index /\ 1 <= MaxIndex /\ MaxIndex \in Int
      BY BoundAssumption DEF Index
    <2> QED
      BY <2>1, PrevIndexIs DEF LastLogOnDisk
  <1>2. DurablyApplied(s) \in Index
    BY DurablyAppliedType
  <1>3. call' \in [Server -> [Server -> Call \cup {Nil}]]
    BY DEF Restart, TypeOK
  <1>4. orphans' \subseteq Args \X Server /\ restarts' \in Nat
    BY DEF Restart, TypeOK
  <1> QED
    BY <1>1, <1>2, <1>3, <1>4, BoundAssumption DEF Restart, TypeOK, Role, history

LEMMA ApplyTypes ==
    ASSUME TypeOK, NEW s \in Server, ApplyLog(s)
    PROVE  TypeOK'
  <1>1. lastApplied[s] + 1 \in Index
    BY BoundAssumption DEF ApplyLog, MayApply, TypeOK, Index
  <1> QED
    BY <1>1 DEF ApplyLog, TypeOK, votedVars, logVars, bounds, history

\* A log database is never empty: deletions leave the first log alone.
FirstLogOK == \A s \in Server : log[s][1] # NoLog

LEMMA FirstLogStored ==
    ASSUME TypeOK, FirstLogOK, NEW p \in Server, NEW a \in Args, NEW answer,
           Handler(p, a, answer)
    PROVE  FirstLogOK'
  <1>0. 1 \in Index /\ ~(1 > a.pre) /\ ~(1 > lastApplied[p]) /\ a.index \in Index
    BY BoundAssumption DEF Args, Index, TypeOK
  <1>1. CASE UNCHANGED log
    BY <1>1 DEF FirstLogOK
  <1>2. CASE StoreLogs(p, a)
    <2> DEFINE deleted == {i \in Index : i > a.pre /\ log[p][i] # NoLog}
               kept    == [i \in Index |-> IF i \in deleted THEN NoLog ELSE log[p][i]]
    <2>1. kept[1] # NoLog
      BY <1>0 DEF FirstLogOK
    <2>2. kept \in [Index -> Term \cup {NoLog}]
      BY DEF TypeOK
    <2>3. \/ /\ a.entry # NoLog
             /\ log' = [log EXCEPT ![p] = [kept EXCEPT ![a.index] = a.entry]]
          \/ log' = [log EXCEPT ![p] = kept]
      BY <1>2 DEF StoreLogs
    <2> HIDE DEF kept
    <2>4. a.entry # NoLog => [kept EXCEPT ![a.index] = a.entry][1] # NoLog
      BY <1>0, <2>1, <2>2
    <2>5. log'[p][1] # NoLog
      BY <2>1, <2>3, <2>4 DEF TypeOK
    <2>6. \A s \in Server \ {p} : log'[s] = log[s]
      BY <2>3 DEF TypeOK
    <2> QED
      BY <2>5, <2>6 DEF FirstLogOK
  <1>3. CASE DieOfFatalError(p)
    BY <1>0, <1>3 DEF DieOfFatalError, FirstLogOK, TypeOK
  <1> QED
    BY <1>1, <1>2, <1>3 DEF Handler, logVars

\* Every step of the cluster keeps the types, whatever the constants allow.
LEMMA TypeStep == TypeOK /\ FirstLogOK /\ [Next]_vars => TypeOK' /\ FirstLogOK'
  <1> SUFFICES ASSUME TypeOK, FirstLogOK, [Next]_vars PROVE TypeOK' /\ FirstLogOK'
    OBVIOUS
  <1>0. Up \subseteq Server
    BY DEF Up
  <1>1. ASSUME NEW s \in Server, NEW p \in Server,
               StartVote(s) \/ GrantVote(s, p) \/ DenyVote(s, p)
        PROVE  TypeOK' /\ FirstLogOK'
    <2>1. log' = log
      BY <1>1 DEF StartVote, GrantVote, DenyVote, logVars
    <2> QED
      BY <1>1, <2>1, VoteTypes DEF FirstLogOK
  <1>2. ASSUME NEW s \in Server,
               \/ EvaluateVoteResult(s) \/ PreCommit(s) \/ AddRaftEntry(s)
               \/ AbortWrite(s) \/ RetryConsensus(s)
        PROVE  TypeOK' /\ FirstLogOK'
    <2>1. CASE log' = log
      BY <1>2, <2>1, WriteTypes DEF FirstLogOK
    <2>2. CASE log' # log
      <3>1. PICK w \in Write : AddLog(s, w)
        <4>1. CASE EvaluateVoteResult(s)
          <5>1. NextWrite(s, TRUE) \in Write
            BY <4>1, NextWriteType DEF EvaluateVoteResult
          <5> QED
            BY <2>2, <4>1, <5>1 DEF EvaluateVoteResult, NoLogAdded, logVars
        <4>2. CASE AddRaftEntry(s)
          <5>1. write[s] \in Write
            BY <4>2 DEF AddRaftEntry, TypeOK
          <5> QED
            BY <2>2, <4>2, <5>1 DEF AddRaftEntry, NoLogAdded, logVars
        <4> QED
          BY <1>2, <2>2, <4>1, <4>2
          DEF PreCommit, AbortWrite, RetryConsensus, logVars
      <3>2. w.term # NoLog /\ w.index \in Index
        BY DEF Write, Term, NoLog, Index
      <3>3. FirstLogOK'
        BY <3>1, <3>2, BoundAssumption DEF AddLog, FirstLogOK, TypeOK, Index
      <3> QED
        BY <1>2, <3>3, WriteTypes
    <2> QED
      BY <2>1, <2>2
  <1>3. ASSUME NEW s \in Server, CommitWrite(s) \/ ApplyLog(s) \/ Restart(s)
        PROVE  TypeOK' /\ FirstLogOK'
    <2>1. log' = log
      BY <1>3 DEF CommitWrite, ApplyLog, Restart, logVars
    <2> QED
      BY <1>3, <2>1, CommitWriteTypes, ApplyTypes, RestartTypes DEF FirstLogOK
  <1>4. ASSUME NEW s \in Server, NEW p \in Server,
               \/ ReplyAfterLeadership(s, p) \/ ReplyMismatch(s, p) \/ ReplyMatch(s, p)
               \/ CallFail(s, p) \/ SendAppend(s, p) \/ SendPing(s, p)
        PROVE  TypeOK' /\ FirstLogOK'
    <2>1. log' = log
      BY <1>4 DEF ReplyAfterLeadership, ReplyMismatch, ReplyMatch, CallFail, SendAppend,
                  SendPing, logVars
    <2> QED
      BY <1>4, <2>1, ReplyTypes, CallFailTypes, SendTypes DEF FirstLogOK
  <1>5. ASSUME NEW s \in Server, NEW p \in Server, AppendEntriesGetReply(s, p)
        PROVE  TypeOK' /\ FirstLogOK'
    <2>1. PICK answer : Handler(p, call[s][p].args, answer)
      BY <1>5 DEF AppendEntriesGetReply
    <2>2. call[s][p].args \in Args
      BY <1>5, CallFields DEF AppendEntriesGetReply
    <2> QED
      BY <1>5, <2>1, <2>2, ServeTypes, FirstLogStored
  <1>6. ASSUME NEW o \in orphans, ServeOrphan(o)
        PROVE  TypeOK' /\ FirstLogOK'
    <2>1. PICK answer : Handler(o[2], o[1], answer)
      BY <1>6 DEF ServeOrphan
    <2>2. o[1] \in Args /\ o[2] \in Server
      BY DEF TypeOK
    <2> QED
      BY <1>6, <2>1, <2>2, ServeOrphanTypes, FirstLogStored
  <1>7. CASE UNCHANGED vars
    BY <1>7 DEF vars, TypeOK, FirstLogOK, votedVars, logVars, bounds, history
  <1> QED
    BY <1>0, <1>1, <1>2, <1>3, <1>4, <1>5, <1>6, <1>7 DEF Next, Peer

\* The variables of the replication keep their types in every behaviour of the
\* specification: also if calls outlive their round, are executed after their caller
\* has given them up, and servers crash and forget their votes.
THEOREM TypeCorrect == Spec => []TypeOK
  <1>1. Init => TypeOK /\ FirstLogOK
    <2>1. 1 \in Index
      BY BoundAssumption DEF Index
    <2>2. Init => FirstLogOK
      BY <2>1 DEF Init, FirstLogOK, NoLog
    <2> QED
      BY <2>2, InitTypes
  <1> QED
    BY <1>1, TypeStep, PTL DEF Spec

=============================================================================
