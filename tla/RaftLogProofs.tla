--------------------------- MODULE RaftLogProofs ---------------------------
(***************************************************************************)
(* The lwraft cluster implements RaftLog, one log that only grows and      *)
(* servers that apply prefixes of it: the refinement of RaftReplication,   *)
(* step by step.                                                           *)
(***************************************************************************)
EXTENDS RaftSafetyProofs

\* What the refinement of RaftReplication makes of the two variables of RaftLog.
ChosenLogs == {<<c[1], c[2]>> : c \in committed}
AppliedLogs == [s \in Server |-> [i \in 1..lastApplied[s] |-> log[s][i]]]

LEMMA AppliedType ==
    ASSUME TypeOK, NEW s \in Server
    PROVE  /\ lastApplied[s] \in Index /\ lastApplied[s] \in Nat
           /\ \A i \in 1..lastApplied[s] : i \in Index /\ i <= lastApplied[s]
  <1>1. lastApplied[s] \in Index
    BY DEF TypeOK
  <1> QED
    BY <1>1, BoundAssumption DEF Index

LEMMA CommittedType ==
    ASSUME TypeOK, NEW c \in committed
    PROVE  c[1] \in Index /\ c[3] \in Term
  BY DEF TypeOK

LEMMA IsCommittedLog ==
    ASSUME NEW i, NEW k, IsCommitted(i, k)
    PROVE  <<i, k>> \in ChosenLogs
  <1>1. PICK t \in Term : <<i, k, t>> \in committed
    BY DEF IsCommitted
  <1>2. PICK c \in committed : c[1] = i /\ c[2] = k
    BY <1>1
  <1> QED
    BY <1>2 DEF ChosenLogs

\* Whatever is chosen, and everything below it, is committed.
LEMMA ChosenCommitted ==
    ASSUME TypeOK, NEW i \in Index, NEW k, NEW t \in Term, Chosen(i, k, t)
    PROVE  /\ <<i, k>> \in ChosenLogs
           /\ \A j \in 1..i : \E x \in ChosenLogs : x[1] = j
  <1>1. PICK n \in Index : i <= n /\ Settled(n, t) /\ Below(i, k, n, t)
    BY DEF Chosen
  <1>2. PICK q \in Server : log[q][n] = t
    BY <1>1, SettledHeld
  <1>3. \A j \in 1..n : IsCommitted(j, log[q][j])
    BY <1>1, <1>2 DEF Settled
  <1>4. i \in 1..n /\ \A j \in 1..i : j \in 1..n
    BY <1>1 DEF Index
  <1>5. log[q][i] = k
    BY <1>1, <1>2 DEF Below
  <1>6. \A j \in 1..i : <<j, log[q][j]>> \in ChosenLogs
    BY <1>3, <1>4, IsCommittedLog
  <1>7. <<i, k>> \in ChosenLogs
    BY <1>3, <1>4, <1>5, IsCommittedLog
  <1>8. ASSUME NEW j \in 1..i
        PROVE  \E x \in ChosenLogs : x[1] = j
    <2>1. <<j, log[q][j]>> \in ChosenLogs
      BY <1>6
    <2> QED
      BY <2>1
  <1> QED
    BY <1>7, <1>8

\* What is committed is one log.
LEMMA CommittedIsLog ==
    ASSUME TypeOK, TreeOK, CommittedOK
    PROVE  Log!IsLog(ChosenLogs)
  <1>1. ASSUME NEW x \in ChosenLogs, NEW y \in ChosenLogs, x[1] = y[1]
        PROVE  x = y
    <2>1. PICK c \in committed : x = <<c[1], c[2]>>
      BY DEF ChosenLogs
    <2>2. PICK d \in committed : y = <<d[1], d[2]>>
      BY DEF ChosenLogs
    <2>3. c[1] = d[1]
      BY <1>1, <2>1, <2>2
    <2>4. Chosen(c[1], c[2], c[3]) /\ Chosen(c[1], d[2], d[3])
      BY <2>3 DEF CommittedOK
    <2>5. c[2] = d[2]
      BY <2>4, CommittedType, ChosenAgree
    <2> QED
      BY <2>1, <2>2, <2>3, <2>5
  <1>2. ASSUME NEW x \in ChosenLogs
        PROVE  \A i \in 1..x[1] : \E y \in ChosenLogs : y[1] = i
    <2>1. PICK c \in committed : x = <<c[1], c[2]>>
      BY DEF ChosenLogs
    <2>2. Chosen(c[1], c[2], c[3]) /\ c[1] \in Index /\ c[3] \in Term
      BY CommittedType DEF CommittedOK
    <2>3. x[1] = c[1]
      BY <2>1
    <2> QED
      BY <2>2, <2>3, ChosenCommitted
  <1> QED
    BY <1>1, <1>2 DEF Log!IsLog

\* What a server has applied is committed.
LEMMA AppliedIsPrefix ==
    ASSUME SafetyInv, NEW s \in Server
    PROVE  Log!Prefix(AppliedLogs[s], ChosenLogs)
  <1>0. TypeOK
    BY DEF SafetyInv
  <1>1. ASSUME NEW i \in 1..lastApplied[s]
        PROVE  <<i, log[s][i]>> \in ChosenLogs
    <2>1. i \in Index /\ i <= lastApplied[s]
      BY <1>0, AppliedType
    <2>2. PICK t \in Term : Chosen(i, log[s][i], t)
      BY <2>1, AppliedKept
    <2> QED
      BY <1>0, <2>1, <2>2, ChosenCommitted
  <1>2. AppliedLogs[s] = [i \in 1..lastApplied[s] |-> log[s][i]]
    BY DEF AppliedLogs
  <1> QED
    BY <1>1, <1>2 DEF Log!Prefix

\* One log, and prefixes of it: a fact about every state the invariant holds in, also
\* the next one.
AreOneLog ==
    Log!IsLog(ChosenLogs) /\ \A s \in Server : Log!Prefix(AppliedLogs[s], ChosenLogs)

LEMMA OneLog == SafetyInv => AreOneLog
  <1> SUFFICES ASSUME SafetyInv
               PROVE  AreOneLog
    OBVIOUS
  <1>1. Log!IsLog(ChosenLogs)
    BY CommittedIsLog DEF SafetyInv
  <1> QED
    BY <1>1, AppliedIsPrefix DEF AreOneLog

LEMMA OneLogNext == SafetyInv' => AreOneLog'
  BY OneLog, PTL

\* Nothing that a server has applied changes in its log.
LEMMA AppliedLogKept ==
    ASSUME SafetyInv, Step, NEW s \in Server, NEW i \in 1..lastApplied[s]
    PROVE  log'[s][i] = log[s][i]
  <1>1. i \in Index /\ i <= lastApplied[s]
    BY AppliedType DEF SafetyInv
  <1>2. KeepsChosen(s, i)
    BY <1>1, AppliedKept
  <1> QED
    BY <1>1, <1>2, KeepsChosenStable

\* The leader's lastApplied does not go back when it commits, the no-op included.
LEMMA CommitAdvances ==
    ASSUME SafetyInv, NEW s \in Server, CommitWrite(s)
    PROVE  lastApplied'[s] >= lastApplied[s] /\ lastApplied'[s] \in Index
  <1>0. TypeOK
    BY DEF SafetyInv
  <1>1. PICK n \in Index : n = write[s].index
    BY CommitEffect
  <1>2. lastApplied[s] <= n - 1
    <2>1. Waiting(s)
      BY CommitEffect
    <2>2. currentTerm[s] <= currentTerm[s]
      BY <1>0, LogType
    <2> QED
      BY <1>1, <2>1, <2>2 DEF SafetyInv, AheadOK, ApplyGuard
  <1>3. n - 1 \in Int /\ n \in Int /\ lastApplied[s] \in Int
    BY <1>0, <1>1, AppliedType DEF Index
  <1>4. PICK m : m = Max({n - 1, lastApplied[s]})
    OBVIOUS
  <1>5. m >= lastApplied[s] /\ m \in {n - 1, lastApplied[s]}
    BY <1>3, <1>4, MaxOfTwo
  <1>6. lastApplied'[s] = IF write[s].noop THEN m ELSE n
    BY <1>0, <1>1, <1>4 DEF CommitWrite, TypeOK
  <1>7. lastApplied'[s] \in Index
    BY CommitEffect
  <1> QED
    BY <1>2, <1>3, <1>5, <1>6, <1>7

\* What a server has applied stays as it is when its lastApplied does.
LEMMA AppliedSame ==
    ASSUME SafetyInv, Step, NEW s \in Server, lastApplied'[s] = lastApplied[s]
    PROVE  AppliedLogs'[s] = AppliedLogs[s]
  <1>1. /\ AppliedLogs[s] = [i \in 1..lastApplied[s] |-> log[s][i]]
        /\ AppliedLogs'[s] = [i \in 1..lastApplied'[s] |-> log'[s][i]]
    BY DEF AppliedLogs
  <1>2. \A i \in 1..lastApplied[s] : log'[s][i] = log[s][i]
    BY AppliedLogKept
  <1> QED
    BY <1>1, <1>2

LEMMA AppliedDomain ==
    ASSUME NEW s \in Server
    PROVE  /\ DOMAIN AppliedLogs[s] = 1..lastApplied[s]
           /\ DOMAIN AppliedLogs'[s] = 1..lastApplied'[s]
           /\ \A i \in 1..lastApplied[s] : AppliedLogs[s][i] = log[s][i]
           /\ \A i \in 1..lastApplied'[s] : AppliedLogs'[s][i] = log'[s][i]
  BY DEF AppliedLogs

\* A step that adds to what is committed, and by which one server applies more.
LEMMA Advances ==
    ASSUME Prompt, SafetyInv, Step, NEW s \in Server, committed \subseteq committed',
           lastApplied'[s] \in Index, lastApplied'[s] >= lastApplied[s],
           \A x \in Server \ {s} : lastApplied'[x] = lastApplied[x]
    PROVE  /\ ChosenLogs \subseteq ChosenLogs'
           /\ Log!IsLog(ChosenLogs')
           /\ \A p \in Server \ {s} : AppliedLogs'[p] = AppliedLogs[p]
           /\ DOMAIN AppliedLogs[s] \subseteq DOMAIN AppliedLogs'[s]
           /\ Log!Prefix(AppliedLogs'[s], ChosenLogs')
  <1>0. SafetyInv'
    BY SafetyStep DEF Step
  <1>1. ChosenLogs \subseteq ChosenLogs'
    BY DEF ChosenLogs
  <1>2. Log!IsLog(ChosenLogs')
    BY <1>0, OneLogNext DEF AreOneLog
  <1>3. \A p \in Server \ {s} : AppliedLogs'[p] = AppliedLogs[p]
    BY AppliedSame
  <1>4. DOMAIN AppliedLogs[s] \subseteq DOMAIN AppliedLogs'[s]
    <2>1. lastApplied[s] \in Nat /\ lastApplied'[s] \in Nat
      BY AppliedType DEF SafetyInv, Index
    <2>2. 1..lastApplied[s] \subseteq 1..lastApplied'[s]
      BY <2>1
    <2> QED
      BY <2>2, AppliedDomain
  <1>5. Log!Prefix(AppliedLogs'[s], ChosenLogs')
    BY <1>0, OneLogNext DEF AreOneLog
  <1> QED
    BY <1>1, <1>2, <1>3, <1>4, <1>5

\* Every step of the cluster is a step of the one log, or none.
LEMMA LogStep ==
    ASSUME Prompt, SafetyInv, Step
    PROVE  Log!Next \/ (ChosenLogs' = ChosenLogs /\ AppliedLogs' = AppliedLogs)
  <1>0. TypeOK /\ LogsOK
    BY DEF SafetyInv
  <1>1. ASSUME NEW s \in Server, committed \subseteq committed',
               lastApplied'[s] \in Index, lastApplied'[s] >= lastApplied[s],
               \A x \in Server \ {s} : lastApplied'[x] = lastApplied[x]
        PROVE  Log!Next
    BY <1>1, Advances DEF Log!Next, Log!Advance, ChosenLogs, AppliedLogs
  <1>2. ASSUME NEW s \in Server, CommitWrite(s)
        PROVE  Log!Next
    BY <1>1, <1>2, CommitEffect, CommitAdvances
  <1>3. ASSUME NEW s \in Server, ApplyLog(s)
        PROVE  Log!Next
    <2>1. /\ lastApplied'[s] = lastApplied[s] + 1 /\ lastApplied'[s] <= indexToApply[s]
          /\ \A x \in Server \ {s} : lastApplied'[x] = lastApplied[x]
          /\ committed' = committed
      BY <1>0, <1>3, ApplyLogEffect DEF history
    <2>2. lastApplied'[s] \in Index /\ lastApplied[s] \in Nat
      BY <1>0, TypesStep, AppliedType DEF TypeOK
    <2> QED
      BY <1>1, <2>1, <2>2
  <1>4. ASSUME NEW s \in Server, Restart(s)
        PROVE  Log!Next
    <2>1. /\ lastApplied'[s] \in Index /\ lastApplied'[s] <= lastApplied[s]
          /\ \A x \in Server \ {s} : lastApplied'[x] = lastApplied[x]
          /\ committed' = committed
      BY <1>0, <1>4 , RestartEffect DEF history
    <2>2. ChosenLogs' = ChosenLogs
      BY <2>1 DEF ChosenLogs
    <2>3. \A p \in Server \ {s} : AppliedLogs'[p] = AppliedLogs[p]
      BY <2>1, AppliedSame
    <2>4. 1..lastApplied'[s] \subseteq 1..lastApplied[s]
      BY <1>0, <2>1, AppliedType DEF Index
    <2>5. \A i \in 1..lastApplied'[s] : log'[s][i] = log[s][i]
      BY <2>4, AppliedLogKept
    <2>6. DOMAIN AppliedLogs'[s] \subseteq DOMAIN AppliedLogs[s]
      BY <2>4, AppliedDomain
    <2>7. \A i \in DOMAIN AppliedLogs'[s] : AppliedLogs'[s][i] = AppliedLogs[s][i]
      BY <2>4, <2>5, AppliedDomain
    <2> QED
      BY <2>2, <2>3, <2>6, <2>7 DEF Log!Next, Log!Repeat, ChosenLogs, AppliedLogs
  <1>5. CASE \A s \in Server : ~(CommitWrite(s) \/ ApplyLog(s) \/ Restart(s))
    <2>1. ChosenLogs' = ChosenLogs
      BY <1>5, CommittedChange DEF ChosenLogs
    <2>2. \A s \in Server : lastApplied'[s] = lastApplied[s]
      <3> SUFFICES ASSUME NEW s \in Server
                   PROVE  lastApplied'[s] = lastApplied[s]
        OBVIOUS
      <3>1. ASSUME NEW x \in Server, AppendEntriesGetReply(x, s), Accepts(x, s)
            PROVE  lastApplied' = lastApplied
        BY <3>1, AcceptEffect DEF AcceptedRest
      <3> QED
        BY <1>5, <3>1, AppliedChange
    <2>3. \A s \in Server : AppliedLogs'[s] = AppliedLogs[s]
      BY <2>2, AppliedSame
    <2>4. AppliedLogs' = AppliedLogs
      BY <2>3 DEF AppliedLogs
    <2> QED
      BY <2>1, <2>4
  <1> QED
    BY <1>2, <1>3, <1>4, <1>5

\* The cluster implements one log that only grows, of which every server applies a
\* prefix: a leader at its commit and at its no-op, the others in the apply thread.
THEOREM ClusterIsOneLog ==
    ASSUME Prompt
    PROVE  Spec => ImplementsRaftLog
  <1>1. Init => Log!Init
    <2> SUFFICES ASSUME Init
                 PROVE  Log!Init
      OBVIOUS
    <2>1. /\ committed = {<<1, 1, 1>>} /\ \A s \in Server : lastApplied[s] = 1
          /\ \A s \in Server : log[s][1] = 1
      BY BoundAssumption DEF Init, Index
    <2>2. ChosenLogs = {<<1, 1>>}
      BY <2>1 DEF ChosenLogs
    <2>3. AppliedLogs = [s \in Server |-> [i \in 1..1 |-> 1]]
      <3>1. ASSUME NEW s \in Server
            PROVE  [i \in 1..lastApplied[s] |-> log[s][i]] = [i \in 1..1 |-> 1]
        BY <2>1
      <3> QED
        BY <3>1 DEF AppliedLogs
    <2> QED
      BY <2>2, <2>3 DEF Log!Init, ChosenLogs, AppliedLogs
  <1>2. SafetyInv /\ [Next]_vars
          => Log!Next \/ (ChosenLogs' = ChosenLogs /\ AppliedLogs' = AppliedLogs)
    <2>1. ASSUME SafetyInv, Next
          PROVE  Log!Next \/ (ChosenLogs' = ChosenLogs /\ AppliedLogs' = AppliedLogs)
      BY <2>1, LogStep DEF Step, SafetyInv
    <2>2. ASSUME UNCHANGED vars
          PROVE  ChosenLogs' = ChosenLogs /\ AppliedLogs' = AppliedLogs
      BY <2>2 DEF vars, logVars, history, ChosenLogs, AppliedLogs
    <2> QED
      BY <2>1, <2>2
  <1>3. SafetyInv /\ [Next]_vars => [Log!Next]_<<ChosenLogs, AppliedLogs>>
    BY <1>2
  <1>4. Spec => Log!Init /\ [][Log!Next]_<<ChosenLogs, AppliedLogs>>
    BY <1>1, <1>3, SafetyHolds, PTL DEF Spec
  <1> QED
    BY <1>4, PTL DEF ImplementsRaftLog, Log!Spec, ChosenLogs, AppliedLogs
=============================================================================
