--------------------------- MODULE RaftStepProofs ---------------------------
(***************************************************************************)
(* What a step of RaftReplication may do to each part of the state: the    *)
(* facts from which RaftSafetyProofs shows that the invariant is kept.     *)
(***************************************************************************)
EXTENDS RaftReplicationProofs

\* A step in which no server has died and no call is executed late.
Step == Next /\ orphans = {} /\ fatal = {}

\* The actions of one server.
LEMMA StepCases ==
    ASSUME Step
    PROVE  \/ \E s \in Server :
                \/ StartVote(s) \/ EvaluateVoteResult(s)
                \/ PreCommit(s) \/ AddRaftEntry(s)
                \/ CommitWrite(s) \/ AbortWrite(s) \/ RetryConsensus(s)
                \/ ApplyLog(s) \/ Restart(s)
           \/ \E s, p \in Server : s # p /\
                (\/ ReplyAfterLeadership(s, p) \/ ReplyMismatch(s, p) \/ ReplyMatch(s, p)
                 \/ CallFail(s, p) \/ GrantVote(s, p) \/ DenyVote(s, p)
                 \/ SendAppend(s, p) \/ SendPing(s, p) \/ AppendEntriesGetReply(s, p))
  BY DEF Step, Next, Up, Peer

\* What a handler does to the variables of its server, and its answer.
Unlogged(p) == log'[p] = log[p] /\ lastLogIndex'[p] = lastLogIndex[p]
                 /\ lastLogTerm'[p] = lastLogTerm[p]

\* Only the logs of p may change.
OthersLogs(p) == \A x \in Server \ {p} : Unlogged(x)

\* The call of s to p is answered.
Answered(s, p, t, status) ==
    /\ call'[s][p] = [st |-> "answered", args |-> call[s][p].args,
                      term |-> t, status |-> status]
    /\ \A x, y \in Server : x # s \/ y # p => call'[x][y] = call[x][y]

Ended(s, p) ==
    /\ call'[s][p] = Nil
    /\ \A x, y \in Server : x # s \/ y # p => call'[x][y] = call[x][y]

\* p becomes follower of term t.
Follows(p, t) ==
    /\ role'[p] = "follower" /\ currentTerm'[p] = t
    /\ \A x \in Server \ {p} : role'[x] = role[x] /\ currentTerm'[x] = currentTerm[x]

Rejects(s, p) ==
    /\ call[s][p].args.term < currentTerm[p]
    /\ UNCHANGED <<role, currentTerm, logVars, commitIndex, indexToApply>>
    /\ Answered(s, p, currentTerm[p], lastLogIndex[p])

StepsDown(s, p) ==
    /\ call[s][p].args.term > currentTerm[p]
    /\ Follows(p, call[s][p].args.term)
    /\ UNCHANGED <<logVars, commitIndex, indexToApply>>
    /\ Ended(s, p)

Differs(s, p) ==
    /\ call[s][p].args.term >= currentTerm[p]
    /\ ~Matches(p, call[s][p].args)
    /\ Follows(p, call[s][p].args.term)
    /\ UNCHANGED <<logVars, commitIndex, indexToApply>>
    /\ Answered(s, p, call[s][p].args.term, lastLogIndex[p])

Accepts(s, p) ==
    /\ call[s][p].args.term >= currentTerm[p]
    /\ Matches(p, call[s][p].args)
    /\ ~DeletesApplied(p, call[s][p].args)
    /\ Follows(p, call[s][p].args.term)
    /\ StoreLogs(p, call[s][p].args)
    /\ Answered(s, p, call[s][p].args.term, 0)

LEMMA CallUpdate ==
    ASSUME TypeOK, NEW s \in Server, NEW p \in Server, NEW c,
           call' = [call EXCEPT ![s][p] = c]
    PROVE  /\ call'[s][p] = c
           /\ \A x, y \in Server : x # s \/ y # p => call'[x][y] = call[x][y]
  BY DEF TypeOK

LEMMA EndCallEffect ==
    ASSUME TypeOK, NEW s \in Server, NEW p \in Server, EndCall(s, p)
    PROVE  Ended(s, p)
  <1>1. call' = [call EXCEPT ![s][p] = Nil]
    BY DEF EndCall
  <1> QED
    BY <1>1 DEF Ended, TypeOK

\* A call that is not to delete an applied log is rejected, makes a candidate or a
\* leader step down, or is answered.
LEMMA HandlerCases ==
    ASSUME TypeOK, NEW s \in Server, NEW p \in Server, AppendEntriesGetReply(s, p),
           call[s][p].args.term >= currentTerm[p] => ~DeletesApplied(p, call[s][p].args)
    PROVE  /\ call[s][p] # Nil /\ call[s][p].st = "sent"
           /\ UNCHANGED <<votedVars, lastApplied, write, replicated, orphans, bounds,
                          written, reused, committed, fatal>>
           /\ Rejects(s, p) \/ StepsDown(s, p) \/ Differs(s, p) \/ Accepts(s, p)
  <1> DEFINE a == call[s][p].args
  <1>1. PICK answer \in {Nil} \cup Reply :
          /\ Handler(p, a, answer)
          /\ IF answer = Nil THEN EndCall(s, p)
             ELSE call' = [call EXCEPT ![s][p] =
                             [st |-> "answered", args |-> @.args,
                              term |-> answer[1], status |-> answer[2]]]
    BY DEF AppendEntriesGetReply
  <1>2. /\ call[s][p] # Nil /\ call[s][p].st = "sent"
        /\ UNCHANGED <<votedVars, lastApplied, write, replicated, orphans, bounds,
                       written, reused, committed>>
    BY DEF AppendEntriesGetReply
  <1>3. a.term \in Nat /\ currentTerm[p] \in Nat
    <2>1. a.term \in Term
      BY <1>2, CallFields
    <2> QED
      BY <2>1, BoundAssumption DEF TypeOK, Term
  <1>4. answer = Nil => Ended(s, p)
    <2>1. answer = Nil => call' = [call EXCEPT ![s][p] = Nil]
      BY <1>1 DEF EndCall
    <2> QED
      BY <2>1, CallUpdate DEF Ended
  <1>5. answer # Nil => Answered(s, p, answer[1], answer[2])
    <2>0. PICK c : c = [st |-> "answered", args |-> a,
                        term |-> answer[1], status |-> answer[2]]
      OBVIOUS
    <2>1. answer # Nil => call' = [call EXCEPT ![s][p] = c]
      BY <1>1, <2>0 DEF TypeOK
    <2>2. ASSUME answer # Nil
          PROVE  /\ call'[s][p] = c
                 /\ \A x, y \in Server : x # s \/ y # p => call'[x][y] = call[x][y]
      <3>1. call' = [call EXCEPT ![s][p] = c]
        BY <2>1, <2>2
      <3> HIDE DEF a
      <3> QED
        BY <3>1 DEF TypeOK
    <2> QED
      BY <2>0, <2>2 DEF Answered
  <1>6. role' = [role EXCEPT ![p] = "follower"]
        /\ currentTerm' = [currentTerm EXCEPT ![p] = a.term] => Follows(p, a.term)
    BY DEF Follows, TypeOK
  <1>7. lastLogIndex[p] \in 0..MaxIndex /\ 0 \in 0..MaxIndex
    BY BoundAssumption DEF TypeOK, Index
  <1>8. a.term \in Term /\ currentTerm[p] \in Term
    BY <1>2, CallFields DEF TypeOK
  <1>9. \A t \in Term, st \in 0..MaxIndex :
           answer = <<t, st>> => answer # Nil /\ answer[1] = t /\ answer[2] = st
    BY NilAssumption DEF Reply
  <1> HIDE DEF a
  <1>10. CASE a.term < currentTerm[p]
    <2>1. /\ answer = <<currentTerm[p], lastLogIndex[p]>>
          /\ UNCHANGED <<role, currentTerm, logVars, commitIndex, indexToApply, fatal>>
      BY <1>1, <1>3, <1>10 DEF Handler
    <2>2. Answered(s, p, currentTerm[p], lastLogIndex[p])
      BY <1>5, <1>7, <1>8, <1>9, <2>1
    <2> QED
      BY <1>2, <1>10, <2>1, <2>2 DEF Rejects, a
  <1>11. CASE a.term > currentTerm[p] /\ role[p] # "follower"
    <2>1. /\ answer = Nil
          /\ Follows(p, a.term)
          /\ UNCHANGED <<logVars, commitIndex, indexToApply, fatal>>
      BY <1>1, <1>3, <1>6, <1>11 DEF Handler
    <2> QED
      BY <1>2, <1>4, <1>11, <2>1 DEF StepsDown, a
  <1>12. CASE a.term = currentTerm[p] \/ (a.term > currentTerm[p] /\ role[p] = "follower")
    <2>1. /\ role' = [role EXCEPT ![p] = "follower"]
          /\ currentTerm' = [currentTerm EXCEPT ![p] = a.term]
          /\ \/ /\ ~Matches(p, a)
                /\ answer = <<a.term, lastLogIndex[p]>>
                /\ UNCHANGED <<logVars, commitIndex, indexToApply, fatal>>
             \/ /\ Matches(p, a)
                /\ ~DeletesApplied(p, a)
                /\ answer = <<a.term, 0>>
                /\ StoreLogs(p, a)
             \/ DeletesApplied(p, a)
      BY <1>1, <1>3, <1>12 DEF Handler
    <2>2. Follows(p, a.term) /\ a.term >= currentTerm[p] /\ ~DeletesApplied(p, a)
      BY <1>3, <1>6, <1>12, <2>1 DEF a
    <2>3. CASE ~Matches(p, a) /\ answer = <<a.term, lastLogIndex[p]>>
                /\ UNCHANGED <<logVars, commitIndex, indexToApply, fatal>>
      <3>1. Answered(s, p, a.term, lastLogIndex[p])
        BY <1>5, <1>7, <1>8, <1>9, <2>3
      <3> QED
        BY <1>2, <2>2, <2>3, <3>1 DEF Differs, a
    <2>4. CASE Matches(p, a) /\ answer = <<a.term, 0>> /\ StoreLogs(p, a)
      <3>1. Answered(s, p, a.term, 0)
        BY <1>5, <1>7, <1>8, <1>9, <2>4
      <3>2. fatal' = fatal
        BY <2>4 DEF StoreLogs
      <3> QED
        BY <1>2, <2>2, <2>4, <3>1, <3>2 DEF Accepts, a
    <2> QED
      BY <2>1, <2>2, <2>3, <2>4
  <1> QED
    BY <1>3, <1>10, <1>11, <1>12

\* What StoreLogs leaves of the logs of p.
LEMMA StoredLogs ==
    ASSUME TypeOK, LogsOK, NEW p \in Server, NEW a \in Args, StoreLogs(p, a), Matches(p, a),
           a.entry # NoLog => a.index = a.pre + 1
    PROVE  /\ OthersLogs(p)
           /\ \A i \in Index :
                 log'[p][i] = IF i <= a.pre THEN log[p][i]
                              ELSE IF i = a.pre + 1 THEN a.entry ELSE NoLog
           /\ lastLogIndex[p] >= a.pre
           /\ lastLogIndex'[p] = IF a.entry # NoLog THEN a.pre + 1 ELSE a.pre
           /\ \/ a.entry # NoLog /\ lastLogTerm'[p] = a.entry
              \/ a.entry = NoLog /\ lastLogTerm'[p] = a.preTerm
              \/ a.entry = NoLog /\ lastLogTerm'[p] = lastLogTerm[p]
                                 /\ lastLogIndex[p] = a.pre
           /\ commitIndex'[p] = FollowerCommitIndex(a)
           /\ indexToApply'[p] = FollowerCommitIndex(a)
           /\ \A x \in Server \ {p} : /\ commitIndex'[x] = commitIndex[x]
                                      /\ indexToApply'[x] = indexToApply[x]
  <1> DEFINE deleted == {i \in Index : i > a.pre /\ log[p][i] # NoLog}
             kept    == [i \in Index |-> IF i \in deleted THEN NoLog ELSE log[p][i]]
  <1>1. /\ a.pre \in Index /\ a.index \in Index /\ a.preTerm \in Term
        /\ a.entry \in Term \cup {NoLog}
    BY DEF Args
  <1>2. log[p][a.pre] = a.preTerm /\ a.preTerm # NoLog
    BY <1>1 DEF Matches, Term, NoLog
  <1>3. lastLogIndex[p] >= a.pre /\ lastLogIndex[p] \in Index
    BY <1>1, <1>2 DEF LogsOK, TypeOK, Index
  <1>4. \A i \in Index : kept[i] = IF i <= a.pre THEN log[p][i] ELSE NoLog
    BY <1>1 DEF Index
  <1>5. kept \in [Index -> Term \cup {NoLog}]
    BY DEF TypeOK
  <1>6. /\ commitIndex' = [commitIndex EXCEPT ![p] = FollowerCommitIndex(a)]
        /\ indexToApply' = [indexToApply EXCEPT ![p] = FollowerCommitIndex(a)]
        /\ IF a.entry # NoLog
           THEN /\ log' = [log EXCEPT ![p] = [kept EXCEPT ![a.index] = a.entry]]
                /\ lastLogIndex' = [lastLogIndex EXCEPT ![p] = a.index]
                /\ lastLogTerm' = [lastLogTerm EXCEPT ![p] = a.entry]
           ELSE /\ log' = [log EXCEPT ![p] = kept]
                /\ IF \E i \in deleted : i <= lastLogIndex[p]
                   THEN /\ lastLogIndex' = [lastLogIndex EXCEPT ![p] = a.pre]
                        /\ lastLogTerm' = [lastLogTerm EXCEPT ![p] = a.preTerm]
                   ELSE UNCHANGED <<lastLogIndex, lastLogTerm>>
    BY DEF StoreLogs
  <1>7. lastLogIndex[p] > a.pre => \E i \in deleted : i <= lastLogIndex[p]
    <2>1. log[p][lastLogIndex[p]] # NoLog
      BY <1>3 DEF LogsOK, Index
    <2> QED
      BY <1>3, <2>1 DEF Index
  <1> HIDE DEF kept, deleted
  <1>8. /\ commitIndex'[p] = FollowerCommitIndex(a)
        /\ indexToApply'[p] = FollowerCommitIndex(a)
        /\ \A x \in Server \ {p} : /\ commitIndex'[x] = commitIndex[x]
                                   /\ indexToApply'[x] = indexToApply[x]
    BY <1>6 DEF TypeOK
  <1>9. CASE a.entry # NoLog
    <2>1. log'[p] = [kept EXCEPT ![a.index] = a.entry] /\ OthersLogs(p)
      BY <1>6, <1>9 DEF OthersLogs, Unlogged, TypeOK
    <2>2. \A i \in Index : log'[p][i] = IF i = a.index THEN a.entry ELSE kept[i]
      BY <1>5, <2>1
    <2>3. lastLogIndex'[p] = a.index /\ lastLogTerm'[p] = a.entry
      BY <1>6, <1>9 DEF TypeOK
    <2>4. \A i \in Index :
                 log'[p][i] = IF i <= a.pre THEN log[p][i]
                              ELSE IF i = a.pre + 1 THEN a.entry ELSE NoLog
      BY <1>1, <1>4, <1>9, <2>2 DEF Index
    <2> QED
      BY <1>3, <1>8, <1>9, <2>1, <2>3, <2>4
  <1>10. CASE a.entry = NoLog
    <2>1. log'[p] = kept /\ OthersLogs(p)
      BY <1>6, <1>10 DEF OthersLogs, Unlogged, TypeOK
    <2>2. \A i \in Index :
                 log'[p][i] = IF i <= a.pre THEN log[p][i]
                              ELSE IF i = a.pre + 1 THEN a.entry ELSE NoLog
      BY <1>1, <1>4, <1>10, <2>1 DEF Index
    <2>3. CASE lastLogIndex[p] > a.pre
      <3>1. lastLogIndex'[p] = a.pre /\ lastLogTerm'[p] = a.preTerm
        BY <1>6, <1>7, <1>10, <2>3 DEF TypeOK
      <3> QED
        BY <1>3, <1>8, <1>10, <2>1, <2>2, <3>1
    <2>4. CASE lastLogIndex[p] = a.pre
      <3>1. lastLogIndex'[p] = a.pre
            /\ (lastLogTerm'[p] = a.preTerm \/ lastLogTerm'[p] = lastLogTerm[p])
        BY <1>6, <1>10, <2>4 DEF TypeOK
      <3> QED
        BY <1>3, <1>8, <1>10, <2>1, <2>2, <2>4, <3>1
    <2> QED
      BY <1>1, <1>3, <2>3, <2>4 DEF Index
  <1> QED
    BY <1>9, <1>10

\* What AddLog does.
Added(s, w) ==
    /\ \A i \in Index : log'[s][i] = IF i = w.index THEN w.term ELSE log[s][i]
    /\ \A x \in Server \ {s} : log'[x] = log[x] /\ lastLogIndex'[x] = lastLogIndex[x]
    /\ lastLogIndex'[s] = w.index
    /\ lastLogTerm' = lastLogTerm
    /\ written' = written \cup {<<w.index, w.term, log[s][w.index - 1]>>}
    /\ reused' = (reused \/ \E l \in written : l[1] = w.index /\ l[2] = w.term)
    /\ write'[s].st = "logged" /\ write'[s].index = w.index /\ write'[s].term = w.term
    /\ write'[s] # Nil
    /\ replicated'[s] = {}
    /\ \A x \in Server \ {s} : write'[x] = write[x] /\ replicated'[x] = replicated[x]

LEMMA AddLogEffect ==
    ASSUME TypeOK, NEW s \in Server, NEW w \in Write, AddLog(s, w)
    PROVE  Added(s, w)
  <1>1. [w EXCEPT !.st = "logged"] \in Write
    BY DEF Write
  <1>2. write'[s] = [w EXCEPT !.st = "logged"] /\ write'[s] # Nil
    BY <1>1, NilAssumption DEF AddLog, TypeOK
  <1>3. write'[s].st = "logged" /\ write'[s].index = w.index /\ write'[s].term = w.term
    BY <1>2 DEF Write
  <1>4. w.index \in Index /\ w.term \in Term
    BY DEF Write
  <1>5. /\ \A i \in Index : log'[s][i] = IF i = w.index THEN w.term ELSE log[s][i]
        /\ \A x \in Server \ {s} : log'[x] = log[x] /\ lastLogIndex'[x] = lastLogIndex[x]
        /\ lastLogIndex'[s] = w.index
    BY <1>4 DEF AddLog, TypeOK
  <1>6. /\ replicated'[s] = {}
        /\ \A x \in Server \ {s} : write'[x] = write[x] /\ replicated'[x] = replicated[x]
    BY DEF AddLog, TypeOK
  <1>7. reused' = (reused \/ \E l \in written : l[1] = w.index /\ l[2] = w.term)
    BY DEF AddLog
  <1> QED
    BY <1>2, <1>3, <1>5, <1>6, <1>7 DEF AddLog, Added

\* The new leader's no-op log.
LEMMA EvaluateEffect ==
    ASSUME TypeOK, LogsOK, NEW s \in Server, EvaluateVoteResult(s)
    PROVE  LET w == NextWrite(s, TRUE) IN
           /\ w \in Write /\ w.index = lastLogIndex[s] + 1 /\ w.term = currentTerm[s]
           /\ Added(s, w)
           /\ role'[s] = "leader"
           /\ votes'[s] = {}
           /\ \A x \in Server \ {s} : role'[x] = role[x] /\ votes'[x] = votes[x]
           /\ UNCHANGED <<currentTerm, votedFor, votedForTerm, commitIndex, indexToApply,
                          lastApplied, call, orphans, bounds, committed, fatal>>
  <1> DEFINE w == NextWrite(s, TRUE)
  <1>1. w \in Write /\ w.index = lastLogIndex[s] + 1 /\ w.term = currentTerm[s]
    BY NextWriteType DEF EvaluateVoteResult, NextWrite
  <1>2. log[s][lastLogIndex[s] + 1] = NoLog
    <2>1. lastLogIndex[s] + 1 \in Index /\ ~(lastLogIndex[s] + 1 <= lastLogIndex[s])
      BY BoundAssumption DEF TypeOK, Index, EvaluateVoteResult
    <2> QED
      BY <2>1 DEF LogsOK
  <1>3. AddLog(s, w) /\ role' = [role EXCEPT ![s] = "leader"]
    BY <1>2 DEF EvaluateVoteResult
  <1> HIDE DEF w
  <1>4. Added(s, w)
    BY <1>1, <1>3, AddLogEffect
  <1> QED
    BY <1>1, <1>3, <1>4 DEF EvaluateVoteResult, TypeOK, w

\* A client's log that can be added.
LEMMA AddRaftEntryEffect ==
    ASSUME TypeOK, NEW s \in Server, AddRaftEntry(s)
    PROVE  /\ write[s] \in Write /\ write[s] # Nil /\ write[s].st = "chosen"
           /\ UNCHANGED <<role, currentTerm, votedVars, commitIndex, indexToApply,
                          lastApplied, call, orphans, bounds, committed, fatal>>
           /\ \/ log[s][write[s].index] = NoLog /\ Added(s, write[s])
              \/ /\ log[s][write[s].index] # NoLog
                 /\ write'[s] = Nil
                 /\ \A x \in Server \ {s} : write'[x] = write[x]
                 /\ UNCHANGED <<logVars, replicated, written, reused>>
  <1>1. write[s] \in Write /\ write[s] # Nil /\ write[s].st = "chosen"
    BY DEF AddRaftEntry, TypeOK
  <1>2. CASE log[s][write[s].index] = NoLog
    BY <1>1, <1>2, AddLogEffect DEF AddRaftEntry
  <1>3. CASE log[s][write[s].index] # NoLog
    BY <1>1, <1>3 DEF AddRaftEntry, NoLogAdded, TypeOK
  <1> QED
    BY <1>1, <1>2, <1>3 DEF AddRaftEntry

-----------------------------------------------------------------------------
(* Calls sent *)

\* Leader s sends p the log entry, or none, after its log pre.
SentCall(s, p, pre, entry) ==
    /\ role[s] = "leader"
    /\ pre \in Index /\ log[s][pre] # NoLog
    /\ entry # NoLog => pre + 1 \in Index /\ log[s][pre + 1] = entry
    /\ call'[s][p] # Nil /\ call'[s][p].st = "sent"
    /\ call'[s][p].args.pre = pre
    /\ call'[s][p].args.preTerm = log[s][pre]
    /\ call'[s][p].args.entry = entry
    /\ entry # NoLog => call'[s][p].args.index = pre + 1
    /\ call'[s][p].args.term = currentTerm[s]
    /\ call'[s][p].args.commit = commitIndex[s]
    /\ \A x, y \in Server : x # s \/ y # p => call'[x][y] = call[x][y]

LEMMA SendCallEffect ==
    ASSUME TypeOK, NEW s \in Server, NEW p \in Server, role[s] = "leader",
           NEW append, NEW start, NEW pre \in Index, NEW i, NEW entry,
           log[s][pre] # NoLog,
           entry # NoLog => i = pre + 1 /\ i \in Index /\ log[s][i] = entry,
           append \in BOOLEAN, start \in Index,
           SendCall(s, p, append, start, pre, i, entry)
    PROVE  SentCall(s, p, pre, entry)
  <1> DEFINE a == [append |-> append, start |-> start, pre |-> pre,
                   preTerm |-> log[s][pre],
                   index |-> IF entry = NoLog THEN 1 ELSE i,
                   entry |-> entry,
                   term |-> currentTerm[s], commit |-> commitIndex[s]]
             c == [st |-> "sent", args |-> a]
  <1>1. call' = [call EXCEPT ![s][p] = c]
    BY DEF SendCall
  <1>2. entry \in Term \cup {NoLog}
    BY DEF TypeOK
  <1>3. call' \in [Server -> [Server -> Call \cup {Nil}]]
    BY <1>2, SendCallTypes
  <1>4. c \in Call
    <2>1. log[s][pre] \in Term /\ currentTerm[s] \in Term /\ commitIndex[s] \in Index
      BY DEF TypeOK
    <2>2. 1 \in Index
      BY BoundAssumption DEF Index
    <2>3. a \in Args
      BY <1>2, <2>1, <2>2 DEF Args
    <2> HIDE DEF a
    <2> QED
      BY <2>3 DEF Call
  <1>5. c # Nil
    BY <1>4, NilAssumption
  <1> HIDE DEF c
  <1>6. /\ call'[s][p] = c
        /\ \A x, y \in Server : x # s \/ y # p => call'[x][y] = call[x][y]
    BY <1>1, CallUpdate
  <1>7. /\ c.st = "sent" /\ c.args.pre = pre /\ c.args.preTerm = log[s][pre]
        /\ c.args.entry = entry /\ (entry # NoLog => c.args.index = i)
        /\ c.args.term = currentTerm[s] /\ c.args.commit = commitIndex[s]
    BY DEF c
  <1> QED
    BY <1>5, <1>6, <1>7 DEF SentCall

\* A leader's previous log is the one before.
LEMMA PrevIndexOfLog ==
    ASSUME TypeOK, LogsOK, NEW s \in Server, NEW i \in Index, i <= lastLogIndex[s]
    PROVE  PrevIndex(s, i) = i
  <1>1. log[s][i] # NoLog /\ i \in Int
    BY DEF LogsOK, Index
  <1>2. PrevIndex(s, i) >= i /\ PrevIndex(s, i) > 0 /\ PrevIndex(s, i) \in 0..MaxIndex
    BY <1>1, PrevIndexIs DEF Index
  <1>3. PrevIndex(s, i) <= i
    BY <1>1, <1>2, PrevIndexIs
  <1> QED
    BY <1>2, <1>3 DEF Index

LEMMA SendAppendEffect ==
    ASSUME TypeOK, LogsOK, LeadersOK, NEW s \in Server, NEW p \in Server, SendAppend(s, p)
    PROVE  /\ Waiting(s) /\ write[s].index = lastLogIndex[s]
           /\ write[s].term = currentTerm[s]
           /\ SentCall(s, p, write[s].index - 1, write[s].term)
           /\ UNCHANGED <<role, currentTerm, votedVars, logVars, commitIndex, indexToApply,
                          lastApplied, write, replicated, orphans, bounds, history>>
  <1> DEFINE n == write[s].index
  <1>1. /\ Waiting(s) /\ role[s] = "leader"
        /\ n = lastLogIndex[s] /\ write[s].term = currentTerm[s]
        /\ log[s][n] = write[s].term
    BY DEF SendAppend, ProxyFree, LeadersOK, Waiting
  <1>2. n \in Index /\ n - 1 \in Index
    <2>1. write[s] \in Write
      BY DEF SendAppend, TypeOK
    <2> QED
      BY <2>1, BoundAssumption DEF Write, Index
  <1>3. PrevIndex(s, n - 1) = n - 1
    BY <1>1, <1>2, PrevIndexOfLog DEF Index
  <1>4. log[s][n - 1] # NoLog
    BY <1>1, <1>2 DEF LogsOK, Index
  <1>5. SendCall(s, p, TRUE, n, n - 1, n, write[s].term)
    BY <1>3 DEF SendAppend
  <1>6. n = (n - 1) + 1
    BY <1>2 DEF Index
  <1> HIDE DEF n
  <1>7. SentCall(s, p, n - 1, write[s].term)
    BY <1>1, <1>2, <1>4, <1>5, <1>6, SendCallEffect
  <1> QED
    BY <1>1, <1>7 DEF SendAppend, n

LEMMA SendPingEffect ==
    ASSUME TypeOK, LogsOK, NEW s \in Server, NEW p \in Server, SendPing(s, p)
    PROVE  /\ SentCall(s, p, lastLogIndex[s], NoLog)
           /\ UNCHANGED <<role, currentTerm, votedVars, logVars, commitIndex, indexToApply,
                          lastApplied, write, replicated, orphans, bounds, history>>
  <1> DEFINE n == lastLogIndex[s]
  <1>1. n \in Index /\ n + 1 \in Int /\ log[s][n] # NoLog
    BY DEF TypeOK, LogsOK, Index
  <1>2. PrevIndex(s, n + 1) = n
    <2>1. PrevIndex(s, n + 1) > 0
      BY DEF SendPing
    <2>2. PrevIndex(s, n + 1) \in Index /\ PrevIndex(s, n + 1) >= n
      BY <1>1, <2>1, PrevIndexIs DEF Index
    <2>3. log[s][PrevIndex(s, n + 1)] # NoLog
      BY <1>1, <2>1, PrevIndexIs DEF Term, NoLog
    <2>4. PrevIndex(s, n + 1) <= n
      BY <2>2, <2>3 DEF LogsOK
    <2> QED
      BY <1>1, <2>2, <2>4 DEF Index
  <1>3. SendCall(s, p, FALSE, n, n, 0, NoLog) /\ role[s] = "leader"
    BY <1>2 DEF SendPing, ProxyFree
  <1>4. SentCall(s, p, n, NoLog)
    BY <1>1, <1>3, SendCallEffect
  <1> QED
    BY <1>4 DEF SendPing

\* The peer's logs differ: the leader, which has all logs up to the one it tried, sends
\* an earlier one or gives up.
LEMMA ReplyMismatchEffect ==
    ASSUME TypeOK, LogsOK, CallsOK, NEW s \in Server, NEW p \in Server, ReplyMismatch(s, p)
    PROVE  LET a == call[s][p].args
               i == SearchFrom(a, call[s][p].status) IN
           /\ role[s] = "leader" /\ call[s][p] # Nil
           /\ call[s][p].st = "answered" /\ call[s][p].status # 0
           /\ call[s][p].term <= currentTerm[s]
           /\ i \in Index
           /\ \/ i > 1 /\ SentCall(s, p, i - 1, log[s][i]) /\ log[s][i] # NoLog
              \/ Ended(s, p)
           /\ UNCHANGED <<role, currentTerm, votedVars, logVars, commitIndex, indexToApply,
                          lastApplied, write, replicated, orphans, bounds, history>>
  <1> DEFINE a == call[s][p].args
             i == SearchFrom(a, call[s][p].status)
  <1>1. /\ role[s] = "leader" /\ call[s][p] # Nil
        /\ call[s][p].st = "answered" /\ call[s][p].status # 0
        /\ call[s][p].term <= currentTerm[s]
    BY DEF ReplyMismatch, Answer
  <1>2. /\ a \in Args /\ a.pre \in Index /\ call[s][p].status \in 0..MaxIndex
        /\ a.append \in BOOLEAN /\ a.start \in Index /\ a.preTerm \in Term
    BY <1>1, CallFields
  <1>3. i \in Index /\ i <= a.pre
    BY <1>1, <1>2, SearchFromType
  <1>4. log[s][a.pre] = a.preTerm /\ a.preTerm # NoLog
    <2>1. CallOK(s, p)
      BY DEF CallsOK
    <2>2. log[s][a.pre] = a.preTerm
      BY <1>1, <2>1 DEF CallOK
    <2> QED
      BY <1>2, <2>2 DEF Term, NoLog
  <1>5. a.pre <= lastLogIndex[s] /\ i <= lastLogIndex[s] /\ log[s][i] # NoLog
    <2>1. lastLogIndex[s] \in Index
      BY DEF TypeOK
    <2>2. a.pre <= lastLogIndex[s]
      BY <1>2, <1>4 DEF LogsOK
    <2> HIDE DEF a, i
    <2>3. i <= lastLogIndex[s]
      BY <1>2, <1>3, <2>1, <2>2 DEF Index
    <2> QED
      BY <1>3, <2>2, <2>3 DEF LogsOK
  <1>6. CASE i > 1
    <2>1. i - 1 \in Index /\ i - 1 <= lastLogIndex[s] /\ i = (i - 1) + 1 /\ i - 1 > 0
      <3>1. lastLogIndex[s] \in Index
        BY DEF TypeOK
      <3> HIDE DEF i
      <3> QED
        BY <1>3, <1>5, <1>6, <3>1, BoundAssumption DEF Index
    <2>2. PrevIndex(s, i - 1) = i - 1 /\ log[s][i - 1] # NoLog
      BY <2>1, PrevIndexOfLog DEF LogsOK
    <2>3. SendCall(s, p, a.append, a.start, i - 1, i, log[s][i])
      BY <1>5, <2>1, <2>2 DEF ReplyMismatch
    <2> HIDE DEF a, i
    <2>4. SentCall(s, p, i - 1, log[s][i])
      BY <1>1, <1>2, <1>3, <1>5, <2>1, <2>2, <2>3, SendCallEffect
    <2> QED
      BY <1>1, <1>3, <1>5, <1>6, <2>4 DEF ReplyMismatch, a, i
  <1>7. CASE i = 1
    <2>1. ~(PrevIndex(s, i - 1) > 0)
      BY <1>7, PrevIndexIs DEF Index
    <2>2. EndCall(s, p)
      BY <1>5, <2>1 DEF ReplyMismatch
    <2>3. Ended(s, p)
      BY <2>2, EndCallEffect
    <2> QED
      BY <1>1, <1>3, <2>3 DEF ReplyMismatch
  <1> QED
    BY <1>3, <1>6, <1>7 DEF Index

LEMMA ReplyMatchEffect ==
    ASSUME TypeOK, NEW s \in Server, NEW p \in Server, ReplyMatch(s, p)
    PROVE  LET a == call[s][p].args IN
           /\ role[s] = "leader" /\ call[s][p] # Nil
           /\ call[s][p].st = "answered" /\ call[s][p].status = 0
           /\ call[s][p].term <= currentTerm[s]
           /\ \/ /\ ConfirmsWrite(s, a)
                 /\ replicated' = [replicated EXCEPT ![s] = @ \cup {p}]
                 /\ Ended(s, p)
              \/ replicated' = replicated /\ Ended(s, p)
              \/ /\ replicated' = replicated
                 /\ \E entry : SentCall(s, p, a.pre + 1, entry)
           /\ UNCHANGED <<role, currentTerm, votedVars, logVars, commitIndex, indexToApply,
                          lastApplied, write, orphans, bounds, history>>
  <1> DEFINE a == call[s][p].args
             e == IF a.pre + 2 \in Index THEN log[s][a.pre + 2] ELSE NoLog
  <1>1. /\ role[s] = "leader" /\ call[s][p] # Nil
        /\ call[s][p].st = "answered" /\ call[s][p].status = 0
        /\ call[s][p].term <= currentTerm[s]
    BY DEF ReplyMatch, Answer
  <1>2. a.pre \in Index /\ a.append \in BOOLEAN /\ a.start \in Index
    BY <1>1, CallFields
  <1>3. EndCall(s, p) => Ended(s, p)
    BY EndCallEffect
  <1>4. CASE ConfirmsWrite(s, a)
    BY <1>1, <1>3, <1>4 DEF ReplyMatch
  <1>5. CASE ~ConfirmsWrite(s, a) /\ EndCall(s, p)
    BY <1>1, <1>3, <1>5 DEF ReplyMatch
  <1>6. CASE ~ConfirmsWrite(s, a) /\ ~EndCall(s, p)
    <2>1. /\ replicated' = replicated
          /\ ~(a.pre >= a.start)
          /\ log[s][a.pre + 1] # NoLog
          /\ SendCall(s, p, a.append, a.start, a.pre + 1, a.pre + 2, e)
      BY <1>6 DEF ReplyMatch
    <2>2. a.pre + 1 \in Index /\ a.pre + 2 = (a.pre + 1) + 1
      BY <1>2, <2>1, BoundAssumption DEF Index
    <2>3. e # NoLog => a.pre + 2 \in Index /\ log[s][a.pre + 2] = e
      OBVIOUS
    <2> HIDE DEF e, a
    <2>4. SentCall(s, p, a.pre + 1, e)
      BY <1>1, <1>2, <2>1, <2>2, <2>3, SendCallEffect
    <2> QED
      BY <1>1, <2>1, <2>4 DEF ReplyMatch, a
  <1> QED
    BY <1>4, <1>5, <1>6

-----------------------------------------------------------------------------
(* Commits, crashes and applied logs *)

LEMMA CommitWriteEffect ==
    ASSUME TypeOK, LeadersOK, NEW s \in Server, CommitWrite(s),
           lastApplied[s] < write[s].index
    PROVE  LET n == write[s].index IN
           /\ Waiting(s) /\ n = lastLogIndex[s] /\ n \in Index
           /\ write[s].term = currentTerm[s]
           /\ Consensus(s)
           /\ commitIndex'[s] = n
           /\ lastApplied'[s] \in Index /\ lastApplied'[s] <= n
           /\ lastLogTerm'[s] = currentTerm[s]
           /\ write'[s] = Nil /\ replicated'[s] = {}
           /\ \A x \in Server \ {s} :
                 /\ commitIndex'[x] = commitIndex[x] /\ lastApplied'[x] = lastApplied[x]
                 /\ lastLogTerm'[x] = lastLogTerm[x]
                 /\ write'[x] = write[x] /\ replicated'[x] = replicated[x]
           /\ committed \subseteq committed'
           /\ \A i \in 1..n : IsCommitted(i, log[s][i])'
           /\ \A c \in committed' : c \in committed \/
                 (c[1] \in 1..n /\ c[2] = log[s][c[1]] /\ c[3] = currentTerm[s])
           /\ UNCHANGED <<role, currentTerm, votedVars, log, lastLogIndex, indexToApply,
                          call, orphans, bounds, written, reused, fatal>>
  <1> DEFINE n    == write[s].index
             upto == IF write[s].noop THEN Max({n - 1, lastApplied[s]}) ELSE n
             new  == {<<i, log[s][i], currentTerm[s]>> :
                        i \in {j \in 1..n : ~IsCommitted(j, log[s][j])}}
  <1>1. /\ Waiting(s) /\ n = lastLogIndex[s] /\ write[s].term = currentTerm[s]
        /\ Consensus(s) /\ write[s] # Nil
    BY DEF CommitWrite, LeadersOK, Waiting
  <1>2. n \in Index /\ n - 1 \in Index
    <2>1. write[s] \in Write
      BY <1>1 DEF TypeOK
    <2> QED
      BY <2>1, BoundAssumption DEF Write, Index
  <1>3. upto \in Index /\ upto <= n
    <2>1. n - 1 \in Int /\ lastApplied[s] \in Int /\ lastApplied[s] \in Index
      BY <1>2 DEF TypeOK, Index
    <2>2. Max({n - 1, lastApplied[s]}) \in {n - 1, lastApplied[s]}
      BY <2>1, MaxOfTwo
    <2> QED
      BY <1>2, <2>1, <2>2 DEF Index
  <1>4. /\ commitIndex' = [commitIndex EXCEPT ![s] = n]
        /\ lastLogIndex' = [lastLogIndex EXCEPT ![s] = n]
        /\ lastLogTerm' = [lastLogTerm EXCEPT ![s] = write[s].term]
        /\ lastApplied' = [lastApplied EXCEPT ![s] = upto]
        /\ committed' = committed \cup new
        /\ EndWrite(s)
        /\ UNCHANGED <<role, currentTerm, votedVars, log, indexToApply, call, orphans,
                       bounds, written, reused, fatal>>
    BY DEF CommitWrite
  <1>5. \A i \in 1..n : IsCommitted(i, log[s][i])'
    <2> SUFFICES ASSUME NEW i \in 1..n
                 PROVE \E t \in Term : <<i, log[s][i], t>> \in committed'
      BY <1>4 DEF IsCommitted
    <2>1. CASE IsCommitted(i, log[s][i])
      BY <1>4, <2>1 DEF IsCommitted
    <2>2. CASE ~IsCommitted(i, log[s][i])
      <3>1. <<i, log[s][i], currentTerm[s]>> \in new
        BY <2>2
      <3>2. currentTerm[s] \in Term
        BY DEF TypeOK
      <3> QED
        BY <1>4, <3>1, <3>2
    <2> QED
      BY <2>1, <2>2
  <1>6. \A c \in new : c[1] \in 1..n /\ c[2] = log[s][c[1]] /\ c[3] = currentTerm[s]
    OBVIOUS
  <1> HIDE DEF n, upto, new
  <1>7. lastLogIndex' = lastLogIndex
    BY <1>1, <1>4 DEF TypeOK
  <1>8. /\ commitIndex'[s] = n
        /\ lastApplied'[s] = upto
        /\ lastLogTerm'[s] = currentTerm[s]
        /\ write'[s] = Nil /\ replicated'[s] = {}
        /\ \A x \in Server \ {s} :
                 /\ commitIndex'[x] = commitIndex[x] /\ lastApplied'[x] = lastApplied[x]
                 /\ lastLogTerm'[x] = lastLogTerm[x]
                 /\ write'[x] = write[x] /\ replicated'[x] = replicated[x]
    BY <1>1, <1>4 DEF EndWrite, TypeOK
  <1> QED
    BY <1>1, <1>2, <1>3, <1>4, <1>5, <1>6, <1>7, <1>8 DEF n

LEMMA AbortWriteEffect ==
    ASSUME TypeOK, LeadersOK, NEW s \in Server, AbortWrite(s)
    PROVE  /\ role[s] = "leader" => role'[s] = "follower"
           /\ role'[s] = role[s] \/ role'[s] = "follower"
           /\ write'[s] = Nil /\ replicated'[s] = {}
           /\ \A x \in Server \ {s} : /\ role'[x] = role[x] /\ write'[x] = write[x]
                                      /\ replicated'[x] = replicated[x]
           /\ UNCHANGED <<currentTerm, votedVars, logVars, commitIndex, indexToApply,
                          lastApplied, call, orphans, bounds, history>>
  <1>1. role[s] = "leader" => currentTerm[s] = write[s].term
    BY DEF AbortWrite, LeadersOK
  <1> QED
    BY <1>1 DEF AbortWrite, EndWrite, TypeOK

LEMMA RestartEffect ==
    ASSUME TypeOK, LogsOK, NEW s \in Server, Restart(s)
    PROVE  /\ role'[s] = "follower" /\ votes'[s] = {}
           /\ votedFor'[s] = Nil /\ votedForTerm'[s] = 0
           /\ lastLogIndex' = lastLogIndex
           /\ lastLogTerm'[s] = log[s][lastLogIndex[s]]
           /\ lastApplied'[s] \in Index /\ lastApplied'[s] <= lastApplied[s]
           /\ commitIndex'[s] = lastApplied'[s] /\ indexToApply'[s] = 0
           /\ write'[s] = Nil /\ replicated'[s] = {}
           /\ \A x \in Server \ {s} :
                 /\ role'[x] = role[x] /\ votes'[x] = votes[x]
                 /\ votedFor'[x] = votedFor[x] /\ votedForTerm'[x] = votedForTerm[x]
                 /\ lastLogTerm'[x] = lastLogTerm[x]
                 /\ lastApplied'[x] = lastApplied[x] /\ commitIndex'[x] = commitIndex[x]
                 /\ indexToApply'[x] = indexToApply[x]
                 /\ write'[x] = write[x] /\ replicated'[x] = replicated[x]
           /\ \A x, y \in Server :
                 call'[x][y] = IF x = s \/ y = s THEN Nil ELSE call[x][y]
           /\ orphans' \subseteq orphans
           /\ UNCHANGED <<currentTerm, log, history>>
           /\ ForgetsVote \/ ~VoteOpen(s)
  <1>1. LastLogOnDisk(s) = lastLogIndex[s]
    <2>1. lastLogIndex[s] \in Index /\ log[s][lastLogIndex[s]] # NoLog /\ MaxIndex \in Int
      BY BoundAssumption DEF LogsOK, TypeOK, Index
    <2>2. /\ LastLogOnDisk(s) \in 0..MaxIndex
          /\ LastLogOnDisk(s) >= lastLogIndex[s] /\ LastLogOnDisk(s) > 0
      BY <2>1, PrevIndexIs DEF LastLogOnDisk, Index
    <2>3. LastLogOnDisk(s) \in Index /\ log[s][LastLogOnDisk(s)] # NoLog
      BY <2>1, <2>2, PrevIndexIs DEF LastLogOnDisk, Term, NoLog
    <2>4. LastLogOnDisk(s) <= lastLogIndex[s]
      BY <2>3 DEF LogsOK
    <2> QED
      BY <2>1, <2>2, <2>4 DEF Index
  <1>2. DurablyApplied(s) \in Index /\ DurablyApplied(s) <= lastApplied[s]
    BY DurablyAppliedType
  <1>3. /\ lastLogIndex' = [lastLogIndex EXCEPT ![s] = lastLogIndex[s]]
        /\ lastLogTerm' = [lastLogTerm EXCEPT ![s] = log[s][lastLogIndex[s]]]
    BY <1>1 DEF Restart
  <1>4. lastLogIndex' = lastLogIndex /\ lastLogTerm'[s] = log[s][lastLogIndex[s]]
        /\ \A x \in Server \ {s} : lastLogTerm'[x] = lastLogTerm[x]
    BY <1>3 DEF TypeOK
  <1>5. \A x, y \in Server : call'[x][y] = IF x = s \/ y = s THEN Nil ELSE call[x][y]
    BY DEF Restart
  <1>6. /\ lastApplied'[s] = DurablyApplied(s)
        /\ commitIndex'[s] = DurablyApplied(s) /\ indexToApply'[s] = 0
        /\ \A x \in Server \ {s} :
              /\ lastApplied'[x] = lastApplied[x] /\ commitIndex'[x] = commitIndex[x]
              /\ indexToApply'[x] = indexToApply[x]
    BY DEF Restart, TypeOK
  <1>7. /\ role'[s] = "follower" /\ votes'[s] = {}
        /\ votedFor'[s] = Nil /\ votedForTerm'[s] = 0
        /\ write'[s] = Nil /\ replicated'[s] = {}
        /\ \A x \in Server \ {s} :
                 /\ role'[x] = role[x] /\ votes'[x] = votes[x]
                 /\ votedFor'[x] = votedFor[x] /\ votedForTerm'[x] = votedForTerm[x]
                 /\ write'[x] = write[x] /\ replicated'[x] = replicated[x]
    BY DEF Restart, TypeOK
  <1>8. orphans' \subseteq orphans /\ UNCHANGED <<currentTerm, log, history>>
        /\ (ForgetsVote \/ ~VoteOpen(s))
    BY DEF Restart
  <1> QED
    BY <1>2, <1>4, <1>5, <1>6, <1>7, <1>8

-----------------------------------------------------------------------------
(* What changes in a step that starts in the invariant *)

LEMMA StartVoteEffect ==
    ASSUME TypeOK, NEW s \in Server, StartVote(s)
    PROVE  /\ role[s] # "leader" /\ PeersReady(s)
           /\ role'[s] = "candidate" /\ currentTerm'[s] = currentTerm[s] + 1
           /\ votedFor'[s] = s /\ votedForTerm'[s] = currentTerm[s] + 1
           /\ votes'[s] = {s}
           /\ \A x \in Server \ {s} :
                 /\ role'[x] = role[x] /\ currentTerm'[x] = currentTerm[x]
                 /\ votedFor'[x] = votedFor[x] /\ votedForTerm'[x] = votedForTerm[x]
                 /\ votes'[x] = votes[x]
           /\ UNCHANGED <<logVars, commitIndex, indexToApply, lastApplied, write,
                          replicated, call, orphans, bounds, history>>
  BY DEF StartVote, TypeOK

LEMMA GrantVoteEffect ==
    ASSUME TypeOK, NEW s \in Server, NEW p \in Server, s # p, GrantVote(s, p)
    PROVE  /\ role[s] = "candidate" /\ currentTerm[p] <= currentTerm[s]
           /\ ~LogAhead(p, s) /\ VoteFree(p, s)
           /\ currentTerm'[p] = currentTerm[s]
           /\ role'[p] = IF currentTerm[p] < currentTerm[s] THEN "follower" ELSE role[p]
           /\ votedFor'[p] = s /\ votedForTerm'[p] = currentTerm[s]
           /\ votes'[s] = votes[s] \cup {p}
           /\ \A x \in Server \ {p} :
                 /\ role'[x] = role[x] /\ currentTerm'[x] = currentTerm[x]
                 /\ votedFor'[x] = votedFor[x] /\ votedForTerm'[x] = votedForTerm[x]
           /\ \A x \in Server \ {s} : votes'[x] = votes[x]
           /\ UNCHANGED <<logVars, commitIndex, indexToApply, lastApplied, write,
                          replicated, call, orphans, bounds, history>>
  BY DEF GrantVote, TypeOK

\* Calls that a peer would accept delete no applied log.
LEMMA HandlerStep ==
    ASSUME SafetyInv, NEW s \in Server, NEW p \in Server, AppendEntriesGetReply(s, p)
    PROVE  /\ call[s][p] # Nil /\ call[s][p].st = "sent"
           /\ UNCHANGED <<votedVars, lastApplied, write, replicated, orphans, bounds,
                          written, reused, committed, fatal>>
           /\ Rejects(s, p) \/ StepsDown(s, p) \/ Differs(s, p) \/ Accepts(s, p)
  <1>1. TypeOK /\ AheadOK
    BY DEF SafetyInv
  <1>2. call[s][p] # Nil /\ call[s][p].st = "sent"
    BY DEF AppendEntriesGetReply
  <1>3. ASSUME call[s][p].args.term >= currentTerm[p]
        PROVE  ~DeletesApplied(p, call[s][p].args)
    <2>1. lastApplied[p] <= call[s][p].args.pre
      BY <1>1, <1>2, <1>3 DEF AheadOK, ApplyGuard
    <2>2. call[s][p].args.pre \in Index /\ lastApplied[p] \in Index
      BY <1>1, <1>2, CallFields DEF TypeOK
    <2> QED
      BY <2>1, <2>2 DEF DeletesApplied, Index
  <1> QED
    BY <1>1, <1>3, HandlerCases

LEMMA LogChange ==
    ASSUME SafetyInv, Step, NEW s \in Server
    PROVE  \/ Unlogged(s)
           \/ EvaluateVoteResult(s) \/ AddRaftEntry(s) \/ CommitWrite(s) \/ Restart(s)
           \/ \E x \in Server : AppendEntriesGetReply(x, s) /\ Accepts(x, s)
  <1>0. TypeOK /\ LogsOK /\ LeadersOK /\ AheadOK
    BY DEF SafetyInv
  <1>1. ASSUME NEW x \in Server, NEW y \in Server,
               \/ StartVote(x) \/ PreCommit(x) \/ AbortWrite(x) \/ RetryConsensus(x)
               \/ ApplyLog(x) \/ ReplyAfterLeadership(x, y) \/ ReplyMismatch(x, y)
               \/ ReplyMatch(x, y) \/ CallFail(x, y) \/ GrantVote(x, y) \/ DenyVote(x, y)
               \/ SendAppend(x, y) \/ SendPing(x, y)
        PROVE  Unlogged(s)
    <2>1. UNCHANGED logVars
      BY <1>1
      DEF StartVote, PreCommit, AbortWrite, RetryConsensus, ApplyLog,
          ReplyAfterLeadership, ReplyMismatch, ReplyMatch, CallFail, GrantVote, DenyVote,
          SendAppend, SendPing
    <2> QED
      BY <2>1 DEF logVars, Unlogged
  <1>2. ASSUME NEW x \in Server, EvaluateVoteResult(x) PROVE x = s \/ Unlogged(s)
    <2>1. Added(x, NextWrite(x, TRUE))
      BY <1>0, <1>2, EvaluateEffect
    <2> QED
      BY <2>1 DEF Added, Unlogged
  <1>3. ASSUME NEW x \in Server, AddRaftEntry(x) PROVE x = s \/ Unlogged(s)
    BY <1>0, <1>3, AddRaftEntryEffect DEF Added, Unlogged, logVars
  <1>4. ASSUME NEW x \in Server, CommitWrite(x) PROVE x = s \/ Unlogged(s)
    BY <1>0, <1>4 DEF CommitWrite, Unlogged, TypeOK
  <1>5. ASSUME NEW x \in Server, Restart(x) PROVE x = s \/ Unlogged(s)
    BY <1>0, <1>5, RestartEffect DEF Unlogged
  <1>6. ASSUME NEW x \in Server, NEW p \in Server, AppendEntriesGetReply(x, p)
        PROVE  Unlogged(s) \/ (p = s /\ Accepts(x, s))
    <2>1. Rejects(x, p) \/ StepsDown(x, p) \/ Differs(x, p) \/ Accepts(x, p)
      BY <1>6, HandlerStep
    <2>2. CASE Rejects(x, p) \/ StepsDown(x, p) \/ Differs(x, p)
      BY <2>2 DEF Rejects, StepsDown, Differs, Unlogged, logVars
    <2>3. CASE Accepts(x, p) /\ p # s
      <3>1. StoreLogs(p, call[x][p].args)
        BY <2>3 DEF Accepts
      <3>2. /\ log'[s] = log[s]
            /\ lastLogIndex'[s] = lastLogIndex[s]
            /\ lastLogTerm'[s] = lastLogTerm[s]
        BY <1>0, <2>3, <3>1 DEF StoreLogs, TypeOK
      <3> QED
        BY <3>2 DEF Unlogged
    <2> QED
      BY <2>1, <2>2, <2>3
  <1> QED
    BY <1>1, <1>2, <1>3, <1>4, <1>5, <1>6, StepCases

LEMMA CallChange ==
    ASSUME SafetyInv, Step, NEW s \in Server, NEW p \in Server
    PROVE  \/ call'[s][p] = call[s][p]
           \/ call'[s][p] = Nil
           \/ s # p /\ (\/ SendAppend(s, p) \/ SendPing(s, p)
                        \/ ReplyMismatch(s, p) \/ ReplyMatch(s, p)
                        \/ AppendEntriesGetReply(s, p))
  <1>0. TypeOK /\ LogsOK /\ LeadersOK /\ CallsOK
    BY DEF SafetyInv
  <1>1. ASSUME NEW x \in Server, NEW y \in Server,
               \/ StartVote(x) \/ EvaluateVoteResult(x) \/ PreCommit(x) \/ AddRaftEntry(x)
               \/ CommitWrite(x) \/ AbortWrite(x) \/ RetryConsensus(x) \/ ApplyLog(x)
               \/ GrantVote(x, y) \/ DenyVote(x, y)
        PROVE  call'[s][p] = call[s][p]
    <2>1. call' = call
      BY <1>1
      DEF StartVote, EvaluateVoteResult, PreCommit, AddRaftEntry, CommitWrite, AbortWrite,
          RetryConsensus, ApplyLog, GrantVote, DenyVote
    <2> QED
      BY <2>1
  <1>2. ASSUME NEW x \in Server, Restart(x) PROVE call'[s][p] \in {call[s][p], Nil}
    BY <1>0, <1>2, RestartEffect
  <1>3. ASSUME NEW x \in Server, NEW y \in Server,
               \/ ReplyAfterLeadership(x, y) \/ CallFail(x, y)
               \/ SendAppend(x, y) \/ SendPing(x, y)
               \/ ReplyMismatch(x, y) \/ ReplyMatch(x, y) \/ AppendEntriesGetReply(x, y),
               x # s \/ y # p
        PROVE  call'[s][p] = call[s][p]
    <2>1. CASE ReplyAfterLeadership(x, y) \/ CallFail(x, y)
      BY <1>0, <1>3, <2>1, EndCallEffect DEF ReplyAfterLeadership, CallFail, Ended
    <2>2. CASE SendAppend(x, y)
      BY <1>0, <1>3, <2>2, SendAppendEffect DEF SentCall
    <2>3. CASE SendPing(x, y)
      BY <1>0, <1>3, <2>3, SendPingEffect DEF SentCall
    <2>4. CASE ReplyMismatch(x, y)
      BY <1>0, <1>3, <2>4, ReplyMismatchEffect DEF SentCall, Ended
    <2>5. CASE ReplyMatch(x, y)
      BY <1>0, <1>3, <2>5, ReplyMatchEffect DEF SentCall, Ended
    <2>6. CASE AppendEntriesGetReply(x, y)
      <3>1. Rejects(x, y) \/ StepsDown(x, y) \/ Differs(x, y) \/ Accepts(x, y)
        BY <2>6, HandlerStep
      <3> QED
        BY <1>3, <3>1 DEF Rejects, StepsDown, Differs, Accepts, Answered, Ended
    <2> QED
      BY <1>3, <2>1, <2>2, <2>3, <2>4, <2>5, <2>6
  <1>4. CASE ReplyAfterLeadership(s, p) \/ CallFail(s, p)
    BY <1>0, <1>4, EndCallEffect DEF ReplyAfterLeadership, CallFail, Ended
  <1> QED
    BY <1>1, <1>2, <1>3, <1>4, StepCases

\* Terms grow; who is leader or candidate was it before in the same term, or has just
\* been elected or stood for election.
LEMMA RoleChange ==
    ASSUME SafetyInv, Step, NEW s \in Server
    PROVE  /\ currentTerm[s] \in Nat /\ currentTerm'[s] \in Nat
           /\ currentTerm'[s] >= currentTerm[s]
           /\ role'[s] = "leader" =>
                 \/ role[s] = "leader" /\ currentTerm'[s] = currentTerm[s]
                 \/ EvaluateVoteResult(s)
           /\ role'[s] = "candidate" =>
                 \/ role[s] = "candidate" /\ currentTerm'[s] = currentTerm[s]
                 \/ StartVote(s)
  <1>0. TypeOK /\ LogsOK /\ LeadersOK
    BY DEF SafetyInv
  <1>1. \A x \in Server : currentTerm[x] \in Nat
    BY <1>0, BoundAssumption DEF TypeOK, Term
  <1> DEFINE Goal ==
           /\ currentTerm[s] \in Nat /\ currentTerm'[s] \in Nat
           /\ currentTerm'[s] >= currentTerm[s]
           /\ role'[s] = "leader" =>
                 \/ role[s] = "leader" /\ currentTerm'[s] = currentTerm[s]
                 \/ EvaluateVoteResult(s)
           /\ role'[s] = "candidate" =>
                 \/ role[s] = "candidate" /\ currentTerm'[s] = currentTerm[s]
                 \/ StartVote(s)
  <1>2. ASSUME NEW x \in Server, NEW y \in Server,
               \/ PreCommit(x) \/ AddRaftEntry(x) \/ CommitWrite(x) \/ RetryConsensus(x)
               \/ ApplyLog(x) \/ ReplyMismatch(x, y) \/ ReplyMatch(x, y) \/ CallFail(x, y)
               \/ SendAppend(x, y) \/ SendPing(x, y)
        PROVE  Goal
    <2>1. UNCHANGED <<role, currentTerm>>
      BY <1>2
      DEF PreCommit, AddRaftEntry, CommitWrite, RetryConsensus, ApplyLog, ReplyMismatch,
          ReplyMatch, CallFail, SendAppend, SendPing
    <2> QED
      BY <1>1, <2>1
  <1>3. ASSUME NEW x \in Server, StartVote(x) PROVE Goal
    BY <1>0, <1>1, <1>3, StartVoteEffect
  <1>4. ASSUME NEW x \in Server, EvaluateVoteResult(x) PROVE Goal
    <2>1. /\ role'[x] = "leader" /\ currentTerm' = currentTerm
          /\ \A z \in Server \ {x} : role'[z] = role[z]
      BY <1>0, <1>4, EvaluateEffect
    <2> QED
      BY <1>1, <1>4, <2>1
  <1>5. ASSUME NEW x \in Server, AbortWrite(x) PROVE Goal
    BY <1>0, <1>1, <1>5, AbortWriteEffect
  <1>6. ASSUME NEW x \in Server, Restart(x) PROVE Goal
    BY <1>0, <1>1, <1>6, RestartEffect
  <1>7. ASSUME NEW x \in Server, NEW y \in Server, x # y, GrantVote(x, y) PROVE Goal
    BY <1>0, <1>1, <1>7, GrantVoteEffect
  <1>8. ASSUME NEW x \in Server, NEW y \in Server, x # y, DenyVote(x, y) PROVE Goal
    <2> DEFINE t == IF currentTerm[y] > currentTerm[x] THEN currentTerm[y] ELSE currentTerm[x]
    <2>1. /\ currentTerm'[x] = t /\ currentTerm'[y] = t
          /\ role'[x] = "follower"
          /\ role'[y] = IF currentTerm[y] < t THEN "follower" ELSE role[y]
          /\ \A z \in Server \ {x, y} : role'[z] = role[z] /\ currentTerm'[z] = currentTerm[z]
      BY <1>0, <1>8 DEF DenyVote, TypeOK
    <2> QED
      BY <1>1, <2>1
  <1>9. ASSUME NEW x \in Server, NEW y \in Server, ReplyAfterLeadership(x, y) PROVE Goal
    <2>1. call[x][y].term \in Nat
      <3>1. call[x][y].term \in Term
        BY <1>0, <1>9, CallFields DEF ReplyAfterLeadership
      <3> QED
        BY <3>1, BoundAssumption DEF Term
    <2> QED
      BY <1>0, <1>1, <1>9, <2>1 DEF ReplyAfterLeadership, TypeOK
  <1>10. ASSUME NEW x \in Server, NEW y \in Server, AppendEntriesGetReply(x, y) PROVE Goal
    <2>1. Rejects(x, y) \/ StepsDown(x, y) \/ Differs(x, y) \/ Accepts(x, y)
      BY <1>10, HandlerStep
    <2>2. call[x][y].args.term \in Nat
      <3>1. call[x][y].args.term \in Term
        BY <1>0, <1>10, CallFields DEF AppendEntriesGetReply
      <3> QED
        BY <3>1, BoundAssumption DEF Term
    <2> QED
      BY <1>1, <2>1, <2>2 DEF Rejects, StepsDown, Differs, Accepts, Follows
  <1> HIDE DEF Goal
  <1>11. Goal
    BY <1>2, <1>3, <1>4, <1>5, <1>6, <1>7, <1>8, <1>9, <1>10, StepCases
  <1> QED
    BY <1>11 DEF Goal

\* Votes are counted, or dropped with the round.
LEMMA VoteChange ==
    ASSUME SafetyInv, Step, NEW s \in Server
    PROVE  /\ \/ votes'[s] = votes[s]
              \/ StartVote(s) \/ EvaluateVoteResult(s) \/ Restart(s)
              \/ \E p \in Server : p # s /\ GrantVote(s, p)
           /\ \/ votedFor'[s] = votedFor[s] /\ votedForTerm'[s] = votedForTerm[s]
              \/ StartVote(s) \/ Restart(s)
              \/ \E x \in Server : x # s /\ GrantVote(x, s)
  <1>0. TypeOK /\ LogsOK
    BY DEF SafetyInv
  <1>1. ASSUME NEW x \in Server, NEW y \in Server,
               \/ PreCommit(x) \/ AddRaftEntry(x) \/ CommitWrite(x) \/ RetryConsensus(x)
               \/ AbortWrite(x) \/ ApplyLog(x) \/ ReplyMismatch(x, y) \/ ReplyMatch(x, y)
               \/ ReplyAfterLeadership(x, y) \/ CallFail(x, y) \/ SendAppend(x, y)
               \/ SendPing(x, y) \/ AppendEntriesGetReply(x, y) \/ DenyVote(x, y)
        PROVE  votes' = votes /\ votedFor' = votedFor /\ votedForTerm' = votedForTerm
    <2>1. UNCHANGED votedVars
      BY <1>1
      DEF PreCommit, AddRaftEntry, CommitWrite, RetryConsensus, AbortWrite, ApplyLog,
          ReplyMismatch, ReplyMatch, ReplyAfterLeadership, CallFail, SendAppend, SendPing,
          AppendEntriesGetReply, DenyVote
    <2> QED
      BY <2>1 DEF votedVars
  <1>2. ASSUME NEW x \in Server, StartVote(x), x # s
        PROVE  votes'[s] = votes[s] /\ votedFor'[s] = votedFor[s]
               /\ votedForTerm'[s] = votedForTerm[s]
    BY <1>0, <1>2 DEF StartVote, TypeOK
  <1>3. ASSUME NEW x \in Server, EvaluateVoteResult(x)
        PROVE  (x # s => votes'[s] = votes[s]) /\ votedFor'[s] = votedFor[s]
               /\ votedForTerm'[s] = votedForTerm[s]
    BY <1>0, <1>3 DEF EvaluateVoteResult, TypeOK
  <1>4. ASSUME NEW x \in Server, Restart(x), x # s
        PROVE  votes'[s] = votes[s] /\ votedFor'[s] = votedFor[s]
               /\ votedForTerm'[s] = votedForTerm[s]
    BY <1>0, <1>4 DEF Restart, TypeOK
  <1>5. ASSUME NEW x \in Server, NEW y \in Server, GrantVote(x, y)
        PROVE  /\ x # s => votes'[s] = votes[s]
               /\ y # s => votedFor'[s] = votedFor[s] /\ votedForTerm'[s] = votedForTerm[s]
    BY <1>0, <1>5 DEF GrantVote, TypeOK
  <1> QED
    BY <1>1, <1>2, <1>3, <1>4, <1>5, StepCases

\* Logs are added by a new leader and by a client's write.
LEMMA WrittenChange ==
    ASSUME SafetyInv, Step
    PROVE  /\ \/ written' = written /\ reused' = reused
              \/ \E s \in Server : EvaluateVoteResult(s)
              \/ \E s \in Server : /\ AddRaftEntry(s)
                                   /\ log[s][write[s].index] = NoLog
                                   /\ Added(s, write[s])
           /\ written \subseteq written'
  <1>0. TypeOK /\ LogsOK
    BY DEF SafetyInv
  <1>1. ASSUME NEW x \in Server, NEW y \in Server,
               \/ PreCommit(x) \/ StartVote(x) \/ CommitWrite(x) \/ RetryConsensus(x)
               \/ AbortWrite(x) \/ ApplyLog(x) \/ ReplyMismatch(x, y) \/ ReplyMatch(x, y)
               \/ ReplyAfterLeadership(x, y) \/ CallFail(x, y) \/ SendAppend(x, y)
               \/ SendPing(x, y) \/ AppendEntriesGetReply(x, y) \/ DenyVote(x, y)
               \/ GrantVote(x, y) \/ Restart(x)
        PROVE  written' = written /\ reused' = reused
    BY <1>1
    DEF PreCommit, StartVote, CommitWrite, RetryConsensus, AbortWrite, ApplyLog,
          ReplyMismatch, ReplyMatch, ReplyAfterLeadership, CallFail, SendAppend, SendPing,
          AppendEntriesGetReply, DenyVote, GrantVote, Restart, history
  <1>2. ASSUME NEW x \in Server, EvaluateVoteResult(x)
        PROVE  written \subseteq written'
    <2>1. Added(x, NextWrite(x, TRUE))
      BY <1>0, <1>2, EvaluateEffect
    <2> QED
      BY <2>1 DEF Added
  <1>3. ASSUME NEW x \in Server, AddRaftEntry(x)
        PROVE  /\ \/ written' = written /\ reused' = reused
                  \/ log[x][write[x].index] = NoLog /\ Added(x, write[x])
               /\ written \subseteq written'
    BY <1>0, <1>3, AddRaftEntryEffect DEF Added
  <1> QED
    BY <1>1, <1>2, <1>3, StepCases

\* A write begins with PreCommit or the no-op and goes through AddRaftEntry.
LEMMA WriteChange ==
    ASSUME SafetyInv, Step, NEW s \in Server
    PROVE  \/ write'[s] = write[s]
           \/ EvaluateVoteResult(s) \/ PreCommit(s) \/ AddRaftEntry(s)
           \/ CommitWrite(s) \/ AbortWrite(s) \/ Restart(s)
  <1>0. TypeOK /\ LogsOK /\ LeadersOK
    BY DEF SafetyInv
  <1>1. ASSUME NEW x \in Server, NEW y \in Server,
               \/ StartVote(x) \/ RetryConsensus(x)
               \/ ApplyLog(x) \/ ReplyMismatch(x, y) \/ ReplyMatch(x, y)
               \/ ReplyAfterLeadership(x, y) \/ CallFail(x, y) \/ SendAppend(x, y)
               \/ SendPing(x, y) \/ AppendEntriesGetReply(x, y) \/ DenyVote(x, y)
               \/ GrantVote(x, y)
        PROVE  write' = write
    BY <1>1
    DEF StartVote, RetryConsensus, ApplyLog, ReplyMismatch, ReplyMatch,
        ReplyAfterLeadership, CallFail, SendAppend, SendPing, AppendEntriesGetReply,
        DenyVote, GrantVote
  <1>2. ASSUME NEW x \in Server, EvaluateVoteResult(x), x # s PROVE write'[s] = write[s]
    <2>1. Added(x, NextWrite(x, TRUE))
      BY <1>0, <1>2, EvaluateEffect
    <2> QED
      BY <1>2, <2>1 DEF Added
  <1>3. ASSUME NEW x \in Server, AddRaftEntry(x), x # s PROVE write'[s] = write[s]
    BY <1>0, <1>3, AddRaftEntryEffect DEF Added
  <1>4. ASSUME NEW x \in Server, x # s,
               PreCommit(x) \/ CommitWrite(x) \/ AbortWrite(x) \/ Restart(x)
        PROVE  write'[s] = write[s]
    BY <1>0, <1>4 DEF PreCommit, CommitWrite, AbortWrite, Restart, EndWrite, TypeOK
  <1> QED
    BY <1>1, <1>2, <1>3, <1>4, StepCases

LEMMA ReplicatedChange ==
    ASSUME SafetyInv, Step, NEW s \in Server
    PROVE  \/ replicated'[s] \subseteq replicated[s]
           \/ \E p \in Server : /\ p # s /\ ReplyMatch(s, p)
                                /\ ConfirmsWrite(s, call[s][p].args)
                                /\ replicated'[s] = replicated[s] \cup {p}
  <1>0. TypeOK /\ LogsOK /\ LeadersOK
    BY DEF SafetyInv
  <1>1. ASSUME NEW x \in Server, NEW y \in Server,
               \/ StartVote(x) \/ PreCommit(x)
               \/ ApplyLog(x) \/ ReplyMismatch(x, y)
               \/ ReplyAfterLeadership(x, y) \/ CallFail(x, y) \/ SendAppend(x, y)
               \/ SendPing(x, y) \/ AppendEntriesGetReply(x, y) \/ DenyVote(x, y)
               \/ GrantVote(x, y)
        PROVE  replicated' = replicated
    BY <1>1
    DEF StartVote, PreCommit, ApplyLog, ReplyMismatch,
        ReplyAfterLeadership, CallFail, SendAppend, SendPing, AppendEntriesGetReply,
        DenyVote, GrantVote
  <1>2. ASSUME NEW x \in Server, EvaluateVoteResult(x)
        PROVE  replicated'[s] \subseteq replicated[s]
    <2>1. Added(x, NextWrite(x, TRUE))
      BY <1>0, <1>2, EvaluateEffect
    <2> QED
      BY <2>1 DEF Added
  <1>3. ASSUME NEW x \in Server, AddRaftEntry(x) PROVE replicated'[s] \subseteq replicated[s]
    BY <1>0, <1>3, AddRaftEntryEffect DEF Added
  <1>4. ASSUME NEW x \in Server,
               RetryConsensus(x) \/ CommitWrite(x) \/ AbortWrite(x) \/ Restart(x)
        PROVE  replicated'[s] \subseteq replicated[s]
    <2>1. replicated' = [replicated EXCEPT ![x] = {}]
      BY <1>4 DEF RetryConsensus, CommitWrite, AbortWrite, Restart, EndWrite
    <2> QED
      BY <1>0, <2>1 DEF TypeOK
  <1>5. ASSUME NEW x \in Server, NEW y \in Server, x # y, ReplyMatch(x, y)
        PROVE  \/ replicated'[s] \subseteq replicated[s]
               \/ /\ x = s /\ ConfirmsWrite(s, call[s][y].args)
                  /\ replicated'[s] = replicated[s] \cup {y}
    <2>1. \/ ConfirmsWrite(x, call[x][y].args)
             /\ replicated' = [replicated EXCEPT ![x] = @ \cup {y}]
          \/ replicated' = replicated
      BY <1>0, <1>5, ReplyMatchEffect
    <2> QED
      BY <1>0, <2>1 DEF TypeOK
  <1> QED
    BY <1>1, <1>2, <1>3, <1>4, <1>5, StepCases

LEMMA ApplyLogEffect ==
    ASSUME TypeOK, NEW s \in Server, ApplyLog(s)
    PROVE  /\ lastApplied'[s] = lastApplied[s] + 1 /\ lastApplied'[s] <= indexToApply[s]
           /\ commitIndex'[s] = commitIndex[s] \/ commitIndex'[s] = lastApplied'[s]
           /\ \A x \in Server \ {s} :
                 lastApplied'[x] = lastApplied[x] /\ commitIndex'[x] = commitIndex[x]
           /\ role[s] = "follower"
           /\ UNCHANGED <<role, currentTerm, votedVars, logVars, indexToApply, write,
                          replicated, call, orphans, bounds, history>>
  <1>1. lastApplied[s] \in Int /\ indexToApply[s] \in Int
    BY DEF TypeOK, Index
  <1> QED
    BY <1>1 DEF ApplyLog, MayApply, TypeOK

\* What a server has applied changes with a commit, the apply thread, a crash or a call.
LEMMA AppliedChange ==
    ASSUME SafetyInv, Step, NEW s \in Server
    PROVE  \/ /\ lastApplied'[s] = lastApplied[s] /\ indexToApply'[s] = indexToApply[s]
              /\ commitIndex'[s] = commitIndex[s]
           \/ CommitWrite(s) \/ ApplyLog(s) \/ Restart(s)
           \/ \E x \in Server : AppendEntriesGetReply(x, s) /\ Accepts(x, s)
  <1>0. TypeOK /\ LogsOK /\ LeadersOK
    BY DEF SafetyInv
  <1> DEFINE Same == /\ lastApplied'[s] = lastApplied[s]
                     /\ indexToApply'[s] = indexToApply[s]
                     /\ commitIndex'[s] = commitIndex[s]
  <1>1. ASSUME NEW x \in Server, NEW y \in Server,
               \/ StartVote(x) \/ EvaluateVoteResult(x) \/ PreCommit(x) \/ AddRaftEntry(x)
               \/ AbortWrite(x) \/ RetryConsensus(x) \/ ReplyMismatch(x, y)
               \/ ReplyMatch(x, y) \/ ReplyAfterLeadership(x, y) \/ CallFail(x, y)
               \/ SendAppend(x, y) \/ SendPing(x, y) \/ DenyVote(x, y) \/ GrantVote(x, y)
        PROVE  Same
    <2>1. UNCHANGED <<lastApplied, indexToApply, commitIndex>>
      BY <1>1
      DEF StartVote, EvaluateVoteResult, PreCommit, AddRaftEntry, AbortWrite,
          RetryConsensus, ReplyMismatch, ReplyMatch, ReplyAfterLeadership, CallFail,
          SendAppend, SendPing, DenyVote, GrantVote
    <2> QED
      BY <2>1
  <1>2. ASSUME NEW x \in Server, x # s, CommitWrite(x) \/ ApplyLog(x) \/ Restart(x)
        PROVE  Same
    BY <1>0, <1>2 DEF CommitWrite, ApplyLog, Restart, TypeOK
  <1>3. ASSUME NEW x \in Server, NEW p \in Server, AppendEntriesGetReply(x, p)
        PROVE  Same \/ (p = s /\ Accepts(x, s))
    <2>1. /\ Rejects(x, p) \/ StepsDown(x, p) \/ Differs(x, p) \/ Accepts(x, p)
          /\ lastApplied' = lastApplied
      BY <1>3, HandlerStep
    <2>2. CASE Rejects(x, p) \/ StepsDown(x, p) \/ Differs(x, p)
      BY <2>1, <2>2 DEF Rejects, StepsDown, Differs
    <2>3. CASE Accepts(x, p) /\ p # s
      BY <1>0, <2>1, <2>3 DEF Accepts, StoreLogs, TypeOK
    <2> QED
      BY <2>1, <2>2, <2>3
  <1> HIDE DEF Same
  <1>4. \/ Same
        \/ CommitWrite(s) \/ ApplyLog(s) \/ Restart(s)
        \/ \E x \in Server : AppendEntriesGetReply(x, s) /\ Accepts(x, s)
    BY <1>1, <1>2, <1>3, StepCases
  <1> QED
    BY <1>4 DEF Same

LEMMA CommittedChange ==
    ASSUME SafetyInv, Step
    PROVE  committed' = committed \/ \E s \in Server : CommitWrite(s)
  <1>1. ASSUME NEW x \in Server, NEW y \in Server,
               \/ StartVote(x) \/ EvaluateVoteResult(x) \/ PreCommit(x) \/ AddRaftEntry(x)
               \/ AbortWrite(x) \/ RetryConsensus(x) \/ ReplyMismatch(x, y)
               \/ ReplyMatch(x, y) \/ ReplyAfterLeadership(x, y) \/ CallFail(x, y)
               \/ SendAppend(x, y) \/ SendPing(x, y) \/ DenyVote(x, y) \/ GrantVote(x, y)
               \/ ApplyLog(x) \/ Restart(x) \/ AppendEntriesGetReply(x, y)
        PROVE  committed' = committed
    BY <1>1
      DEF StartVote, EvaluateVoteResult, PreCommit, AddRaftEntry, AbortWrite,
          RetryConsensus, ReplyMismatch, ReplyMatch, ReplyAfterLeadership, CallFail,
          SendAppend, SendPing, DenyVote, GrantVote, ApplyLog, Restart,
          AppendEntriesGetReply, history
  <1> QED
    BY <1>1, StepCases

\* With prompt calls nothing is executed late, and no server dies.
LEMMA QuietChange ==
    ASSUME SafetyInv, Step, Prompt
    PROVE  orphans' = {} /\ fatal' = {}
  <1>0. orphans = {} /\ fatal = {} /\ TypeOK
    BY DEF SafetyInv
  <1>1. ASSUME NEW x \in Server, NEW y \in Server,
               \/ StartVote(x) \/ EvaluateVoteResult(x) \/ PreCommit(x) \/ AddRaftEntry(x)
               \/ AbortWrite(x) \/ RetryConsensus(x) \/ ReplyMismatch(x, y)
               \/ ReplyMatch(x, y) \/ ReplyAfterLeadership(x, y) \/ CommitWrite(x)
               \/ SendAppend(x, y) \/ SendPing(x, y) \/ DenyVote(x, y) \/ GrantVote(x, y)
               \/ ApplyLog(x)
        PROVE  orphans' = {} /\ fatal' = {}
    BY <1>0, <1>1
      DEF StartVote, EvaluateVoteResult, PreCommit, AddRaftEntry, AbortWrite,
          RetryConsensus, ReplyMismatch, ReplyMatch, ReplyAfterLeadership, CommitWrite,
          SendAppend, SendPing, DenyVote, GrantVote, ApplyLog, history
  <1>2. ASSUME NEW x \in Server, Restart(x) PROVE orphans' = {} /\ fatal' = {}
    BY <1>0, <1>2 DEF Restart, history
  <1>3. ASSUME NEW x \in Server, NEW y \in Server, CallFail(x, y)
        PROVE  orphans' = {} /\ fatal' = {}
    <2>1. Cardinality(orphans) = 0
      BY <1>0, FS_EmptySet
    <2> QED
      BY <1>0, <1>3, <2>1 DEF CallFail, Prompt, history
  <1>4. ASSUME NEW x \in Server, NEW y \in Server, AppendEntriesGetReply(x, y)
        PROVE  orphans' = {} /\ fatal' = {}
    BY <1>0, <1>4, HandlerStep
  <1> QED
    BY <1>1, <1>2, <1>3, <1>4, StepCases
=============================================================================
