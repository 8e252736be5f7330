------------------------- MODULE RaftReplicationInv -------------------------
(***************************************************************************)
(* The inductive invariant behind the safety of the lwraft log.            *)
(*                                                                         *)
(* The logs that were ever written form a tree: the parent of a log is the *)
(* log before it (the third component of written).  The logs of a server   *)
(* are a path in the tree.  Once a log is settled, that is, a majority     *)
(* keeps it and no vote or call under way can change that, every log of a  *)
(* later term grows above it.                                              *)
(***************************************************************************)
EXTENDS RaftReplication

\* <<i, k>>, a log of term k at index i, is ordered at or after <<n, t>> the way
\* voters order their last logs.
AtOrAfter(i, k, n, t) == k > t \/ (k = t /\ i >= n)

IsWritten(i, k) == \E l \in written : l[1] = i /\ l[2] = k

\* The logs of later terms grow above <<n, t>>: the parent of a log after it is at
\* or after it.
GrowsAbove(n, t) ==
    \A l \in written : AtOrAfter(l[1], l[2], n, t) =>
        /\ l[1] >= n
        /\ l[1] = n => l[2] = t
        /\ l[1] > n => AtOrAfter(l[1] - 1, l[3], n, t)

LastAtOrAfter(s, n, t) == AtOrAfter(lastLogIndex[s], lastLogTerm[s], n, t)

\* The call c, if q would still accept it, leaves <<i, k>> in the log of q, and so
\* will the calls that follow from its answer.
CallKeeps(c, q, i, k) ==
    c # Nil /\ c.args.term >= currentTerm[q] =>
        /\ c.st = "sent" =>
              \/ c.args.pre > i
              \/ c.args.pre = i /\ c.args.preTerm = k
              \/ c.args.pre = i - 1 /\ c.args.entry = k
        /\ c.st = "answered" /\ c.status = 0 => c.args.pre >= i - 1
        /\ c.st = "answered" /\ c.status # 0 => c.args.pre > i /\ c.status >= i

Keeps(q, i, k) ==
    /\ log[q][i] = k
    /\ \A s \in Server : CallKeeps(call[s][q], q, i, k)

\* q has the log <<n, t>> for good as long as later logs grow above it, and whoever
\* has the vote of q has a last log at or after it.
Holds(q, n, t) ==
    /\ currentTerm[q] >= t
    /\ Keeps(q, n, t)
    /\ LastAtOrAfter(q, n, t)
    /\ \A c \in Server :
          role[c] = "candidate" /\ currentTerm[c] > t /\ q \in votes[c]
             => LastAtOrAfter(c, n, t)

IsMajority(Q) == Q \subseteq Server /\ Cardinality(Q) >= Majority

\* Whoever has the log <<n, t>> has <<i, k>> below it.
Below(i, k, n, t) == \A s \in Server : log[s][n] = t => log[s][i] = k

\* The log <<n, t>> and the logs below it are committed, and can never be undone.
Settled(n, t) ==
    /\ GrowsAbove(n, t)
    /\ IsWritten(n, t)
    /\ \E Q \in SUBSET Server : IsMajority(Q) /\ \A q \in Q : Holds(q, n, t)
    /\ \A s \in Server : log[s][n] = t => \A i \in 1..n : IsCommitted(i, log[s][i])

\* <<i, k>> is settled with a log that is the write of a leader of term t.
Chosen(i, k, t) == \E n \in Index : i <= n /\ Settled(n, t) /\ Below(i, k, n, t)

-----------------------------------------------------------------------------
(* The parts of the invariant *)

\* The logs of a server are contiguous, their terms ascend, lastLogIndex is true,
\* lastLogTerm may lag behind.
LogsOK ==
    \A s \in Server :
        /\ \A i \in Index : log[s][i] # NoLog <=> i <= lastLogIndex[s]
        /\ \A i, j \in Index : i <= j /\ log[s][j] # NoLog => log[s][i] <= log[s][j]
        /\ lastLogTerm[s] <= log[s][lastLogIndex[s]]
        /\ log[s][lastLogIndex[s]] <= currentTerm[s]

LogBefore(f, i) == IF i = 1 THEN NoLog ELSE f[i - 1]

\* f, the logs of a server, is a path in the tree W.
Path(f, W) == \A i \in Index : f[i] # NoLog => <<i, f[i], LogBefore(f, i)>> \in W

\* A log has one parent, of a term not after its own.
Tree(W) ==
    /\ \A l, m \in W : l[1] = m[1] /\ l[2] = m[2] => l[3] = m[3]
    /\ \A l \in W : l[1] > 1 => l[3] # NoLog /\ l[3] <= l[2]

TreeOK == Tree(written) /\ \A s \in Server : Path(log[s], written)

\* A candidate's votes are the last votes of its voters, or of voters that have
\* moved on; candidates of one term share no voter.
VotesOK ==
    /\ \A s \in Server : votedForTerm[s] <= currentTerm[s]
    /\ \A s \in Server : role[s] # "follower" => currentTerm[s] > 1
    /\ \A s \in Server : role[s] = "candidate" => \A p \in votes[s] :
          \/ currentTerm[p] > currentTerm[s]
          \/ /\ currentTerm[p] = currentTerm[s]
             /\ votedForTerm[p] = currentTerm[s]
             /\ votedFor[p] = s
    /\ \A s, p \in Server :
          role[s] = "candidate" /\ role[p] = "candidate"
             /\ currentTerm[s] = currentTerm[p] /\ s # p => votes[s] \cap votes[p] = {}

\* c may still be elected in term t, were it not for the votes of others.
Open(c, t) == currentTerm[c] < t \/ (currentTerm[c] = t /\ role[c] = "candidate")

\* q neither has voted nor will vote for c in term t.
Blocks(q, c, t) ==
    /\ currentTerm[c] = t => q \notin votes[c]
    /\ currentTerm[q] > t \/ (votedForTerm[q] = t /\ votedFor[q] \notin {Nil, c})

\* Term t has had its leader: a majority is at it or past it and will elect no other.
Taken(t) ==
    \E Q \in SUBSET Server :
        /\ IsMajority(Q)
        /\ \A q \in Q : /\ currentTerm[q] >= t
                        /\ \A c \in Server : Open(c, t) => Blocks(q, c, t)

TermsOK == \A l \in written : Taken(l[2])

\* s is, or was and still acts for, the leader of term t.
Owns(s, t) ==
    \/ role[s] = "leader" /\ currentTerm[s] = t
    \/ write[s] # Nil /\ write[s].term = t
    \/ \E p \in Server : call[s][p] # Nil /\ call[s][p].args.term = t

OwnersOK ==
    \A s \in Server : \A t \in Term : Owns(s, t) =>
        /\ t <= currentTerm[s]
        /\ \E l \in written : l[2] = t
        /\ \A p \in Server : Owns(p, t) => p = s

\* The call was sent before its peer had answered any call of this term: its highest
\* log is of the term itself.
FirstCall(a) == a.preTerm = a.term \/ a.entry = a.term

\* The commit index a call carries, as far as its peer uses it, is that of a settled
\* log: below pre, or at or above it.
CommitTrue(a) ==
    \E n \in Index : \E t \in 1..a.term :
        /\ Settled(n, t)
        /\ \/ AtOrAfter(a.pre, a.preTerm, n, t) /\ FollowerCommitIndex(a) <= n
           \/ a.pre <= n /\ Below(a.pre, a.preTerm, n, t)

\* The calls under way.
CallOK(s, p) ==
    LET c == call[s][p]
        a == c.args IN
    c # Nil =>
        /\ s # p
        /\ role[s] # "candidate"
        /\ role[s] = "leader" =>
              /\ a.term = currentTerm[s]
              /\ log[s][a.pre] = a.preTerm
              /\ a.entry # NoLog => log[s][a.index] = a.entry
              /\ a.commit <= commitIndex[s]
        /\ IsWritten(a.pre, a.preTerm)
        /\ a.entry # NoLog =>
              /\ a.index = a.pre + 1
              /\ <<a.index, a.entry, a.preTerm>> \in written
              /\ a.entry <= a.term
        /\ c.st = "sent" /\ a.term > currentTerm[p] => FirstCall(a)
        /\ c.st = "answered" => a.term <= c.term /\ c.term <= currentTerm[p]
        /\ CommitTrue(a)

CallsOK == \A s, p \in Server : CallOK(s, p)

\* What a leader's own logs look like, and the write it is at.
LeadersOK ==
    \A s \in Server : role[s] = "leader" =>
        /\ log[s][lastLogIndex[s]] = currentTerm[s]
        /\ \A l \in written : l[2] = currentTerm[s] => log[s][l[1]] = l[2]
        /\ write[s] = Nil => /\ Settled(lastLogIndex[s], currentTerm[s])
                             /\ Keeps(s, lastLogIndex[s], currentTerm[s])
        /\ write[s] # Nil =>
              /\ write[s].term = currentTerm[s]
              /\ write[s].st = "logged" => write[s].index = lastLogIndex[s]

\* A log that is chosen but not added yet follows a settled one, which the server
\* keeps whatever happens meanwhile.
ChosenWritesOK ==
    \A s \in Server : write[s] # Nil /\ write[s].st = "chosen" =>
        LET w == write[s] IN
        /\ Settled(w.index - 1, w.term)
        /\ Keeps(s, w.index - 1, w.term)
        /\ \A l \in written : l[2] = w.term => l[1] < w.index

\* A write the leader waits with for consensus.
Waiting(s) == role[s] = "leader" /\ write[s] # Nil /\ write[s].st = "logged"

\* The peers that count, or whose answer will count, for the write of s.
Acks(s) ==
    replicated[s] \cup
    {p \in Server : /\ call[s][p] # Nil
                    /\ call[s][p].st = "answered"
                    /\ call[s][p].status = 0
                    /\ ConfirmsWrite(s, call[s][p].args)}

\* Either everyone who has confirmed the write holds it, or it is doomed: a majority
\* that has not confirmed it has moved on to a later term.
WaitingOK ==
    \A s \in Server : Waiting(s) =>
        LET n == write[s].index
            t == write[s].term IN
        \/ /\ GrowsAbove(n, t)
           /\ Keeps(s, n, t)
           /\ \A q \in Acks(s) : Holds(q, n, t)
        \/ \E V \in SUBSET Server :
              /\ IsMajority(V)
              /\ \A v \in V : currentTerm[v] > t /\ v \notin Acks(s)

ReplicatedOK == \A s \in Server : s \notin replicated[s]

CommittedOK == \A c \in committed : Chosen(c[1], c[2], c[3])

\* What a server has applied, may apply or takes for committed is so, and it keeps it.
AppliedOK ==
    \A s \in Server : \A i \in Index :
        i <= lastApplied[s] \/ i <= indexToApply[s] \/ i <= commitIndex[s] =>
            /\ Keeps(s, i, log[s][i])
            /\ \E t \in 1..currentTerm[s] : Chosen(i, log[s][i], t)

\* No call a peer would accept starts below what the peer has applied.
ApplyGuard(p, i) == lastApplied[p] <= i /\ indexToApply[p] <= i

AheadOK ==
    /\ \A s, p \in Server :
          LET c == call[s][p] IN
          c # Nil /\ c.args.term >= currentTerm[p] =>
              ApplyGuard(p, IF c.st = "answered" /\ c.status # 0
                            THEN c.args.pre - 1 ELSE c.args.pre)
    /\ \A s \in Server : Waiting(s) =>
          /\ commitIndex[s] < write[s].index
          /\ \A p \in Server :
                currentTerm[p] <= currentTerm[s] => ApplyGuard(p, write[s].index - 1)

\* The inductive invariant.
SafetyInv ==
    /\ TypeOK
    /\ LogsOK /\ TreeOK /\ VotesOK /\ TermsOK /\ OwnersOK /\ CallsOK
    /\ LeadersOK /\ ChosenWritesOK /\ WaitingOK /\ ReplicatedOK
    /\ CommittedOK /\ AppliedOK /\ AheadOK
    /\ orphans = {} /\ fatal = {} /\ ~reused

\* It holds if calls are prompt: none outlives the round of its server or is executed
\* after its caller has given it up; and if no vote is lost while its election is open.
Prompt == ~RpcOutlivesRound /\ MaxOrphan = 0 /\ ~ForgetsVote
=============================================================================
