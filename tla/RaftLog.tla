------------------------------ MODULE RaftLog ------------------------------
(***************************************************************************)
(* What the lwraft cluster promises its clients, without messages, terms   *)
(* of office or votes: one log that only grows, and servers that apply     *)
(* prefixes of it.  RaftReplication implements this specification; the     *)
(* refinement is stated there.                                             *)
(***************************************************************************)
EXTENDS Naturals

CONSTANTS Server, First     \* First: the log every server starts with

VARIABLES
    chosen,     \* the logs that are committed, as pairs <<index, log>>
    applied     \* applied[s]: the logs server s has applied, in order

\* A set of pairs that is one log: an index has one log, and none is left out.
IsLog(c) ==
    /\ \A x, y \in c : x[1] = y[1] => x = y
    /\ \A x \in c : \A i \in 1..x[1] : \E y \in c : y[1] = i

Prefix(a, c) == \A i \in DOMAIN a : <<i, a[i]>> \in c

Init ==
    /\ chosen = {<<1, First>>}
    /\ applied = [s \in Server |-> [i \in 1..1 |-> First]]

\* The cluster decides on further logs; a server applies logs that are decided.
\* A leader does both in one step.
Advance ==
    /\ chosen \subseteq chosen'
    /\ IsLog(chosen')
    /\ \E s \in Server :
          /\ \A p \in Server \ {s} : applied'[p] = applied[p]
          /\ DOMAIN applied[s] \subseteq DOMAIN applied'[s]
          /\ Prefix(applied'[s], chosen')

\* A crash: a server repeats logs it has applied.
Repeat ==
    /\ UNCHANGED chosen
    /\ \E s \in Server :
          /\ \A p \in Server \ {s} : applied'[p] = applied[p]
          /\ DOMAIN applied'[s] \subseteq DOMAIN applied[s]
          /\ \A i \in DOMAIN applied'[s] : applied'[s][i] = applied[s][i]

Next == Advance \/ Repeat

Spec == Init /\ [][Next]_<<chosen, applied>>
=============================================================================
