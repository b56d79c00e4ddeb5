--------------------------- MODULE ReplicatedLog ---------------------------
(***************************************************************************)
(* What raft-engine promises the rest of the system: one sequence of       *)
(* entries is chosen, it only ever grows, and every node knows a prefix of *)
(* it that only ever grows. Raft implements this (RaftContract); the       *)
(* gateways rely on no more (Ledger, ReliesOnContract).                      *)
(***************************************************************************)
EXTENDS Sequences, SequencesExt

CONSTANT Node

VARIABLES
    chosen,     \* the entries chosen so far
    learned     \* per node: the entries it knows to be chosen

rlVars == <<chosen, learned>>

Init ==
    /\ chosen = << >>
    /\ learned = [n \in Node |-> << >>]

\* Node n learns more of what is chosen.
Learn(n) ==
    /\ IsPrefix(learned[n], learned'[n])
    /\ IsPrefix(learned'[n], chosen')
    /\ \A m \in Node \ {n} : learned'[m] = learned[m]

\* More is chosen; the node that finds out may know at once.
Choose(n) ==
    /\ chosen' # chosen
    /\ IsPrefix(chosen, chosen')
    /\ Learn(n)

Next == \E n \in Node : Choose(n) \/ (UNCHANGED chosen /\ Learn(n))

Spec == Init /\ [][Next]_rlVars

=============================================================================
