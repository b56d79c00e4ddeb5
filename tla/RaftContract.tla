---------------------------- MODULE RaftContract ----------------------------
(***************************************************************************)
(* Raft implements ReplicatedLog. An entry is identified by its index and  *)
(* term; what is chosen is what some node has committed.                   *)
(***************************************************************************)
EXTENDS Raft

committed_entries(n) == SubSeq(log[n], 1, last_committed[n])

FurthestNode == CHOOSE n \in Node : \A m \in Node : last_committed[m] <= last_committed[n]

Contract == INSTANCE ReplicatedLog
    WITH chosen <- committed_entries(FurthestNode),
         learned <- [n \in Node |-> committed_entries(n)]

\* Whatever messages, crashes and leader changes do, the nodes' committed
\* prefixes are prefixes of one sequence, and it and they only grow.
ImplementsReplicatedLog == Contract!Spec

=============================================================================
