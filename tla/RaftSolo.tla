------------------------------ MODULE RaftSolo ------------------------------
(***************************************************************************)
(* The single-node cluster the configuration allows (an empty peer list):  *)
(* no RPC is ever sent, so everything depends on the checks that follow    *)
(* the response loops of initiate_pre_vote and initiate_election.          *)
(***************************************************************************)
EXTENDS Raft

ASSUME SoloAssumption == Cardinality(Node) = 1

\* The tick loop never stops while the node is up, and a spawned task runs.
SoloFairness ==
    \A n \in Node : /\ WF_vars(Tick(n))
                    /\ \A k \in PreVotes : WF_vars(FinishPreVote(n, k))
                    /\ WF_vars(FinishElection(n))

SoloSpec == Spec /\ SoloFairness

-----------------------------------------------------------------------------
\* A node below the last term the model allows does not stay without
\* leadership: its own vote is the quorum, in spite of pre-vote timeouts that
\* step it down, election timeouts that restart its candidacy, and crashes.
SoloElects ==
    \A n \in Node : []<>(role[n] = "Leader" \/ current_term[n] = MaxTerm)
=============================================================================
