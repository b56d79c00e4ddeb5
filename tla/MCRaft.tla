------------------------------- MODULE MCRaft -------------------------------
(***************************************************************************)
(* Instances of Raft for TLC.                                              *)
(***************************************************************************)
EXTENDS RaftContract, TLC

\* Nodes are interchangeable.
Symmetry == Permutations(Node)

\* The tally of a pre-vote campaign that is over is never read again.
LivePreVotes ==
    [n \in Node |-> [k \in PreVotes |->
        IF PreVoteOver(n, k) THEN {} ELSE pre_votes_granted[n][k]]]

\* A property reads the ballots by which a term is won: those of the campaign a
\* Candidate is in. Once it has won there can only be more of them, and all that
\* is read is whether they were enough.
LiveBallots ==
    <<{b \in ballots : role[b[3]] = "Candidate" /\ b[2] = current_term[b[3]]},
      LeadersHaveQuorum>>

\* The logs recorded for leaders are only written: no action and no property of
\* the runs reads them (TypeOK asks for no more than their types), so states
\* that differ in nothing else need not be told apart.
View == <<hardState, logState, roleState, LivePreVotes, step_down, rpcs, restarts,
          LiveBallots, elected, decided>>

\* Nor do they read the ballots, who won a term or the leader hint, except in
\* the properties of raft_election; the runs about logs leave these out.
LogView == <<hardState, logState, role, votes_received, next_index, match_index,
             LivePreVotes, step_down, rpcs, restarts, decided>>
=============================================================================
