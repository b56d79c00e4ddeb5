------------------------------ MODULE Consensus ------------------------------
(***************************************************************************)
(* What raft-engine gives the gateways that run on its nodes, at the level *)
(* of elections, appends and commitment (Raft.tla has the messages), and   *)
(* the store each node applies the committed entries to.                   *)
(*                                                                         *)
(* Node holds the nodes that clients talk to; others may exist, so a node  *)
(* can lead in ignorance of a newer leader. `chosen' is what a quorum has  *)
(* stored in the term of its leader: the entries no later leader lacks.    *)
(***************************************************************************)
EXTENDS LactoStore

CONSTANTS
    Node,
    None,
    MaxElections,   \* bound on leaderships
    MaxLog          \* bound on the length of a log

ASSUME BoundsAssumption == MaxElections \in Nat /\ MaxLog \in Nat

VARIABLES
    chosen,         \* history: mutations committed, in log order
    log,            \* per node: sequence of [term, m]
    committed,      \* last_committed of the node
    leading,        \* the term a node leads in, 0 while it is no leader
    term,           \* history: the newest term that has a leader
    store,          \* per node: its LactoStore
    covered         \* history: the log prefix the store's trees reflect

raft == <<chosen, log, committed, leading, term>>
fsm == <<store, covered>>

Mutations(lg) == [i \in 1..Len(lg) |-> lg[i].m]

is_leader(n) == leading[n] # 0

Newest(n) == is_leader(n) /\ leading[n] = term

-----------------------------------------------------------------------------

ConsensusInit ==
    /\ chosen = << >>
    /\ log = [n \in Node |-> << >>]
    /\ committed = [n \in Node |-> 0]
    /\ leading = [n \in Node |-> 0]
    /\ term = 0
    /\ store = [n \in Node |-> new]
    /\ covered = [n \in Node |-> 0]

\* Only a node that has every chosen entry wins (Raft.tla, LeaderCompleteness).
into_leader(n) ==
    /\ ~ is_leader(n)
    /\ term < MaxElections
    /\ IsPrefix(chosen, Mutations(log[n]))
    /\ term' = term + 1
    /\ leading' = [leading EXCEPT ![n] = term']
    /\ UNCHANGED <<chosen, log, committed, fsm>>

\* A higher term was seen.
into_follower(n) ==
    /\ is_leader(n)
    /\ leading' = [leading EXCEPT ![n] = 0]
    /\ UNCHANGED <<chosen, log, committed, term, fsm>>

propose(n, m) ==
    /\ Len(log[n]) < MaxLog
    /\ log' = [log EXCEPT ![n] = Append(@, [term |-> leading[n], m |-> m])]

\* A quorum has stored an entry of the leader's own term.
ReachQuorum(n) ==
    /\ Newest(n)
    /\ Len(log[n]) > Len(chosen)
    /\ Last(log[n]).term = leading[n]
    /\ chosen' = Mutations(log[n])
    /\ UNCHANGED <<log, committed, leading, term, fsm>>

\* Variant: commitment is counted in replicas that were sent the entry.
stored_by_quorum_assumed(n) == TRUE

stored_by_quorum(n) == IsPrefix(Mutations(log[n]), chosen)

\* The leader counts the acknowledgements of what its quorum stored, perhaps
\* after a newer leader was elected.
update_commit_index(n) ==
    /\ is_leader(n)
    /\ committed[n] < Len(log[n])
    /\ stored_by_quorum(n)
    /\ Last(log[n]).term = leading[n]
    /\ committed' = [committed EXCEPT ![n] = Len(log[n])]
    /\ UNCHANGED <<chosen, log, leading, term, fsm>>

\* A follower's log is reconciled with the newest leader's, and its commit
\* index with the leader_commit of the same request.
reconcile_log(n, leader) ==
    /\ ~ is_leader(n)
    /\ Newest(leader)
    /\ <<log[n], committed[n]>> # <<log[leader], committed[leader]>>
    /\ log' = [log EXCEPT ![n] = log[leader]]
    /\ committed' = [committed EXCEPT
            ![n] = IF committed[leader] > @ THEN committed[leader] ELSE @]
    /\ UNCHANGED <<chosen, leading, term, fsm>>

\* apply_committed, one entry at a time. A store that was restored from a
\* snapshot newer than its label meets entries it already reflects.
apply_committed(n) ==
    /\ store[n].applied < committed[n]
    /\ ~ store[n].poisoned
    /\ LET i == store[n].applied + 1
       IN  /\ store' = [store EXCEPT ![n] = apply(@, i, log[n][i].m)]
           /\ covered' = [covered EXCEPT ![n] = IF i > @ THEN i ELSE @]
    /\ UNCHANGED raft

\* Variant: the commit index stays behind the restored snapshot.
advance_horizon_after_snapshot_not(n, label) == committed[n]

advance_horizon_after_snapshot(n, label) == IF label > committed[n] THEN label ELSE committed[n]

\* A lagging follower restores the leader's snapshot. The label may be older
\* than the state that was serialised (Applier.tla, SnapshotCoversLabel).
InstallSnapshot(n, leader) ==
    /\ ~ is_leader(n)
    /\ Newest(leader)
    /\ \E label \in (store[n].applied + 1)..store[leader].applied :
        /\ store' = [store EXCEPT ![n] = install_snapshot(@, label, snapshot(store[leader]))]
        /\ covered' = [covered EXCEPT ![n] = covered[leader]]
        /\ committed' = [committed EXCEPT ![n] = advance_horizon_after_snapshot(n, label)]
        /\ log' = [log EXCEPT ![n] =
                SubSeq(log[leader], 1, label) \o SubSeq(@, label + 1, Len(@))]
    /\ UNCHANGED <<chosen, leading, term>>

ConsensusNext ==
    \E n \in Node :
        \/ into_leader(n)
        \/ into_follower(n)
        \/ ReachQuorum(n)
        \/ update_commit_index(n)
        \/ apply_committed(n)
        \/ \E leader \in Node \ {n} : reconcile_log(n, leader) \/ InstallSnapshot(n, leader)

=============================================================================
