--------------------------- MODULE MCDeployment ---------------------------
(* An instance of Deployment for TLC. *)
EXTENDS Deployment

CONSTANTS A, B

Raft(tick, heartbeat, min, max) ==
    [tick_interval_ms |-> tick, heartbeat_interval_ms |-> heartbeat,
     election_timeout_min_ms |-> min, election_timeout_max_ms |-> max,
     rpc_timeout_ms |-> 2, consensus_timeout_ms |-> 5, snapshot_threshold |-> 1]

Common == Raft(10, 50, 150, 300)

Veto == [veto_timeout_ms |-> 1, veto_addr |-> A]

Config(k, n, listen, peers, raft) ==
    [cluster_id |-> k, node_id |-> n, listen_addr |-> listen, peers |-> peers,
     raft |-> raft, policy |-> Veto]

\* Two nodes per cluster, each at either address, with its peer at the other
\* address, at its own, or nowhere, or with itself for a peer.
Topologies ==
    {Config(k, n, l, [m \in {p} |-> to], Common) :
        k \in Cluster, n \in {1, 2}, l \in {A, B}, p \in {1, 2}, to \in {A, B, NoAddress}}

\* A single node with the intervals around every limit.
Timings ==
    {Config("x", 1, A, << >>, Raft(t, h, 3 * h + m - 1, 3 * h + m - 1 + d)) :
        t \in {0, 1, 3, 10, 12}, h \in {2, 3, 10, 11}, m \in 0..2, d \in {0, 1}}

AllConfigs == Topologies \cup Timings
=============================================================================
