----------------------------- MODULE Deployment -----------------------------
(***************************************************************************)
(* Nodes being started, stopped and moved by an operator who makes         *)
(* mistakes, and the requests they exchange meanwhile: configuration       *)
(* (config.rs), the identity in a data directory (identity.rs), outgoing   *)
(* connections (peer.rs) and the interceptors in front of both services    *)
(* (common-rpc). A request may arrive after its receiver was replaced.     *)
(***************************************************************************)
EXTENDS Naturals, FiniteSets

CONSTANTS
    Dir,            \* data directories
    Address,
    NoAddress,      \* an empty URI
    Configs,        \* what config files may say
    Cluster,
    MaxStarts,      \* bound on process starts
    MaxRequests     \* bound on requests sent

ASSUME NoAddressAssumption == NoAddress \notin Address

VARIABLES
    disk,           \* per directory: the identity in it, or Fresh
    process,        \* per address: the process that listens there, or Stopped
    wire,           \* requests in flight
    accepted,       \* history: requests that reached a service, and who served them
    starts, sent    \* history: numbers of starts and requests

vars == <<disk, process, wire, accepted, starts, sent>>

Fresh == [cluster |-> "none", node |-> 0]

\* The intervals are unsigned numbers of milliseconds, and what stands for an
\* empty directory is nobody's identity.
ASSUME ConfigAssumption ==
    \A c \in Configs :
        /\ c.raft \in [tick_interval_ms : Nat, heartbeat_interval_ms : Nat,
                       election_timeout_min_ms : Nat, election_timeout_max_ms : Nat,
                       rpc_timeout_ms : Nat, consensus_timeout_ms : Nat,
                       snapshot_threshold : Nat]
        /\ [cluster |-> c.cluster_id, node |-> c.node_id] # Fresh

Stopped == [dir |-> "none"]

Running == {a \in Address : process[a] # Stopped}

Init ==
    /\ disk = [d \in Dir |-> Fresh]
    /\ process = [a \in Address |-> Stopped]
    /\ wire = {}
    /\ accepted = {}
    /\ starts = 0
    /\ sent = 0

-----------------------------------------------------------------------------
(* Configuration *)

\* Variant: ticks longer than a heartbeat interval are accepted.
tick_fits_heartbeat_unchecked(r) == TRUE

tick_fits_heartbeat(r) == r.tick_interval_ms <= r.heartbeat_interval_ms

RaftConfig_validate(r) ==
    /\ \A f \in DOMAIN r : r[f] > 0
    /\ tick_fits_heartbeat(r)
    /\ r.consensus_timeout_ms >= r.rpc_timeout_ms
    /\ r.rpc_timeout_ms < r.heartbeat_interval_ms
    /\ r.election_timeout_min_ms >= 3 * r.heartbeat_interval_ms
    /\ r.election_timeout_max_ms > r.election_timeout_min_ms

PolicyConfig_validate(p) == p.veto_timeout_ms > 0 /\ p.veto_addr # NoAddress

Config_validate(c) ==
    /\ c.node_id \notin DOMAIN c.peers
    /\ \A n \in DOMAIN c.peers : c.peers[n] # NoAddress
    /\ RaftConfig_validate(c.raft)
    /\ PolicyConfig_validate(c.policy)

\* ms.div_ceil(tick)
to_ticks(ms, tick) == (ms + tick - 1) \div tick

calculate_thresholds(r) ==
    [heartbeat_interval |-> to_ticks(r.heartbeat_interval_ms, r.tick_interval_ms),
     min_election       |-> to_ticks(r.election_timeout_min_ms, r.tick_interval_ms),
     max_election       |-> to_ticks(r.election_timeout_max_ms, r.tick_interval_ms)]

-----------------------------------------------------------------------------
(* Processes *)

\* Variant: the configuration is believed.
identity_matches_unchecked(d, id) == TRUE

identity_matches(d, id) == disk[d] \in {Fresh, id}

\* A first start writes the identity; later ones must agree with it.
initialize_node_identity(d, id) ==
    /\ identity_matches(d, id)
    /\ disk' = [disk EXCEPT ![d] = IF @ = Fresh THEN id ELSE @]

\* The databases of a directory are open in one process at a time.
init_persistence(d) == \A a \in Running : process[a].dir # d

PeerManager_try_new(peers) == \A n \in DOMAIN peers : peers[n] # NoAddress

\* What the services of the process are built with.
init_dispatchers(d, id, c) ==
    [dir |-> d, identity |-> id, engine_identity |-> id, peers |-> c.peers,
     thresholds |-> calculate_thresholds(c.raft)]

\* A process that cannot bind its address ends.
run_server(a, p) ==
    process' = IF process[a] = Stopped THEN [process EXCEPT ![a] = p] ELSE process

\* main. The identity is on disk before the socket is bound.
Start(d, c) ==
    LET id == [cluster |-> c.cluster_id, node |-> c.node_id]
    IN  /\ starts < MaxStarts
        /\ starts' = starts + 1
        /\ Config_validate(c)
        /\ init_persistence(d)
        /\ initialize_node_identity(d, id)
        /\ PeerManager_try_new(c.peers)
        /\ run_server(c.listen_addr, init_dispatchers(d, id, c))
        /\ UNCHANGED <<wire, accepted, sent>>

Stop(a) ==
    /\ a \in Running
    /\ process' = [process EXCEPT ![a] = Stopped]
    /\ UNCHANGED <<disk, wire, accepted, starts, sent>>

-----------------------------------------------------------------------------
(* Requests *)

Put(m) ==
    /\ sent < MaxRequests
    /\ sent' = sent + 1
    /\ wire' = wire \cup {m}
    /\ UNCHANGED <<disk, process, accepted, starts>>

\* The headers of a request between nodes. Every caller attaches a trace id.
inject_identity_into_request(id, target) ==
    [service |-> "consensus", cluster |-> id.cluster, target |-> target, trace |-> "peer"]

\* The channel of a peer leads to the address it has in the configuration.
get_client(a, target) ==
    /\ a \in Running
    /\ target \in DOMAIN process[a].peers
    /\ Put([to |-> process[a].peers[target],
            request |-> inject_identity_into_request(process[a].identity, target)])

\* A client knows an address and its cluster, and no node.
inject_cluster_id_into_request(k) ==
    [service |-> "ingress", cluster |-> k, target |-> 0, trace |-> "none"]

ClientRequest(a, k) == Put([to |-> a, request |-> inject_cluster_id_into_request(k)])

verify_cluster_id(r, id) == r.cluster = id.cluster

\* Variant: whoever listens at the address takes the request.
verify_target_node_id_unchecked(r, id) == TRUE

verify_target_node_id(r, id) == r.target = id.node

\* The ingress service is built without_node_check.
IdentityInterceptor(r, id) ==
    /\ verify_cluster_id(r, id)
    /\ r.service = "consensus" => verify_target_node_id(r, id)

\* Authoritative at the ingress, propagative between nodes.
TraceInterceptor(r) == IF r.service = "ingress" THEN "gateway" ELSE r.trace

require_trace_id(trace) == trace # "none"

\* The engine and the service share one identity, or the node halts.
verify_node_integrity(p) == p.engine_identity = p.identity

Arrive(m) ==
    /\ m \in wire
    /\ wire' = wire \ {m}
    /\ m.to \in Running
    /\ LET p == process[m.to]
           r == m.request
           served == /\ IdentityInterceptor(r, p.identity)
                     /\ require_trace_id(TraceInterceptor(r))
                     /\ r.service = "consensus" => verify_node_integrity(p)
       IN  accepted' = IF served THEN accepted \cup {[request |-> r, dir |-> p.dir]} ELSE accepted
    /\ UNCHANGED <<disk, process, starts, sent>>

\* Nobody listens, or the request is lost.
Lose(m) ==
    /\ m \in wire
    /\ wire' = wire \ {m}
    /\ UNCHANGED <<disk, process, accepted, starts, sent>>

Next ==
    \/ \E d \in Dir, c \in Configs : Start(d, c)
    \/ \E a \in Address :
        \/ Stop(a)
        \/ a \in Running /\ \E target \in DOMAIN process[a].peers : get_client(a, target)
        \/ \E k \in Cluster : ClientRequest(a, k)
    \/ \E m \in wire : Arrive(m) \/ Lose(m)

Spec == Init /\ [][Next]_vars

-----------------------------------------------------------------------------
(* Properties *)

\* A process serves under the identity its data directory was created with,
\* and no directory is served twice.
TypeOK ==
    /\ \A a \in Running : disk[process[a].dir] = process[a].identity
    /\ \A a, b \in Running : process[a].dir = process[b].dir => a = b

\* A Raft request is handled only on the data it was meant for: the directory
\* that holds the log and the vote of that node of that cluster, although
\* addresses are wrong, directories are started under other configurations
\* and receivers change while the request is in flight.
RequestsReachTheirData ==
    \A x \in accepted :
        /\ x.request.cluster = disk[x.dir].cluster
        /\ x.request.service = "consensus" => x.request.target = disk[x.dir].node

\* In the ticks every valid configuration is rounded to, the heartbeat after one
\* that is lost is due before any follower's election timeout, which fires when
\* as many ticks have passed. Ticks that are coarse make one exception: with an
\* interval of two ticks and a timeout of four, both fall on the same tick, and
\* only a heartbeat that is late by less than an interval is in time.
HeartbeatsPrecedeElections ==
    \A a \in Running :
        LET t == process[a].thresholds
        IN  /\ t.heartbeat_interval > 0
            /\ \/ 2 * t.heartbeat_interval < t.min_election
               \/ t.heartbeat_interval = 2 /\ t.min_election = 4
            /\ t.min_election <= t.max_election

=============================================================================
