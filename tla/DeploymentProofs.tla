-------------------------- MODULE DeploymentProofs --------------------------
(***************************************************************************)
(* Proofs about Deployment, for any directories, addresses, clusters and   *)
(* configurations.                                                         *)
(***************************************************************************)
EXTENDS Deployment, Integers, TLAPS

-----------------------------------------------------------------------------
(* Intervals in ticks *)

\* Rounding down: the quotient is the greatest number of divisors that fit.
LEMMA QuotientIs ==
    ASSUME NEW x \in Nat, NEW d \in Nat, d > 0
    PROVE  /\ x \div d \in Nat
           /\ (x \div d) * d <= x
           /\ \A y \in Nat : y * d <= x => y <= x \div d
<1>1. x \div d \in Nat /\ (x \div d) * d <= x /\ x < (x \div d) * d + d
  OBVIOUS
<1>2. ASSUME NEW y \in Nat, y * d <= x PROVE y <= x \div d
  <2>1. CASE y >= x \div d + 1
    <3>1. y * d >= (x \div d + 1) * d
      BY <1>1, <2>1
    <3> QED
      BY <1>1, <1>2, <3>1
  <2> QED
    BY <1>1, <2>1
<1> QED
  BY <1>1, <1>2

\* In ticks no longer than a heartbeat interval, two rounded heartbeat
\* intervals are less than a timeout of three, if they are not two ticks each.
LEMMA TicksFit ==
    ASSUME NEW tick \in Nat, NEW h \in Nat, NEW m \in Nat, NEW x \in Nat,
           tick > 0, tick <= h, m >= 3 * h, x > m
    PROVE  /\ to_ticks(h, tick) > 0
           /\ \/ 2 * to_ticks(h, tick) < to_ticks(m, tick)
              \/ to_ticks(h, tick) = 2 /\ to_ticks(m, tick) = 4
           /\ to_ticks(m, tick) <= to_ticks(x, tick)
<1> DEFINE th == to_ticks(h, tick)
           tm == to_ticks(m, tick)
           tx == to_ticks(x, tick)
<1>1. /\ h + tick - 1 \in Nat /\ m + tick - 1 \in Nat /\ x + tick - 1 \in Nat
  OBVIOUS
<1>2. /\ th \in Nat /\ th * tick <= h + tick - 1
      /\ \A y \in Nat : y * tick <= h + tick - 1 => y <= th
  BY <1>1, QuotientIs DEF to_ticks
<1>3. /\ tm \in Nat /\ tm * tick <= m + tick - 1
      /\ \A y \in Nat : y * tick <= m + tick - 1 => y <= tm
  BY <1>1, QuotientIs DEF to_ticks
<1>4. \A y \in Nat : y * tick <= x + tick - 1 => y <= tx
  BY <1>1, QuotientIs DEF to_ticks
<1> HIDE DEF th, tm, tx
<1>5. 1 <= th
  <2>1. 1 * tick <= h + tick - 1
    OBVIOUS
  <2> QED
    BY <1>2, <2>1
<1>6. 3 * th - 2 <= tm
  <2>1. (3 * th - 2) * tick = 3 * (th * tick) - 2 * tick
    BY <1>2
  <2>2. 3 * (th * tick) - 2 * tick <= m + tick - 1
    <3>1. PICK k \in Nat : k = th * tick
      BY <1>2
    <3>2. k <= h + tick - 1
      BY <1>2, <3>1
    <3>3. 3 * k - 2 * tick <= m + tick - 1
      BY <3>2
    <3> QED
      BY <3>1, <3>3
  <2>3. 3 * th - 2 \in Nat
    BY <1>2, <1>5
  <2> QED
    BY <1>3, <2>1, <2>2, <2>3
<1>6a. 3 <= tm
  <2>1. 3 * tick <= m + tick - 1
    OBVIOUS
  <2> QED
    BY <1>3, <2>1
<1>6b. 2 * th < tm \/ (th = 2 /\ tm = 4)
  BY <1>2, <1>3, <1>5, <1>6, <1>6a
<1>7. tm <= tx
  <2>1. tm * tick \in Nat
    BY <1>3
  <2>2. tm * tick <= x + tick - 1
    BY <1>3, <2>1
  <2> QED
    BY <1>3, <1>4, <2>2
<1> QED
  BY <1>2, <1>5, <1>6b, <1>7 DEF th, tm, tx

-----------------------------------------------------------------------------
(* The inductive invariant *)

\* Every process runs on a directory that has an identity, and so does
\* everything that ever served a request.
Shape ==
    /\ disk = [d \in Dir |-> disk[d]]
    /\ process = [a \in Address |-> process[a]]
    /\ \A a \in Running : process[a].dir \in Dir /\ process[a].identity # Fresh
    /\ \A x \in accepted : x.dir \in Dir /\ disk[x.dir] # Fresh

DeploymentInv ==
    Shape /\ TypeOK /\ RequestsReachTheirData /\ HeartbeatsPrecedeElections

\* The thresholds of a valid configuration are in order.
LEMMA ThresholdsFit ==
    ASSUME NEW c \in Configs, Config_validate(c)
    PROVE  LET t == calculate_thresholds(c.raft)
           IN  /\ t.heartbeat_interval > 0
               /\ \/ 2 * t.heartbeat_interval < t.min_election
                  \/ t.heartbeat_interval = 2 /\ t.min_election = 4
               /\ t.min_election <= t.max_election
<1> DEFINE r == c.raft
<1>1. /\ r \in [tick_interval_ms : Nat, heartbeat_interval_ms : Nat,
                election_timeout_min_ms : Nat, election_timeout_max_ms : Nat,
                rpc_timeout_ms : Nat, consensus_timeout_ms : Nat,
                snapshot_threshold : Nat]
      /\ RaftConfig_validate(r)
  BY ConfigAssumption DEF Config_validate
<1> HIDE DEF r
<1>2. /\ r.tick_interval_ms \in Nat /\ r.heartbeat_interval_ms \in Nat
      /\ r.election_timeout_min_ms \in Nat /\ r.election_timeout_max_ms \in Nat
  BY <1>1
<1>3. /\ r.tick_interval_ms <= r.heartbeat_interval_ms
      /\ r.election_timeout_min_ms >= 3 * r.heartbeat_interval_ms
      /\ r.election_timeout_max_ms > r.election_timeout_min_ms
  BY <1>1 DEF RaftConfig_validate, tick_fits_heartbeat
<1>4. r.tick_interval_ms > 0
  BY <1>1 DEF RaftConfig_validate
<1> DEFINE th == to_ticks(r.heartbeat_interval_ms, r.tick_interval_ms)
           tm == to_ticks(r.election_timeout_min_ms, r.tick_interval_ms)
           tx == to_ticks(r.election_timeout_max_ms, r.tick_interval_ms)
<1>5. th > 0 /\ (2 * th < tm \/ (th = 2 /\ tm = 4)) /\ tm <= tx
  BY <1>2, <1>3, <1>4, TicksFit
<1> QED
  BY <1>5 DEF calculate_thresholds, r

\* A start: the directory was nobody's before, and its identity, once
\* written, is never written again.
LEMMA StartStep ==
    ASSUME DeploymentInv, NEW d \in Dir, NEW c \in Configs, Start(d, c)
    PROVE  DeploymentInv'
<1> DEFINE id == [cluster |-> c.cluster_id, node |-> c.node_id]
           p == init_dispatchers(d, id, c)
<1>1. /\ Config_validate(c)
      /\ \A a \in Running : process[a].dir # d
      /\ disk[d] \in {Fresh, id}
      /\ disk' = [disk EXCEPT ![d] = IF disk[d] = Fresh THEN id ELSE disk[d]]
      /\ \/ process' = process
         \/ process[c.listen_addr] = Stopped /\ process' = [process EXCEPT ![c.listen_addr] = p]
      /\ UNCHANGED accepted
  BY DEF Start, init_persistence, initialize_node_identity, identity_matches, run_server
<1>2. id # Fresh
  BY ConfigAssumption
<1>3. /\ p.dir = d /\ p.identity = id /\ p.thresholds = calculate_thresholds(c.raft)
  BY DEF init_dispatchers
<1> HIDE DEF id, p
<1>4. Shape /\ TypeOK /\ RequestsReachTheirData /\ HeartbeatsPrecedeElections
  BY DEF DeploymentInv
<1>5. /\ disk' = [x \in Dir |-> disk'[x]] /\ disk'[d] = id
      /\ \A x \in Dir \ {d} : disk'[x] = disk[x]
      /\ \A x \in Dir : disk[x] # Fresh => disk'[x] = disk[x]
  BY <1>1, <1>4 DEF Shape
<1>6. /\ process' = [a \in Address |-> process'[a]]
      /\ \A a \in Running' : \/ a \in Running /\ process'[a] = process[a]
                             \/ a = c.listen_addr /\ process'[a] = p
      /\ \A a, b \in Running' : a = c.listen_addr /\ b = c.listen_addr => a = b
  BY <1>1, <1>4 DEF Shape, Running
<1>7. \A a \in Running' : \/ a \in Running /\ process'[a] = process[a] /\ process[a].dir # d
                          \/ a = c.listen_addr /\ process'[a].dir = d
  BY <1>1, <1>3, <1>6
<1>8. \A a \in Running' : process'[a].dir \in Dir /\ process'[a].identity # Fresh
  BY <1>2, <1>3, <1>4, <1>6 DEF Shape
<1>9. \A x \in accepted : x.dir \in Dir /\ disk'[x.dir] = disk[x.dir] /\ disk[x.dir] # Fresh
  BY <1>4, <1>5 DEF Shape
<1>10. Shape'
  BY <1>1, <1>5, <1>6, <1>8, <1>9 DEF Shape
<1>11. \A a \in Running' : disk'[process'[a].dir] = process'[a].identity
  <2>1. \A a \in Running : process[a].dir \in Dir \ {d} /\ disk[process[a].dir] = process[a].identity
    BY <1>1, <1>4 DEF Shape, TypeOK
  <2> QED
    BY <1>3, <1>5, <1>6, <2>1
<1>12. \A a, b \in Running' : process'[a].dir = process'[b].dir => a = b
  BY <1>4, <1>7 DEF TypeOK
<1>13. RequestsReachTheirData'
  BY <1>1, <1>4, <1>9 DEF RequestsReachTheirData
<1>14. HeartbeatsPrecedeElections'
  BY <1>1, <1>3, <1>4, <1>6, ThresholdsFit DEF HeartbeatsPrecedeElections
<1> QED
  BY <1>10, <1>11, <1>12, <1>13, <1>14 DEF DeploymentInv, TypeOK

\* A stop frees the directory, and leaves the identity in it.
LEMMA StopStep ==
    ASSUME DeploymentInv, NEW a \in Address, Stop(a)
    PROVE  DeploymentInv'
<1>1. /\ process' = [process EXCEPT ![a] = Stopped] /\ UNCHANGED <<disk, accepted>>
  BY DEF Stop
<1>2. Shape /\ TypeOK /\ RequestsReachTheirData /\ HeartbeatsPrecedeElections
  BY DEF DeploymentInv
<1>3. /\ process' = [b \in Address |-> process'[b]]
      /\ \A b \in Running' : b \in Running /\ process'[b] = process[b]
  BY <1>1, <1>2 DEF Running, Shape
<1>4. Shape' /\ TypeOK' /\ RequestsReachTheirData'
  BY <1>1, <1>2, <1>3 DEF Shape, TypeOK, RequestsReachTheirData
<1>5. HeartbeatsPrecedeElections'
  BY <1>2, <1>3 DEF HeartbeatsPrecedeElections
<1> QED
  BY <1>4, <1>5 DEF DeploymentInv

\* An arrival: what serves the request speaks for its directory, whatever
\* listened at the address when the request was sent.
LEMMA ArriveStep ==
    ASSUME DeploymentInv, NEW m \in wire, Arrive(m)
    PROVE  DeploymentInv'
<1> DEFINE p == process[m.to]
           r == m.request
           x == [request |-> r, dir |-> p.dir]
<1>1. Shape /\ TypeOK /\ RequestsReachTheirData /\ HeartbeatsPrecedeElections
  BY DEF DeploymentInv
<1>2. m.to \in Running /\ UNCHANGED <<disk, process>>
  BY DEF Arrive
<1>3. \/ accepted' = accepted
      \/ accepted' = accepted \cup {x} /\ IdentityInterceptor(r, p.identity)
  BY DEF Arrive
<1>4. p.dir \in Dir /\ p.identity # Fresh /\ disk[p.dir] = p.identity
  BY <1>1, <1>2 DEF Shape, TypeOK
<1>5. x.request = r /\ x.dir = p.dir
  OBVIOUS
<1>6. IdentityInterceptor(r, p.identity) =>
         /\ r.cluster = disk[p.dir].cluster
         /\ r.service = "consensus" => r.target = disk[p.dir].node
  BY <1>4 DEF IdentityInterceptor, verify_cluster_id, verify_target_node_id
<1> HIDE DEF x, p, r
<1>7. RequestsReachTheirData'
  BY <1>1, <1>2, <1>3, <1>5, <1>6 DEF RequestsReachTheirData
<1>8. Shape'
  BY <1>1, <1>2, <1>3, <1>4, <1>5 DEF Shape, Running
<1> QED
  BY <1>1, <1>2, <1>7, <1>8 DEF DeploymentInv, TypeOK, HeartbeatsPrecedeElections, Running

\* Every step preserves the invariant.
LEMMA DeploymentStep == DeploymentInv /\ [Next]_vars => DeploymentInv'
<1> SUFFICES ASSUME DeploymentInv, [Next]_vars PROVE DeploymentInv'
  OBVIOUS
<1>1. ASSUME UNCHANGED <<disk, process, accepted>> PROVE DeploymentInv'
  BY <1>1 DEF DeploymentInv, Shape, TypeOK, RequestsReachTheirData,
              HeartbeatsPrecedeElections, Running
<1>2. ASSUME NEW m, Put(m) \/ Lose(m) PROVE DeploymentInv'
  BY <1>1, <1>2 DEF Put, Lose
<1>3. CASE UNCHANGED vars
  BY <1>1, <1>3 DEF vars
<1> QED
  BY <1>2, <1>3, StartStep, StopStep, ArriveStep DEF Next, get_client, ClientRequest

\* Nodes under any operator: the invariant holds in every reachable state.
LEMMA DeploymentInvHolds == Spec => []DeploymentInv
<1>1. Init => DeploymentInv
  BY DEF Init, DeploymentInv, Shape, TypeOK, RequestsReachTheirData,
         HeartbeatsPrecedeElections, Running
<1> QED
  BY <1>1, DeploymentStep, PTL DEF Spec

-----------------------------------------------------------------------------
(* The theorems *)

\* A process serves under the identity its data directory was created with,
\* and no two processes share a directory.
THEOREM IdentitiesStick == Spec => []TypeOK
<1>1. DeploymentInv => TypeOK
  BY DEF DeploymentInv
<1> QED
  BY <1>1, DeploymentInvHolds, PTL

\* A request of one node to another is served only on the data of the node and
\* cluster it was meant for, for any directories, addresses and configurations.
THEOREM RequestsAreForTheData == Spec => []RequestsReachTheirData
<1>1. DeploymentInv => RequestsReachTheirData
  BY DEF DeploymentInv
<1> QED
  BY <1>1, DeploymentInvHolds, PTL

\* Whatever intervals a configuration that passes validation has, rounding them
\* to ticks leaves the heartbeat after a lost one before the election timeout,
\* with the one exception of two ticks and four, where they coincide.
THEOREM TimeoutsOutlastHeartbeats == Spec => []HeartbeatsPrecedeElections
<1>1. DeploymentInv => HeartbeatsPrecedeElections
  BY DEF DeploymentInv
<1> QED
  BY <1>1, DeploymentInvHolds, PTL
=============================================================================
