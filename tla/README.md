# TLA+ models of Lact-O-Sensus

TLA+ specifications of Lact-O-Sensus: the consensus core, the state machine, the
gateway, the client, the evaluation of a mutation and the deployment of nodes,
model-checked with TLC on small instances, and TLAPS proofs, for every instance,
of the safety of consensus, of the applier, of the exactly-once ledger built on
them, of the evaluation and of the deployment. Paths below are relative to the repository
(`src/` here); `E` stands for `crates/raft-engine/src`.

## 1. The system

A cluster of `node-server` processes replicates a ledger of grocery mutations.
A client (REPL with a write-ahead log) sends intents to the gateway of a node;
the gateway checks the client's sequence number, asks an external language model
for a verdict, proposes the mutation to Raft, waits for the commit and answers.
Committed entries are applied to `lacto-fsm`, a sled database with a session
table for exactly-once semantics.

### Inventory

| Component | State | Operations | Correct when |
|---|---|---|---|
| Roles and elections (`E/engine.rs`, `E/node/`, `E/consensus/election.rs`) | term, vote, role and its fields, leader hint, tick counters | tick, pre-vote campaign, election campaign, step-down, vote handlers, Halt Mandate | one leader per term; the hint names it; campaigns do not outlive their purpose; only real invariant violations halt a node |
| Log replication (`E/consensus/replication.rs`, `rpc.rs`, `E/node/follower.rs`) | log, commit index, next/match index | heartbeat rounds, per-peer request, `reconcile_log`, index reconciliation, quorum commit | log matching, leader completeness, stable committed prefix; peers catch up |
| Tick loop (`E/consensus/lifecycle.rs`) | none of its own | turns `TickAction`s into transitions and spawned tasks; compaction trigger | decision and transition belong to the same state |
| Persistent storage (`E/storage.rs`) | hard state, log, snapshot metadata in sled | one flushed write per mutation; front and suffix truncation | what was promised to others survives a crash |
| RPC service (`E/service/consensus.rs`) | none | header checks, call the handlers under the lock | |
| Log compaction and InstallSnapshot (`lifecycle.rs`, `replication.rs`, `E/orchestration.rs`) | freeze depth, snapshot permits, snapshot metadata | compaction task, serialisation for a peer, three-phase installation | no committed entry becomes unreachable; a snapshot is a point in time at its label |
| Applier (`E/orchestration.rs`, `lifecycle.rs`) | volatile applied horizon, `fsm_lock` | background loop, `apply_committed` | everything committed is applied once, in order |
| Recovery (`E/recovery.rs`, start-up of `node-server`) | | causal check, replay | a crashed node boots and has lost nothing committed |
| ConsensusShell (`E/shell.rs`) | write lock, freeze depth, progress watch, permits | guarded mutation with broadcast, freeze/thaw | a change is broadcast exactly when there is one |
| ReadIndex probe (`E/orchestration.rs`, `E/node/leader.rs`) | read epochs, acknowledgements | `verify_leadership_quorum` | a confirmed read is not older than its start |
| LocalRaftHandle (`E/service/handle.rs`) | subscriptions | propose, await commit/apply, redirect | a wait resolves for its own entry only |
| State machine (`crates/lacto-fsm`) | inventory, sessions, clinical clock, `last_applied`, tombstone, poison flag | apply, snapshot, install | every store is the replay of a prefix of the committed history; exactly once per client sequence number |
| Gateway ingress (`crates/gateway/src/ingress`) | mutation lock; handlers between their awaits | authority, sequence firewall, evaluation, proposal, commit wait; probe, fence, read | no sequence gap reaches the log; an answer is an outcome that was recorded; a read is as new as it claims |
| Policy evaluation (`scrubber.rs`, `ai_oracle.rs`, `stabilizer.rs`, `crates/ai-veto`) | one evaluation: intent, attempt | normalise, ask, validate, stabilise | whatever the language model says, the inventory stays physical |
| Client (`crates/client-cli`) | next sequence number, WAL, known nodes | submit, redirect, retry, replay | an intent survives a client crash and is executed once |
| Units, slugs, taxonomy (`crates/common`) | none | conversion to and from base units | what is shown is what was put in |
| Identity, configuration, peers, interceptors (`E/identity.rs`, `E/config.rs`, `E/peer.rs`, `crates/common-rpc`, `crates/node-server`) | identity on disk, peer table, tick thresholds | start-up, outgoing requests, header checks | a request meets the data it was meant for; timing ratios survive the rounding to ticks |

Components interact in three ways. Inside a node, tokio tasks share the
`LogicalNode` behind the write lock of `ConsensusShell`; a task that must wait
(an RPC, a blocking call) releases the lock, carries its parameters across the
wait and locks again. The state machine has a second lock, `fsm_lock`, and the
freeze depth is an atomic counter. Progress is published to waiting tasks
through a watch channel when the write lock is released. Between nodes there are
four RPCs (`PreVote`, `RequestVote`, `AppendEntries`, `InstallSnapshot`), each
with a timeout and no retry of its own: the next heartbeat or campaign is the
retry. A client talks to one gateway at a time and repeats a request elsewhere
when it is refused or not answered; the handler of the first attempt may still be
running. The gateway reads the store of its own node, proposes through
`LocalRaftHandle` and learns of commits through the same watch channel.

### What is hard

* State captured under one lock acquisition and used under the next: round
  parameters, campaign parameters, snapshot labels, compaction targets, the
  step-down decision.
* Responses that arrive after their task's term, role or round is over.
* Crashes between two flushed writes of one handler.
* Freeze, thaw and `fsm_lock` between four kinds of tasks.
* Wake-ups that are dropped because the state looked unchanged or frozen.
* Degenerate clusters (no peers), where loops over responses run zero times.
* Handlers that outlive the client that asked, on a node that no longer leads.
* Decisions read from a store that lags behind what is committed: the sequence
  firewall, the inventory an evaluation is based on, a query.
* A client that crashes between the sequence number, the WAL and the answer.
* Rounding in conversions and in tick thresholds.
* Configuration mistakes while requests are in flight.

`PROJECT.json` lists these hazards line by line with the properties aimed at
them.

## 2. The modules

| Module | Models | Role |
|---|---|---|
| `Raft` | roles, elections, replication, tick loop, hard state and log | the core specification |
| `MCRaft` | | instances for TLC: symmetry, and views without the variables a run only writes |
| `RaftCatchUp`, `MCRaftCatchUp` | replication under a stable leader | liveness of the back-off and commit |
| `RaftSolo` | a cluster of one node | liveness without any RPC |
| `ReplicatedLog` | | abstract specification: one chosen sequence that only grows, each node at a growing prefix |
| `RaftContract` | | `Raft` implements `ReplicatedLog` |
| `Applier`, `MCApplier` | one node between commit and apply: applier, compaction, snapshot installation and serialisation, crash and recovery | second specification; consensus is its environment |
| `LactoStore` | lacto-fsm | the store as a value, with `Replay` as the reference |
| `Consensus` | raft-engine as the gateways see it, and the stores behind it | elections, appends, commits and snapshots without messages |
| `Gateway` | ingress handlers, ReadIndex probe, `LocalRaftHandle` | extends `Consensus` |
| `Client` | client-cli | state file, WAL, retry loop, recovery |
| `Ledger`, `MCLedger` | | composition of clients, gateways and stores |
| `Units` | unit registry, and the decimals it computes in | roundings, dropped places and overflow on integers |
| `Policy`, `MCPolicy` | REPL parser, scrubber, oracle loop, ai-veto validation, stabilizer | one command after the other |
| `Deployment`, `MCDeployment` | configuration, identity, peers, interceptors, start-up | operators who make mistakes |
| `RaftProofs` | | type correctness of `Raft` |
| `RaftElectionProofs` | | election safety, leader hints, whose votes a candidate counts |
| `RaftLogProofs` | | log matching |
| `RaftCommitProofs` | | leader completeness, state machine safety, stability of the committed prefix; `Raft` refines `ReplicatedLog` |
| `ApplierProofs` | | locks and freezes; no lost entry, honest labels |
| `LedgerProofs` | | stores, sessions, sequence numbers, queries and answers of `Ledger`; its contract |
| `PolicyProofs` | | the inventory under any commands and answers; what is shown and what was typed |
| `DeploymentProofs` | | identities, routing, timeouts |

Operators described as "Variant" are plausible wrong versions of the definition
that follows them. Nothing uses them; substituting one for the definition makes
a property of a run fail, which shows the property depends on that definition.

### Raft

One action is everything a task does while it holds the write lock. What it
carries across an unlock or an await is a record in `rpcs`: a request on its
way, a response on its way, or (`ReplicationRound`) the parameters a heartbeat
round captured before the per-peer task locks again to build its request. A
request that the sender no longer waits for has `awaited = FALSE` and can still
be delivered; its response is dropped.

* State: `current_term`, `voted_for`, `log`, `last_committed` are `SledStorage`'s;
  `role`, `leader_id`, `votes_received`, `next_index`, `match_index` are
  `RoleState` and its variants, `Poisoned` included; `pre_votes_granted` is the
  tallies of the running `initiate_pre_vote` tasks, of which a node may have
  several; `step_down` marks the gap between
  the tick and the second lock acquisition of `TickAction::StepDown`. `ballots`,
  `elected`, `leader_log` (the log of the leader of each term) and `decided` are
  history variables: the properties and the proofs speak of them, no guard reads
  them.
* Actions: `StartPreVote`, `StartElection`, `DecideStepDown`, `StepDown`,
  `SendHeartbeat` are the tick loop; `handle_pre_vote`, `handle_request_vote`,
  `handle_append_entries` the deliveries; `process_pre_vote_response`,
  `process_vote_response`, `PrepareReplication`, `process_replication_response`
  resume an awaiting task; `FinishPreVote` and `FinishElection` are the checks
  after the response loops, which decide only without peers; `propose` is
  `LogicalNode::propose`; `Restart`, `CrashInVote`, `CrashInAppend` are crashes
  between handlers, between the term and the vote of a vote handler, and
  between the truncation, the append and the commit index of `reconcile_log`.
* A log entry is its term; index and term identify a command.
* Timers are nondeterministic, and no order between a timer and a call is
  assumed: vote and pre-vote calls have only the request timeout of the channel,
  which does not bound connection establishment (`E/consensus/replication.rs:585`),
  and append calls wait four times `rpc_timeout`, so a call may outlive the next
  election timer. A call that timed out is one whose response is lost, which may
  happen at any moment. Up to `MaxPreVotes` pre-vote campaigns of a node therefore
  run together, a campaign may decide when its node is a candidate or leader
  already, and a leader may send vote requests of the candidacy it has won.
* Loss is decided when a message is sent (a subset of the peers is reached) or
  answered (no reply arrives); messages are a set, so any order is possible.
* `update_leader_last_committed` sorts the match indices and takes the median;
  `IsSortedMedian` says what that median is without sorting.
* Not included: storage errors (they halt the node), compaction and
  InstallSnapshot (the log starts at 1).

### RaftCatchUp

Starts at the election of `Lead` in term 3, in states the protocol can reach:
peers' logs are short, empty or longer, a quorum voted for `Lead` and a quorum
agreed with the leader of term 2. From there only the leader's heartbeat and its
tasks act.

Fairness, and why the code justifies it: the tick loop never stops, and
`rpc_timeout` ends every attempt, so rounds to each peer recur (strong fairness
of a round that reaches the peer's task, since other rounds may fill the bound);
a spawned task that has its data gets the lock (weak fairness); a request that is
sent again and again, and its response, get through in the end (strong fairness).

### RaftSolo

`Raft` with one node, weak fairness of the tick loop, which never stops, and of
the two tasks it spawns.

### ReplicatedLog and RaftContract

`ReplicatedLog` is what the rest of the system may rely on: a sequence `chosen`
that only grows, and per node a prefix `learned` that only grows. `RaftContract`
maps `learned` to each node's committed prefix and `chosen` to the longest of
them. `Ledger` states the same contract of its own, coarser consensus
(`ReliesOnContract`), so what the gateways are checked against is what the
detailed model provides.

### Applier

One node. Tasks are the background applier, compaction tasks, installations and
serialisations; each has a program counter, the index it works for and the loop
variables of its `apply_committed`. An action is what a task does under one lock
acquisition, or one durable step of unlocked I/O. Entries are indices, since
`Raft` shows that what is committed at an index does not change.

* `Broadcast` is `MutationGuard::drop`: the applier gets a signal when the
  progress the guard compares has changed. The freeze depth is not part of it.
* `AppendEntries`, `AdvanceCommitted`, `ChangeRole` and the snapshots that
  `AcceptSnapshot` receives are the environment: consensus may do any of them at
  any moment within the bounds.
* `ClearState` .. `FinalizeInstall` are the phases of `handle_install_snapshot`
  with the tombstone protocol of `LactoStore::install_snapshot`;
  `CrashInFinalize` is the crash between the two writes of phase 3.
* `Boot` is `LactoStore::new`, `RecoveryManager::recover` and
  `LogicalNode::try_new`; a panic or an error there is status `Refused`.
* Simplifications: a poisoned node stops at once (unlocked I/O that may still
  finish after the panic is left out); stopping a poisoned process counts as a
  crash; truncation of an uncommitted suffix is left to `Raft`.

### LactoStore, Consensus, Gateway, Client, Ledger

A mutation is a record of client, sequence number, outcome, key, absolute
quantity and event time. `LactoStore` translates `apply` with its order of checks:
poison, index monotonicity, duplicate, gap, transaction.

`Consensus` keeps per node a log, a commit index and the term it leads in. A new
leader has everything chosen (what `LeaderCompleteness` shows of `Raft`); a
deposed leader may go on believing until it hears of the new term, and may still
count acknowledgements of what its quorum stored. `InstallSnapshot` restores
contents newer than the label, which `SnapshotCoversLabel` of `Applier` allows.
`chosen`, `term` and `covered` are history.

In `Gateway` every request occupies a slot and is a handler at one of its awaits:
`sent`, `queued` (for the mutation lock), `evaluating`, `awaiting` (the commit),
or `probing`, `fencing`, `reading`. Answers are reduced to the classes that
`execute_with_retry` tells apart: an outcome, `Rejected` with or without a hint,
`Transient`, `Invalid`. The oracle's verdict is nondeterministic; what it can be
is `Policy`. A probe's acknowledgements travel as a quorum's and carry no epoch,
like the code's: `acks_in_flight` may date from before the epoch.

In `Client` the position `point` is where the process would be after a crash:
before the sequence number is saved, between it and the WAL append (`assigned`),
about to send, waiting. `Fail` ends a command, and during recovery the process.

`Ledger` connects them. A client that times out or crashes leaves its mutation
handler running (`live = FALSE`), which may be dropped at any moment from then
on. All intents are about one item; an `add` is one unit more than what the
evaluation saw, so a lost addition is visible.

### Units and Policy

Quantities count ten-thousandths, the precision the code rounds to, and
multipliers hundred-thousandths. A `Decimal` of the library is a mantissa of 96 bits
and a scale that floats: a result that is too long loses places (`Kept`), and only
one without places to lose is an error, for which the operator has no result. The
library's source is not part of the repository, so `Kept` allows either neighbour,
and `round_dp` either direction within a twentieth of the middle, which covers the
even neighbour of ties and the library's own rounding before that of the code.
`DecimalMax` is the largest mantissa. Numbers are typed with at most four places.
The division for display is a long division by factors of two and five, whose
intermediate values stay within what TLC can compute. The registry has the code's
multipliers, one spelling per unit.

`Policy` runs one command at a time through parser, scrubber, up to
`veto_max_retries + 1` attempts at the oracle, validation of what the language
model said, and stabilizer. `Lines` and `Answers` are inputs: the instance has
sound ones and one for every check that can refuse. Texts are sequences of words
and separators, so slugs and suffixes are computed and not assumed. A veto is a log
entry like any other; that it is not carried out is `carried_out`. `typed` is
history: what was typed for each item, and in how many commands, while all of it is
in one unit of the registry and the amounts keep four places.

### Deployment

Start-up in the code's order: configuration, databases (one process per
directory), identity, peer table, services, bind. The identity is on disk before
the bind can fail. A request carries the headers its interceptor injects and meets
whoever listens at its address when it arrives. Client requests go to the ingress
service, which checks the cluster only.

## 3. The runs

| Run | Checks | Shows |
|---|---|---|
| `raft_election` | `TypeOK`, `ElectionSafety`, `LeaderHintIsElected`, `LeadersHaveQuorum` | two rivals, two terms, overlapping pre-vote campaigns, late and lost votes, a delayed step-down |
| `raft_crash` | `StateMachineSafety`, `CommittedPrefixStable`, `ImplementsReplicatedLog` | one entry, two terms, overtaking requests, one crash anywhere |
| `raft_logs` | `LogMatching`, `LeaderCompleteness`, `ImplementsReplicatedLog` | four terms and logs of two entries: diverging suffixes, and an old-term entry on a majority that is overwritten |
| `raft_late_response` | `NoNodeHalts` violated | a late response halts a healthy node |
| `catch_up` | `PeersCatchUp` | peers with missing or extra entries end with the leader's log, committed |
| `catch_up_diverged` | `PeersCatchUp` violated | a peer with a conflicting last entry rejects forever |
| `solo` | `SoloElects` | a single node keeps electing itself through timeouts and crashes |
| `applier` | `TypeOK`, `UnappliedEntriesInLog`, `SnapshotCoversLabel`, `SnapshotIsPointInTime` | compaction, two installations, serialisation, applying and one crash interleaved |
| `exactly_once` | `TypeOK`, `NoStorePoisons`, `StoresFollowTheLog`, `OneIntentPerSequence`, `ToldIsRecorded`, `VerifiedQueryIsAuthoritative`, `FencedQuerySeesVersion`, `SessionsAdvance`, `ReliesOnContract` | retries, surviving handlers, a client crash, snapshots newer than their label; changes of leader, with contending clients there and back |
| `lost_update` | `NoLostUpdate` violated | an evaluation between commit and apply of the one before |
| `policy` | `TypeOK`, `DisplayFollowsCommands`, `AnomalousUnitsNeverMix` | commands and answers of every kind in sequences of three, within and beyond what a decimal holds |
| `deployment` | `TypeOK`, `RequestsReachTheirData`, `HeartbeatsPrecedeElections` | nodes of two clusters moved between directories and addresses; timings around every limit |

### The disagreements between code and documentation that a run shows

1. `process_vote_response` and `process_replication_response` compare a response
   with the term their task was started with and demote to the response's term.
   If the node has moved beyond that term meanwhile, the demotion is a term
   regression, which is fatal (`raft_late_response`). The comparison should be
   with the current term.
2. The back-off after a rejection is `min(next, last_log_index + 1)`. When the
   peer rejects because of a conflicting term, its log is long enough and
   `next_index` stays where it is: the same request is rejected forever
   (`catch_up_diverged`).
3. The mutation lock is released at the commit, and the next evaluation reads the
   applied inventory. Mutations carry absolute quantities, so an addition computed
   from an inventory that lacks the previous one overwrites it (`lost_update`).
   ADR 007 says the oracle always has an up-to-date view.

### Disagreements met while modelling that no run is spent on

* `TickAction::StepDown` locks a second time and demotes whatever it finds
  (`E/consensus/lifecycle.rs:203`), although the comment at `:41` says the double
  acquisition was eliminated. `StepDown` models it; election safety holds with it.
* A cluster of one elects itself and never commits: the commit index is advanced
  only when a peer answers (`E/consensus/replication.rs:289`), while
  `E/config.rs:344` accepts an empty peer list. Its ReadIndex probe is never
  confirmed either.
* A crash during a restoration leaves a node that cannot boot: the state machine
  is wiped (`lacto-fsm/src/lib.rs:117`), the log store keeps a commit index whose
  entries are gone, and recovery panics. ADR 011:59 says the node starts empty.
* The applier drops its wake-up while frozen (`lifecycle.rs:266`) and the thaw
  after a serialisation broadcasts nothing, against the comment at `:264`.
* ADR 003:71 and :109 say at least three heartbeats can be lost before a follower
  times out. The third is due at the earliest timeout already in milliseconds, and
  the timeout fires at equality (`follower.rs:94`); rounding takes up to two ticks
  more. With tick 10, heartbeat 11 and minimum 33 the thresholds are 2 and 4, and
  the heartbeat after a single lost one is due at the tick of the timeout.
  `HeartbeatsPrecedeElections` states what does hold.
* `await_commit` compares indices only (`E/service/handle.rs:143`); a node that
  loses and regains leadership between two looks may report an entry that replaced
  the proposal's. The bounds of `exactly_once` include it, and TLC finds
  `ToldIsRecorded` violated when the outcomes told by such a handler (`regained`)
  are not left out; `OutcomesAreRecorded` shows that nothing else can go wrong
  between an outcome and the history.
* `handle_install_snapshot` accepts every snapshot above `last_applied`, also while
  another installation runs (`E/node/engine.rs:396`), and the blocking tasks restore
  in the order they get `fsm_lock`: an older snapshot may overwrite a newer one,
  after which committed entries are neither applied nor in the log. The run has two
  installers; `clashed` marks the behaviours in which that happened.
* A repeated sequence that is evaluated again may be told the second verdict,
  while the first is what the session records.
* Acknowledgements sent before a probe confirm it, so a deposed leader may serve
  one stale read; `VerifiedQueryIsAuthoritative` is therefore about probes with no
  late acknowledgement under way. A query without a version does not wait for the
  applier at all.
* The items of a query and the version reported with them are two reads
  (`dispatcher.rs:321`, `:349`).
* A command that ends in an error leaves its intent in the WAL, and the session
  goes on with the next number. If the first was committed after all and the
  second commits too, the first is stale for the firewall: recovery fails at it
  (`client-cli/src/main.rs:131`) and the client exits at every start, against the
  comment at `:90`.
* The REPL does not look at its arguments: `add milk abc` consumes a sequence
  number and is refused as `InvalidArgument`, and every later sequence is then a
  gap. A crash between the number and the WAL append
  (`client-cli/src/client.rs:207`) has the same effect, and the state file is
  written in place (`state.rs:208`).
* `sub` of an absent item creates it with the quantity subtracted
  (`stabilizer.rs:205`); `DisplayFollowsCommands` leaves that case out.
* Amounts whose mantissa would exceed 96 bits lose decimal places without an error
  (`units.rs:134`, `:356`): an addition that is too small beside them is dropped.
  `DisplayFollowsCommands` is about amounts that keep four places.

### Bounds

Three nodes are the smallest cluster with a quorum that is not everybody; in
`Raft` runs they are interchangeable (symmetry; not in the liveness runs).
`MaxTerm`, `MaxLog`, `MaxInFlight`, `MaxRivals`, `MaxStepDowns`, `MaxRestarts`
and `MaxPreVotes` bound the guards of the actions that would increase them.

* `raft_election` (terms 2, no entries, 2 in flight, 2 rivals, 1 step-down, 2
  pre-vote campaigns): two candidates of one term with one request or response
  each, a second term to be overtaken by, and a pre-vote campaign that decides
  after the next one has. Two campaigns of one node await answers one after the
  other; the proofs have no such bound. Entries are left out: votes depend on the log only through a
  comparison `raft_logs` exercises.
* `raft_crash` (terms 2, 1 entry, 2 in flight, 1 crash): commit, a change of
  leader, and a late request of the old leader.
* `raft_logs` (terms 4, 2 entries, 1 in flight): the shortest histories in which
  an old-term entry on a majority is overwritten need four terms; they need no
  overtaking messages, so one in flight is enough.
* `solo` (terms 5, 2 crashes): several restarts of the whole campaign.
* `applier` (3 indices, threshold 0, two installers, one task of each other kind,
  one crash): a compaction and each installation can start twice around the others,
  an older snapshot can be restored after a newer one, and the crash can find one
  installation recorded and another half restored. The last two are what `clashed`
  stands for; leaving either out of it gives a counterexample. The view leaves out
  the locals a task overwrites before it reads them.
* `exactly_once` (two nodes, two clients, two slots, two sequence numbers, three
  leaderships) has two budgets, chosen in the initial state. `alone`: one client
  does everything it can, with `Effort` up to 3 (requests, client crashes and
  further leaders together: first attempt, fault, second attempt) and one change of
  leader, so an intent can be proposed twice, by a handler that outlived its client
  and by the retry at the other node; the first request is not a delete, and only
  the first mutation may be malformed; one node's clock is ahead. `contended`: two
  clients add one item each and wait while the leadership goes from one node to the
  other and back and the appliers lag, so that an entry of the second client can
  replace the proposal of the first at its index. `MCLedger` is the place of the
  budgets; the proofs have none.
* `lost_update` (one node, two clients, no crash, no change of leader): the smallest
  instance that shows the disagreement.
* `policy` (`MaxRequests` = 3, one retry, `DecimalMax` = 10 000): create, change and
  change again, with every unit dimension. So small a mantissa brings all the
  regimes within reach: fractions of a pound keep their four places, whole grams
  and pounds lose some of them, and repeated gallons overflow.
* `deployment` (two directories, two addresses, two clusters of two nodes,
  `MaxStarts` = 3, `MaxRequests` = 2): start, stop and start another in its place
  while a request of each kind is on its way. Intervals lie on both sides of every
  rule of `RaftConfig::validate`.

Deadlock is checked in the catch-up runs. Elsewhere the bounds themselves end
behaviours: no election starts beyond `MaxTerm` or `MaxElections`, no request
beyond `MaxEffort` or `MaxRequests`, and a node that is `Refused` or out of
restarts stays so. The liveness properties are `PeersCatchUp` and `SoloElects`;
the other runs assume no fairness.

## 4. The proofs

### Raft

Proved for every finite cluster and every value of the bounds, from
`NodeAssumption` (a finite, nonempty membership that does not contain `None`)
and `BoundAssumption` (the bounds are naturals):

* `TypeCorrect` (`RaftProofs`): `Spec => []TypeOK`. `TypeOK` is inductive. The
  work is in the operators: what `TruncateConflicts` and `Reconciled` do to
  sequences, that index arithmetic stays in the naturals (the back-off subtracts
  one), and that orphaned RPC records stay well formed.
* `ElectionSafe` (`RaftElectionProofs`): `Spec => []ElectionSafety`.
  `ElectionSafety` speaks of `elected` alone and says nothing about why a second
  winner is impossible. The inductive invariant `VotingInv` ties the winners to
  votes: a vote is never above the voter's persisted term and equals its
  persisted vote in that term (`BallotsPersisted`), hence one vote per voter and
  term (`OneBallotPerTerm`); a granted response in flight stands for a vote cast
  (`GrantsAreBallots`), so does every vote a candidate tallied
  (`VotesAreOfTheCampaign`), and every leader ever elected had a quorum of them
  (`LeadersHaveQuorum`). Two quorums intersect (`QuorumsIntersect`), and the
  common voter voted once. Crashes between the term and the vote, restarted
  candidacies and the delayed step-down are steps of the induction.
* `HintsNameElectedLeaders`: `Spec => []LeaderHintIsElected`, with
  `SpeaksAsElected`: whoever leads, prepares a round or has an AppendEntries on
  the way won the term it names. A request may be built long after the round
  captured its term, so the invariant is about the round, not about the role the
  node has by then.
* `WinsAreByQuorum`: `Spec => []LeadersHaveQuorum`, a part of `VotingInv`. A node
  may have campaigns of several pre-votes and terms behind it whose calls are still
  out; what elects it are votes of its current term only.
* `LogsMatch` (`RaftLogProofs`): `Spec => []LogMatching`. The inductive invariant
  `LineageInv` traces every entry of every log, and of every AppendEntries in
  flight, to `leader_log`, the log of the leader that wrote it, with everything
  before it. One thing is peculiar to this code: a round is prepared after a
  second lock acquisition, so a request may carry the term the round captured and
  entries of a later term its sender has won since. Such a request gives its
  receiver entries of a term the receiver has not reached. `FutureBlocked` shows
  why this is harmless: a node that holds them cannot win an election before
  that term, because a quorum is already past it and did not vote. A pre-vote
  campaign that decides late may make a leader send vote requests of its own term;
  the invariant has them as a case of their own (`FromSittingLeader`).
* `LeadersComplete`, `StateMachinesAgree`, `CommitsStay` (`RaftCommitProofs`):
  `LeaderCompleteness` and `StateMachineSafety` always hold, and no step takes
  back what a node has committed (`CommittedPrefixStable`). `CommitInv` says of
  each entry a leader wrote in its own term that the nodes that acknowledged it
  have it, and so have all later leaders and all candidates of later terms one of
  them voted for (`SafeEntry`), unless they can no longer become a quorum
  (`Lapsed`). Once they are a quorum the second case is impossible. Commit
  indices on nodes, in captured rounds and in requests lie behind such entries
  (`CommitBacked`, `RoundsBacked`, `RequestsBacked`).
* `RaftImplementsReplicatedLog` (`RaftCommitProofs`): `Spec =>
  ImplementsReplicatedLog`. The abstract `chosen` is the committed prefix of the
  node furthest ahead; committed prefixes nest (`PrefixesNest`), so a step that
  commits extends it or catches up with it, and every other step stutters.

### Applier

From `TaskAssumption` (finitely many tasks, of disjoint kinds) and
`IndexAssumption`:

* `FreezesBalance`: `Spec => []TypeOK`, and `SnapshotsArePointsInTime`: `Spec =>
  SnapshotIsPointInTime`, for any number of tasks of each kind. `TaskInv`: the
  holder of `fsm_lock` is the one task inside its critical section, and the
  freeze depth is the number of tasks between their freeze and their thaw, so no
  thaw underflows.
* `NoEntryIsLost`: `Spec => []UnappliedEntriesInLog`, and
  `SnapshotsCoverTheirLabel`: `Spec => []SnapshotCoversLabel`, for any number of
  tasks of each kind, installers included. Both properties speak of behaviours in
  which installations have not clashed (`clashed`: an older snapshot restored after
  a newer one, or a crash with one installation recorded and another half
  restored); installations that overlap otherwise are covered. The inductive
  invariant is `OrderedInv == TaskInv /\ (~clashed => ApplierInv)`. `ApplierInv`
  adds what the tasks know while they work: a compaction removes only what was
  applied when it started, and started before any snapshot was accepted, since it
  needs a freeze depth of zero; a snapshot accepted since is ahead of it, and of
  every label read; of several installations the newest restored decides what the
  state machine holds; the log goes on after the snapshot. `DiskInv` is what
  a crash leaves: a log that continues after the commit index, or, when the crash
  came between the two writes that finish an installation, a state machine ahead
  of the commit index, which recovery refuses.

### Ledger

From `LedgerAssumption` (clocks and `MaxSequence` are naturals) and
`RetriesAssumption`, for any nodes, clients, intents and slots, and without
regard to the bounds on effort, elections and log length:

* `TypeCorrect` (`[]TypeOK`), `StoresAreNeverPoisoned` (`[]NoStorePoisons`),
  `StoresAreReplays` (`[]StoresFollowTheLog`), `OneCommandPerSequence`
  (`[]OneIntentPerSequence`), `VerifiedLeadersAreNewest`
  (`[]VerifiedQueryIsAuthoritative`), `FencedQueriesSeeTheirVersion`
  (`[]FencedQuerySeesVersion`), `SessionsOnlyAdvance` (`SessionsAdvance`) and
  `LedgerReliesOnContract` (`ReliesOnContract`), all from one inductive invariant,
  `LedgerInv` (theorem `LedgerInvariant`). TLC has checked its parts on the
  instance of `exactly_once`.
* Replicas (`LeaderInv`, `ChoiceInv`, `ProgressInv`): one node leads in a term,
  what a node has committed is a prefix of `chosen`, and the newest leader has all
  of it; a store has applied no more than it covers.
* No gap (`OrderInv`, `SessionInv`): the firewall admits number q when the store of
  its node has recorded q - 1, and what a store records is chosen. So nothing is
  queued, in a log or chosen before its predecessor is chosen; and since a store
  records the highest number of each client in the prefix it covers, the next
  entry is a repetition or the next number. That the store lags and that the lock
  is taken later only makes repetitions more likely.
* `StoresFollowTheLog` needs what `Replay` computes. It is a recursive function,
  and the lemmas about its runs use the least number at which two of them
  differ, so no induction theorem is needed. A store restored from a snapshot
  newer than its label meets the entries in between again; `SessionInv` makes each
  of them a repetition, which changes nothing but the label.
* One intent (`IntentInv`): whatever carries a client's number (request, WAL,
  handler, log entry, chosen entry) carries a number at most `saved`, and the same
  command. `next_sequence_id` saves the number before anything else sees it.
* Queries: `FenceInv`, and `ProbeInv` with `Hangs`: a quiet probe of a leader
  that is no longer the newest waits for an epoch that no acknowledgement
  confirms; the epoch can be forgotten only with the leadership, and the node
  leads in another term afterwards.
* `OutcomesAreRecorded`: `Spec => []ToldIsRecorded`. A client is told an outcome in
  two ways, and each is traced to a chosen entry (`OutcomeInv`). A repetition is
  answered from the session table, which `SessionInv` ties to what is chosen. A
  proposal is answered when the leader's commit index reaches its index; as long as
  the node leads in the term it proposed in, its log only grows (`LeaderLogGrows`),
  so the entry there is still the handler's (`AwaitInv`), and it carries the number
  its client waits for (`RequestInv`), since the client's request does not change
  while a handler can answer it. A handler that finds its node leading in another
  term than it proposed in (`Outlived`) has no such guarantee: what it tells is in
  `regained`, which the property leaves out. In the code such a handler returns an
  error at its first look after the demotion; it tells an outcome only when it is
  not run until the node has won another election, which nothing forbids.

The attempt to prove `SessionsAdvance` for every step showed that it is false with
three nodes: a follower restored from a snapshot newer than its label can be
restored again, with a higher label and older contents, by a new leader that has
applied less. The property is therefore about steps in which a store covers no
less than before.

### Deployment

From `ConfigAssumption` (the timings are naturals, and the identity of an
unlabelled directory is not one a configuration can have): `IdentitiesStick`
(`[]TypeOK`), `RequestsAreForTheData` (`[]RequestsReachTheirData`) and
`TimeoutsOutlastHeartbeats` (`[]HeartbeatsPrecedeElections`) for any
directories, addresses, clusters and configurations; the last by arithmetic on
the rounded quotients of `to_ticks`: a timeout of three intervals is at least
three rounded intervals less two ticks, and at least three ticks.

### Policy

From `DecimalAssumption` (a mantissa of at least four digits),
`RetriesAssumption` (a natural) and `NumberAssumption` (what the table of numerals
yields are integers), for every set of command lines and of answers of the language
model, any number of retries and any such `DecimalMax`:

* `InventoryIsWellFormed` (`[]TypeOK`), from the inductive invariant `PolicyInv`
  (theorem `PolicyInvariant`): an item is a non-negative decimal amount in
  the base unit of the unit it was last given in, its key is canonical, and the
  key of an item in an anomalous unit ends with that unit; while an evaluation
  runs, the intent it works on has passed the scrubber.
* `HandfulsAreNotBunches` (`AnomalousUnitsNeverMix`): two anomalous units under
  one key would both end it, and no key ends with two of them
  (`OneAnomalousUnit`).
* `DisplaysFollow` (`[]DisplayFollowsCommands`), for every quantity and unit and not
  only the ones of the instance, as long as amounts keep four places. `TotalInv`
  says that what an item holds is within one rounding per command of the total
  that was typed (`Near`), exactly so for a multiplier without a fraction. A result
  well below the limit was not rounded by it (`KeptIs`). Converting to the base
  unit and dividing back each err by at most eleven twentieths of the last place
  (`ConvertNear`, `QuotientNear`; the latter from what each step of the long
  division keeps, `ShiftIs`), and one more command adds one more rounding
  (`OneMore`). A rounding in the base unit is smaller in the unit shown by its
  multiplier, so as long as the commands are at most four fifths of it, everything
  together stays below one place, and the amount shown is the total (`ShowsTotal`).
  That a veto leaves no trace is `StepsCommit`: the inventory and the count of what
  was typed change together or not at all.

### Only model-checked

* Liveness (`PeersCatchUp`, `SoloElects`): fairness and `ENABLED` are out of the
  prover's reach.
Every other property of a passing run is a theorem.

No module here declares a recursive operator.

## 5. Not modelled, and the plan

Not modelled:

* Snapshot transfer between nodes with messages: `determine_replication_strategy`,
  permits, the downgrade to a heartbeat, InstallSnapshot responses. `Raft` starts
  its log at 1; adding a compacted front to it multiplies a state space that is at
  its limit, and what the transfer does to a node is in `Applier`, to a store in
  `Consensus`.
* Storage and I/O errors: they end in the Halt Mandate, which `apply_fatal` models
  for the errors of the protocol.
* Prompts and the decoding of the language model's JSON, transports, channel
  reuse, logging, terminal output, signal handling, and the test double mock-veto:
  they keep no state the properties depend on.

Open: the liveness of the applier and of the gateway is unstated, because a dropped
wake-up and a probe without peers (see above) would refute the obvious
formulations.

## 6. Running

In this directory:

    tlc -config MCRaftElection.cfg MCRaft        # likewise for every .cfg
    tlc -config MCApplier.cfg MCApplier
    tlc -config MCLedger.cfg MCLedger
    tlc -config RaftSolo.cfg RaftSolo
    tlapm RaftElectionProofs.tla                 # likewise for every *Proofs.tla
