----------------------------- MODULE RaftProofs -----------------------------
(***************************************************************************)
(* Proofs about Raft: what its helpers return, and type correctness.       *)
(***************************************************************************)
EXTENDS Raft, FiniteSetTheorems, SequenceTheorems, WellFoundedInduction, TLAPS

-----------------------------------------------------------------------------
(* Helpers of the model *)

\* A nonempty set of naturals has the minimum that Min chooses.
LEMMA MinOfNats ==
    ASSUME NEW S \in SUBSET Nat, S # {}
    PROVE  Min(S) \in S /\ \A y \in S : Min(S) <= y
<1> DEFINE R == {ss \in Nat \X Nat : ss[1] < ss[2]}
<1>1. IsWellFoundedOn(R, Nat)
  BY NatLessThanWellFounded, Zenon DEF OpToRel
<1> HIDE DEF R
<1>2. PICK x \in S : \A y \in S : ~ (<<y, x>> \in R)
  BY <1>1, WFMin
<1>3. \A y \in S : x <= y
  <2> SUFFICES ASSUME NEW y \in S, ~ (x <= y) PROVE FALSE
    OBVIOUS
  <2>1. x \in Nat /\ y \in Nat /\ y < x
    OBVIOUS
  <2>2. <<y, x>> \in R
    BY <2>1 DEF R
  <2> QED
    BY <1>2, <2>2
<1> QED
  BY <1>3 DEF Min

\* The smaller of two naturals.
LEMMA MinOfTwo ==
    ASSUME NEW a \in Nat, NEW b \in Nat
    PROVE  /\ Min({a, b}) \in {a, b}
           /\ Min({a, b}) <= a
           /\ Min({a, b}) <= b
<1>1. {a, b} \in SUBSET Nat /\ {a, b} # {}
  OBVIOUS
<1> QED
  BY <1>1, MinOfNats

\* The larger of two naturals.
LEMMA MaxOfTwo ==
    ASSUME NEW a \in Nat, NEW b \in Nat
    PROVE  /\ Max({a, b}) \in {a, b}
           /\ Max({a, b}) >= a
           /\ Max({a, b}) >= b
<1>1. \E x \in {a, b} : \A y \in {a, b} : x >= y
  <2>1. CASE a >= b
    BY <2>1
  <2>2. CASE b >= a
    BY <2>2
  <2> QED
    BY <2>1, <2>2
<1> QED
  BY <1>1 DEF Max

\* Truncating at a conflict keeps a log, and keeps it at least up to prev.
LEMMA TruncateType ==
    ASSUME NEW lg \in Seq(Nat), NEW prev \in Nat, NEW entries \in Seq(Nat),
           prev <= Len(lg)
    PROVE  /\ TruncateConflicts(lg, prev, entries) \in Seq(Nat)
           /\ Len(TruncateConflicts(lg, prev, entries)) \in prev..Len(lg)
<1> DEFINE clash == {i \in (prev + 1)..(prev + Len(entries)) :
                       get_term_at(lg, i) \notin {0, entries[i - prev]}}
<1>1. CASE clash = {}
  BY <1>1, LenProperties DEF TruncateConflicts
<1>2. CASE clash # {}
  <2>1. clash \in SUBSET Nat
    OBVIOUS
  <2>2. Min(clash) \in clash
    BY <1>2, <2>1, MinOfNats
  <2>3. Min(clash) \in Nat /\ Min(clash) > prev /\ Min(clash) <= Len(lg)
    BY <2>2 DEF get_term_at
  <2>4. \A i \in 1..(Min(clash) - 1) : lg[i] \in Nat
    BY <2>3
  <2>5. /\ SubSeq(lg, 1, Min(clash) - 1) \in Seq(Nat)
        /\ Len(SubSeq(lg, 1, Min(clash) - 1)) = Min(clash) - 1
    BY <2>3, <2>4, SubSeqProperties
  <2>6. TruncateConflicts(lg, prev, entries) = SubSeq(lg, 1, Min(clash) - 1)
    BY <1>2 DEF TruncateConflicts
  <2> QED
    BY <2>3, <2>5, <2>6
<1> QED
  BY <1>1, <1>2

\* Reconciliation yields a log.
LEMMA ReconciledType ==
    ASSUME NEW lg \in Seq(Nat), NEW prev \in Nat, NEW entries \in Seq(Nat),
           prev <= Len(lg)
    PROVE  Reconciled(lg, prev, entries) \in Seq(Nat)
<1> DEFINE kept == TruncateConflicts(lg, prev, entries)
           rest == SubSeq(entries, Len(kept) - prev + 1, Len(entries))
<1>1. kept \in Seq(Nat) /\ Len(kept) \in Nat /\ Len(kept) >= prev
  BY TruncateType
<1> HIDE DEF kept
<1>2. \A i \in (Len(kept) - prev + 1)..Len(entries) : entries[i] \in Nat
  BY <1>1
<1>3. rest \in Seq(Nat)
  BY <1>1, <1>2, SubSeqProperties
<1>4. kept \o rest \in Seq(Nat)
  BY <1>1, <1>3, ConcatProperties
<1> QED
  BY <1>4 DEF Reconciled, kept

\* The term at an index, and the term of the last entry.
LEMMA TermType ==
    ASSUME NEW lg \in Seq(Nat), NEW i \in Int
    PROVE  get_term_at(lg, i) \in Nat /\ last_log_term(lg) \in Nat
<1>1. lg # <<>> => Len(lg) \in 1..Len(lg)
  BY EmptySeq
<1> QED
  BY <1>1 DEF get_term_at, last_log_term

\* Abandoning calls leaves well-formed RPCs.
LEMMA OrphanType ==
    ASSUME rpcs \in SUBSET Rpc, NEW gone \in SUBSET rpcs
    PROVE  Orphan(gone) \in SUBSET Rpc
<1> SUFFICES ASSUME NEW m \in gone, m.type \in {"RequestVoteRequest", "AppendEntriesRequest"}
             PROVE  [m EXCEPT !.awaited = FALSE] \in Rpc
  BY DEF Orphan
<1>1. CASE m \in RequestVoteRequest
  BY <1>1 DEF RequestVoteRequest, Rpc
<1>2. CASE m \in AppendEntriesRequest
  BY <1>2 DEF AppendEntriesRequest, Rpc
<1>3. m \in RequestVoteRequest \/ m \in AppendEntriesRequest
  BY DEF Rpc, PreVoteRequest, PreVoteResponse, RequestVoteResponse,
         ReplicationRound, AppendEntriesResponse
<1> QED
  BY <1>1, <1>2, <1>3

\* So does a crash.
LEMMA AbandonedType ==
    ASSUME rpcs \in SUBSET Rpc, NEW n
    PROVE  Abandoned(n) \in SUBSET Rpc
<1>1. AwaitedBy(n) \in SUBSET rpcs
  BY DEF AwaitedBy
<1> QED
  BY <1>1, OrphanType DEF Abandoned

-----------------------------------------------------------------------------
(* Type correctness *)

\* The node that sent, or is to handle, an RPC in flight.
LEMMA RpcEnds ==
    ASSUME rpcs \in SUBSET Rpc, NEW m \in rpcs
    PROVE  m.src \in Node /\ m.dst \in Node /\ m.term \in Nat
BY DEF Rpc, PreVoteRequest, PreVoteResponse, RequestVoteRequest, RequestVoteResponse,
       ReplicationRound, AppendEntriesRequest, AppendEntriesResponse

\* An RPC of a given type has that type's fields.
LEMMA RpcKinds ==
    ASSUME rpcs \in SUBSET Rpc, NEW m \in rpcs
    PROVE  /\ m.type = "PreVoteRequest" => m \in PreVoteRequest
           /\ m.type = "PreVoteResponse" => m \in PreVoteResponse
           /\ m.type = "RequestVoteRequest" => m \in RequestVoteRequest
           /\ m.type = "RequestVoteResponse" => m \in RequestVoteResponse
           /\ m.type = "ReplicationRound" => m \in ReplicationRound
           /\ m.type = "AppendEntriesRequest" => m \in AppendEntriesRequest
           /\ m.type = "AppendEntriesResponse" => m \in AppendEntriesResponse
BY DEF Rpc, PreVoteRequest, PreVoteResponse, RequestVoteRequest, RequestVoteResponse,
       ReplicationRound, AppendEntriesRequest, AppendEntriesResponse

\* The role transitions preserve the types of what they assign.
LEMMA RoleTypes ==
    ASSUME TypeOK, NEW n \in Node, NEW l \in Node \cup {None}
    PROVE  /\ FollowerState(n, l) =>
                /\ role' \in [Node -> Roles]
                /\ leader_id' \in [Node -> Node \cup {None}]
                /\ votes_received' \in [Node -> SUBSET Node]
                /\ next_index' \in [Node -> [Node -> Nat \ {0}]]
                /\ match_index' \in [Node -> [Node -> Nat]]
           /\ apply_fatal(n) =>
                /\ role' \in [Node -> Roles]
                /\ leader_id' \in [Node -> Node \cup {None}]
                /\ votes_received' \in [Node -> SUBSET Node]
                /\ next_index' \in [Node -> [Node -> Nat \ {0}]]
                /\ match_index' \in [Node -> [Node -> Nat]]
<1>1. ASSUME DropRoleFields(n)
      PROVE  /\ votes_received' \in [Node -> SUBSET Node]
             /\ next_index' \in [Node -> [Node -> Nat \ {0}]]
             /\ match_index' \in [Node -> [Node -> Nat]]
  <2>1. [p \in Node |-> 1] \in [Node -> Nat \ {0}] /\ [p \in Node |-> 0] \in [Node -> Nat]
    OBVIOUS
  <2> QED
    BY <1>1, <2>1 DEF TypeOK, DropRoleFields
<1>2. ASSUME NEW r \in Roles, role' = [role EXCEPT ![n] = r]
      PROVE  role' \in [Node -> Roles]
  BY <1>2 DEF TypeOK
<1>3. ASSUME NEW k \in Node \cup {None}, leader_id' = [leader_id EXCEPT ![n] = k]
      PROVE  leader_id' \in [Node -> Node \cup {None}]
  BY <1>3 DEF TypeOK
<1> QED
  BY <1>1, <1>2, <1>3 DEF FollowerState, apply_fatal, Roles

\* The part of the state that the role transitions assign.
RoleOK ==
    /\ current_term \in [Node -> Nat]
    /\ voted_for \in [Node -> Node \cup {None}]
    /\ role \in [Node -> Roles]
    /\ leader_id \in [Node -> Node \cup {None}]
    /\ votes_received \in [Node -> SUBSET Node]
    /\ next_index \in [Node -> [Node -> Nat \ {0}]]
    /\ match_index \in [Node -> [Node -> Nat]]

\* The part of the history that into_leader assigns.
ElectedOK ==
    /\ elected \in SUBSET (Nat \X Node)
    /\ leader_log \in [DOMAIN leader_log -> Seq(Nat)] /\ DOMAIN leader_log \subseteq Nat

\* into_follower, into_candidate and into_leader preserve them.
LEMMA TransitionTypes ==
    ASSUME TypeOK, NEW n \in Node
    PROVE  /\ \A t \in Nat, l \in Node \cup {None} : into_follower(n, t, l) => RoleOK'
           /\ into_candidate(n) => RoleOK' /\ ballots' \in SUBSET (Node \X Nat \X Node)
           /\ into_leader(n) => RoleOK' /\ ElectedOK'
<1>1. ASSUME NEW t \in Nat, NEW l \in Node \cup {None}, into_follower(n, t, l)
      PROVE  RoleOK'
  <2>1. CASE t < current_term[n] /\ apply_fatal(n)
    BY <2>1, RoleTypes DEF apply_fatal, hardState, RoleOK, TypeOK
  <2>2. CASE /\ current_term' = [current_term EXCEPT ![n] = t]
             /\ voted_for' = [voted_for EXCEPT ![n] =
                                 IF t > current_term[n] THEN None ELSE @]
             /\ FollowerState(n, l)
    <3>1. current_term' \in [Node -> Nat] /\ voted_for' \in [Node -> Node \cup {None}]
      BY <2>2 DEF TypeOK
    <3> QED
      BY <2>2, <3>1, RoleTypes DEF RoleOK
  <2> QED
    BY <1>1, <2>1, <2>2 DEF into_follower
<1>2. ASSUME into_candidate(n)
      PROVE  RoleOK' /\ ballots' \in SUBSET (Node \X Nat \X Node)
  <2>1. CASE role[n] = "Leader"
    BY <1>2, <2>1 DEF into_candidate, hardState, roleState, RoleOK, TypeOK
  <2>2. CASE role[n] # "Leader"
    <3>1. /\ current_term' = [current_term EXCEPT ![n] = @ + 1]
          /\ voted_for' = [voted_for EXCEPT ![n] = n]
          /\ ballots' = ballots \cup {<<n, current_term[n] + 1, n>>}
          /\ role' = [role EXCEPT ![n] = "Candidate"]
          /\ leader_id' = [leader_id EXCEPT ![n] = None]
          /\ votes_received' = [votes_received EXCEPT ![n] = {n}]
          /\ UNCHANGED <<next_index, match_index>>
      BY <1>2, <2>2, Zenon DEF into_candidate
    <3>2. current_term' \in [Node -> Nat] /\ voted_for' \in [Node -> Node \cup {None}]
      BY <3>1 DEF TypeOK
    <3>3. role' \in [Node -> Roles] /\ leader_id' \in [Node -> Node \cup {None}]
      BY <3>1 DEF TypeOK, Roles
    <3>4. votes_received' \in [Node -> SUBSET Node]
      BY <3>1 DEF TypeOK
    <3>5. ballots' \in SUBSET (Node \X Nat \X Node)
      <4>1. <<n, current_term[n] + 1, n>> \in Node \X Nat \X Node
        BY DEF TypeOK
      <4> QED
        BY <3>1, <4>1 DEF TypeOK
    <3> QED
      BY <3>1, <3>2, <3>3, <3>4, <3>5 DEF RoleOK, TypeOK
  <2> QED
    BY <2>1, <2>2
<1>3. ASSUME into_leader(n)
      PROVE  RoleOK' /\ ElectedOK'
  <2>1. initial_next_index(n) \in Nat \ {0}
    BY LenProperties DEF TypeOK, initial_next_index
  <2>2. RoleOK' /\ elected' \in SUBSET (Nat \X Node)
    BY <1>3, <2>1 DEF into_leader, RoleOK, TypeOK, Roles, hardState
  <2>3. log[n] \in Seq(Nat) /\ current_term[n] \in Nat
    BY DEF TypeOK
  <2>4. /\ leader_log' = [t \in DOMAIN leader_log \cup {current_term[n]} |->
                             IF t = current_term[n] THEN log[n] ELSE leader_log[t]]
        /\ \A t \in DOMAIN leader_log : t \in Nat /\ leader_log[t] \in Seq(Nat)
    BY <1>3 DEF into_leader, TypeOK
  <2> QED
    BY <2>2, <2>3, <2>4 DEF ElectedOK
<1> QED
  BY <1>1, <1>2, <1>3

\* A reply, delivered or lost, and an abandoned request keep RPCs well formed.
LEMMA ReplyType ==
    ASSUME rpcs \in SUBSET Rpc, NEW m, NEW resp \in Rpc, Reply(m, resp) \/ NoReply(m)
    PROVE  rpcs' \in SUBSET Rpc
BY DEF Reply, NoReply

\* Starting an election campaign preserves the types of what it assigns.
LEMMA CampaignTypes ==
    ASSUME TypeOK, NEW n \in Node, NEW others \in SUBSET Rpc,
           StartCampaign(n, others)
    PROVE  /\ RoleOK'
           /\ ballots' \in SUBSET (Node \X Nat \X Node)
           /\ rpcs' \in SUBSET Rpc
<1>1. RoleOK' /\ ballots' \in SUBSET (Node \X Nat \X Node)
  BY TransitionTypes DEF StartCampaign
<1>2. PICK S \in SUBSET Peers(n) :
        rpcs' = others \cup VoteRequests(n, current_term'[n], S)
  BY DEF StartCampaign
<1>3. Len(log[n]) \in Nat /\ last_log_term(log[n]) \in Nat
  <2>1. log[n] \in Seq(Nat) /\ 0 \in Int
    BY DEF TypeOK
  <2> QED
    BY <2>1, LenProperties, TermType
<1>4. VoteRequests(n, current_term'[n], S) \in SUBSET Rpc
  <2>1. current_term'[n] \in Nat /\ n \in Node /\ S \in SUBSET Node
    BY <1>1 DEF RoleOK, Peers
  <2>2. ASSUME NEW p \in S
        PROVE  [type |-> "RequestVoteRequest", src |-> n, dst |-> p,
                term |-> current_term'[n], last_index |-> Len(log[n]),
                last_term |-> last_log_term(log[n]), awaited |-> TRUE] \in Rpc
    BY <1>3, <2>1 DEF Rpc, RequestVoteRequest
  <2> QED
    BY <2>2 DEF VoteRequests
<1> QED
  BY <1>1, <1>2, <1>4

\* What the tick loop does preserves the types.
LEMMA TickTypes ==
    ASSUME TypeOK, NEW n \in Node, Tick(n)
    PROVE  TypeOK'
<1> USE DEF hardState, roleState, logState, tasks, history
<1>1. rpcs \in SUBSET Rpc
  BY DEF TypeOK
<1>2. Len(log[n]) \in Nat /\ last_log_term(log[n]) \in Nat
  <2>1. log[n] \in Seq(Nat) /\ 0 \in Int
    BY DEF TypeOK
  <2> QED
    BY <2>1, LenProperties, TermType
<1>3. ASSUME StartPreVote(n) PROVE TypeOK'
  <2>1. PICK k \in PreVotes, S \in SUBSET Peers(n) :
          /\ pre_votes_granted' = [pre_votes_granted EXCEPT ![n][k] = {n}]
          /\ rpcs' = rpcs \cup
                     {[type |-> "PreVoteRequest", src |-> n, dst |-> p,
                       pre_vote |-> k, term |-> current_term[n],
                       last_index |-> Len(log[n]),
                       last_term |-> last_log_term(log[n])] : p \in S}
    BY <1>3 DEF StartPreVote
  <2>2. \A p \in S : [type |-> "PreVoteRequest", src |-> n, dst |-> p,
                      pre_vote |-> k, term |-> current_term[n],
                      last_index |-> Len(log[n]),
                      last_term |-> last_log_term(log[n])] \in Rpc
    BY <1>2 DEF Peers, Rpc, PreVoteRequest, TypeOK
  <2>3. rpcs' \in SUBSET Rpc
    BY <1>1, <2>1, <2>2
  <2>4. role' \in [Node -> Roles] /\ leader_id' \in [Node -> Node \cup {None}]
    BY <1>3 DEF StartPreVote, TypeOK, Roles
  <2>5. pre_votes_granted' \in [Node -> [PreVotes -> SUBSET Node]]
    BY <2>1 DEF TypeOK
  <2> QED
    BY <1>3, <2>3, <2>4, <2>5 DEF StartPreVote, TypeOK
<1>4. ASSUME StartElection(n) PROVE TypeOK'
  BY <1>1, <1>4, CampaignTypes DEF StartElection, TypeOK, RoleOK
<1>5. ASSUME DecideStepDown(n) PROVE TypeOK'
  BY <1>5 DEF DecideStepDown, TypeOK
<1>6. ASSUME StepDown(n) PROVE TypeOK'
  <2>1. RoleOK'
    BY <1>6, TransitionTypes DEF StepDown, TypeOK
  <2> QED
    BY <1>6, <2>1 DEF StepDown, TypeOK, RoleOK
<1>7. ASSUME SendHeartbeat(n) PROVE TypeOK'
  <2>1. PICK S \in SUBSET Peers(n) :
          rpcs' = rpcs \cup
                  {[type |-> "ReplicationRound", src |-> n, dst |-> p,
                    term |-> current_term[n],
                    last_committed |-> last_committed[n]] : p \in S}
    BY <1>7 DEF SendHeartbeat
  <2>2. \A p \in S : [type |-> "ReplicationRound", src |-> n, dst |-> p,
                      term |-> current_term[n],
                      last_committed |-> last_committed[n]] \in Rpc
    BY DEF Peers, Rpc, ReplicationRound, TypeOK
  <2>3. rpcs' \in SUBSET Rpc
    BY <1>1, <2>1, <2>2
  <2> QED
    BY <1>7, <2>3 DEF SendHeartbeat, TypeOK
<1> QED
  BY <1>3, <1>4, <1>5, <1>6, <1>7 DEF Tick

\* reconcile_log keeps logs, commit indices and RPCs well formed.
LEMMA ReconcileTypes ==
    ASSUME TypeOK, NEW m \in rpcs, m.type = "AppendEntriesRequest",
           reconcile_log(m.dst, m)
    PROVE  /\ log' \in [Node -> Seq(Nat)]
           /\ last_committed' \in [Node -> Nat]
           /\ rpcs' \in SUBSET Rpc
<1> DEFINE n == m.dst
           new == Reconciled(log[n], m.prev_index, m.entries)
<1>1. m \in AppendEntriesRequest /\ rpcs \in SUBSET Rpc
  BY RpcKinds DEF TypeOK
<1>2. /\ n \in Node /\ m.src \in Node /\ m.term \in Nat /\ m.prev_index \in Nat
      /\ m.entries \in Seq(Nat) /\ m.leader_commit \in Nat
      /\ log[n] \in Seq(Nat) /\ Len(log[n]) \in Nat /\ Len(m.entries) \in Nat
  BY <1>1, LenProperties DEF AppendEntriesRequest, TypeOK
<1>3. ASSUME NEW t \in Nat, NEW ok \in BOOLEAN, NEW last \in Nat,
             AppendReply(m, t, ok, last)
      PROVE  rpcs' \in SUBSET Rpc
  <2>1. [type |-> "AppendEntriesResponse", src |-> m.dst, dst |-> m.src,
         round |-> m.term, sent_prev_index |-> m.prev_index,
         sent_len |-> Len(m.entries),
         term |-> t, success |-> ok, last_log_index |-> last] \in Rpc
    BY <1>2 DEF Rpc, AppendEntriesResponse
  <2> QED
    BY <1>1, <1>3, <2>1, ReplyType DEF AppendReply
<1>4. CASE verify_log_consistency(log[n], m.prev_index, m.prev_term)
  <2>1. m.prev_index <= Len(log[n])
    BY <1>2, <1>4 DEF verify_log_consistency
  <2>2. new \in Seq(Nat) /\ Len(new) \in Nat
    BY <1>2, <2>1, ReconciledType, LenProperties
  <2>3. /\ log' = [log EXCEPT ![n] = new]
        /\ last_committed' = [last_committed EXCEPT ![n] =
                                commit_advance(@, m.leader_commit, Len(new))]
        /\ AppendReply(m, m.term, TRUE, Len(new))
    BY <1>4 DEF reconcile_log
  <2> HIDE DEF new
  <2>4. log' \in [Node -> Seq(Nat)]
    BY <2>2, <2>3 DEF TypeOK
  <2>5. commit_advance(last_committed[n], m.leader_commit, Len(new)) \in Nat
    BY <1>2, <2>2, MinOfTwo DEF commit_advance, TypeOK
  <2>6. last_committed' \in [Node -> Nat]
    BY <2>3, <2>5 DEF TypeOK
  <2> QED
    BY <1>2, <1>3, <2>2, <2>3, <2>4, <2>6
<1>5. CASE ~ verify_log_consistency(log[n], m.prev_index, m.prev_term)
  BY <1>2, <1>3, <1>5 DEF reconcile_log, TypeOK, logState
<1> QED
  BY <1>4, <1>5

\* The RPC handlers preserve the types.
LEMMA DeliverTypes ==
    ASSUME TypeOK, NEW m \in rpcs, Deliver(m)
    PROVE  TypeOK'
<1> USE DEF hardState, roleState, logState, tasks, history
<1> DEFINE n == m.dst
<1>1. rpcs \in SUBSET Rpc /\ n \in Node /\ m.src \in Node /\ m.term \in Nat
  BY RpcEnds DEF TypeOK
<1>2. ASSUME handle_pre_vote(m) PROVE TypeOK'
  <2>1. PICK g \in BOOLEAN :
          Reply(m, [type |-> "PreVoteResponse", src |-> n, dst |-> m.src,
                    pre_vote |-> m.pre_vote, term |-> current_term[n], vote_granted |-> g])
    BY <1>2 DEF handle_pre_vote
  <2>2. [type |-> "PreVoteResponse", src |-> n, dst |-> m.src,
         pre_vote |-> m.pre_vote, term |-> current_term[n], vote_granted |-> g] \in Rpc
    <3>1. m \in PreVoteRequest
      BY <1>1, <1>2, RpcKinds DEF handle_pre_vote
    <3>2. m.pre_vote \in PreVotes
      BY <3>1 DEF PreVoteRequest
    <3> QED
      BY <1>1, <3>2 DEF Rpc, PreVoteResponse, TypeOK
  <2>3. rpcs' \in SUBSET Rpc
    BY <1>1, <2>1, <2>2, ReplyType
  <2> QED
    BY <1>2, <2>3 DEF handle_pre_vote, TypeOK
<1>3. ASSUME handle_request_vote(m) PROVE TypeOK'
  <2>1. PICK g \in BOOLEAN :
          /\ voted_for' = [voted_for EXCEPT ![n] =
               IF g THEN m.src ELSE IF m.term > current_term[n] THEN None ELSE voted_for[n]]
          /\ ballots' = IF g THEN ballots \cup {<<n, m.term, m.src>>} ELSE ballots
          /\ VoteReply(m, current_term'[n], g)
    BY <1>3 DEF handle_request_vote
  <2>2. RoleOK'
    <3>1. voted_for' \in [Node -> Node \cup {None}]
      BY <1>1, <2>1 DEF TypeOK
    <3>2. CASE m.term > current_term[n]
      <4>1. current_term' = [current_term EXCEPT ![n] = m.term] /\ FollowerState(n, None)
        BY <1>3, <3>2 DEF handle_request_vote
      <4>2. current_term' \in [Node -> Nat]
        BY <1>1, <4>1 DEF TypeOK
      <4> QED
        BY <1>1, <3>1, <4>1, <4>2, RoleTypes DEF RoleOK
    <3>3. CASE ~ (m.term > current_term[n])
      <4>1. UNCHANGED <<current_term, roleState>>
        BY <1>3, <3>3 DEF handle_request_vote
      <4> QED
        BY <3>1, <4>1 DEF RoleOK, TypeOK
    <3> QED
      BY <3>2, <3>3
  <2>3. ballots' \in SUBSET (Node \X Nat \X Node)
    <3>1. <<n, m.term, m.src>> \in Node \X Nat \X Node
      BY <1>1
    <3>2. ballots \in SUBSET (Node \X Nat \X Node)
      BY DEF TypeOK
    <3> QED
      BY <2>1, <3>1, <3>2
  <2>4. rpcs' \in SUBSET Rpc
    <3>1. current_term'[n] \in Nat
      BY <1>1, <2>2 DEF RoleOK
    <3>2. [type |-> "RequestVoteResponse", src |-> m.dst, dst |-> m.src,
           campaign |-> m.term, term |-> current_term'[n], vote_granted |-> g] \in Rpc
      BY <1>1, <3>1 DEF Rpc, RequestVoteResponse
    <3> QED
      BY <1>1, <2>1, <3>2, ReplyType DEF VoteReply
  <2> QED
    BY <1>3, <2>2, <2>3, <2>4 DEF handle_request_vote, RoleOK, TypeOK
<1>4. ASSUME handle_append_entries(m) PROVE TypeOK'
  <2>1. m \in AppendEntriesRequest /\ m.type = "AppendEntriesRequest"
    BY <1>1, <1>4, RpcKinds DEF handle_append_entries
  <2>2. /\ RoleOK'
        /\ log' \in [Node -> Seq(Nat)]
        /\ last_committed' \in [Node -> Nat]
        /\ rpcs' \in SUBSET Rpc
    <3>1. CASE m.term < current_term[n] /\ AppendReply(m, current_term[n], FALSE, 0)
               /\ UNCHANGED <<hardState, roleState, logState>>
      <4>1. [type |-> "AppendEntriesResponse", src |-> m.dst, dst |-> m.src,
             round |-> m.term, sent_prev_index |-> m.prev_index,
             sent_len |-> Len(m.entries),
             term |-> current_term[n], success |-> FALSE, last_log_index |-> 0] \in Rpc
        BY <1>1, <2>1, LenProperties DEF Rpc, AppendEntriesRequest, AppendEntriesResponse, TypeOK
      <4>2. rpcs' \in SUBSET Rpc
        BY <1>1, <3>1, <4>1, ReplyType DEF AppendReply
      <4> QED
        BY <3>1, <4>2 DEF RoleOK, TypeOK
    <3>2. CASE apply_fatal(n) /\ NoReply(m) /\ UNCHANGED logState
      <4>1. RoleOK'
        BY <1>1, <3>2, RoleTypes DEF RoleOK, apply_fatal, TypeOK
      <4> QED
        BY <1>1, <3>2, <4>1 DEF NoReply, TypeOK
    <3>3. CASE into_follower(n, m.term, m.src) /\ reconcile_log(n, m)
      BY <1>1, <2>1, <3>3, TransitionTypes, ReconcileTypes
    <3> QED
      BY <1>4, <3>1, <3>2, <3>3 DEF handle_append_entries
  <2> QED
    BY <1>4, <2>2 DEF handle_append_entries, RoleOK, TypeOK
<1> QED
  BY <1>2, <1>3, <1>4 DEF Deliver

\* Advancing the commit index preserves the types.
LEMMA CommitTypes ==
    ASSUME TypeOK, NEW n \in Node, NEW match \in [Node -> Nat],
           update_leader_last_committed(n, match)
    PROVE  last_committed' \in [Node -> Nat] /\ decided' \in SUBSET (Nat \X Nat)
<1> DEFINE match_indices == [match EXCEPT ![n] = Len(log[n])]
<1>1. match_indices \in [Node -> Nat]
  BY LenProperties DEF TypeOK
<1>2. PICK median \in {match_indices[p] : p \in Node} :
        IF commits(n, median)
        THEN /\ last_committed' = [last_committed EXCEPT ![n] = median]
             /\ decided' = decided \cup {<<median, get_term_at(log[n], median)>>}
        ELSE UNCHANGED <<last_committed, decided>>
  BY DEF update_leader_last_committed
<1> HIDE DEF match_indices
<1>3. median \in Nat
  BY <1>1, <1>2
<1>4. get_term_at(log[n], median) \in Nat
  <2>1. log[n] \in Seq(Nat) /\ median \in Int
    BY <1>3 DEF TypeOK
  <2> QED
    BY <2>1, TermType
<1>5. CASE commits(n, median)
  <2>1. <<median, get_term_at(log[n], median)>> \in Nat \X Nat
    BY <1>3, <1>4
  <2> QED
    <3>1. /\ last_committed' = [last_committed EXCEPT ![n] = median]
          /\ decided' = decided \cup {<<median, get_term_at(log[n], median)>>}
      BY <1>2, <1>5
    <3>2. last_committed' \in [Node -> Nat]
      BY <1>3, <3>1 DEF TypeOK
    <3>3. decided' \in SUBSET (Nat \X Nat)
      BY <2>1, <3>1 DEF TypeOK
    <3> QED
      BY <3>2, <3>3
<1>6. CASE ~ commits(n, median)
  BY <1>2, <1>6 DEF TypeOK
<1> QED
  BY <1>5, <1>6

\* Index bookkeeping after a response preserves the types.
LEMMA IndexTypes ==
    ASSUME TypeOK, NEW n \in Node, NEW m \in AppendEntriesResponse,
           ReconcileIndices(n, m)
    PROVE  /\ next_index' \in [Node -> [Node -> Nat \ {0}]]
           /\ match_index' \in [Node -> [Node -> Nat]]
           /\ last_committed' \in [Node -> Nat]
           /\ decided' \in SUBSET (Nat \X Nat)
<1> DEFINE p == m.src
           new_match == m.sent_prev_index + m.sent_len
<1>1. p \in Node /\ new_match \in Nat /\ m.last_log_index \in Nat
  BY DEF AppendEntriesResponse
<1>2. next_index[n] \in [Node -> Nat \ {0}] /\ match_index[n] \in [Node -> Nat]
  BY DEF TypeOK
<1>3. CASE /\ next_index' = [next_index EXCEPT ![n][p] = new_match + 1]
           /\ match_index' = [match_index EXCEPT ![n][p] = new_match]
           /\ update_leader_last_committed(n, [match_index[n] EXCEPT ![p] = new_match])
  <2>1. [match_index[n] EXCEPT ![p] = new_match] \in [Node -> Nat]
    BY <1>1, <1>2
  <2>2. last_committed' \in [Node -> Nat] /\ decided' \in SUBSET (Nat \X Nat)
    BY <1>3, <2>1, CommitTypes
  <2>3. [next_index[n] EXCEPT ![p] = new_match + 1] \in [Node -> Nat \ {0}]
    BY <1>1, <1>2
  <2> QED
    BY <1>3, <2>1, <2>2, <2>3 DEF TypeOK
<1>4. CASE UNCHANGED <<next_index, match_index, last_committed, decided>>
  BY <1>4 DEF TypeOK
<1>5. CASE /\ next_index' = [next_index EXCEPT ![n][p] = Backoff(@, m.last_log_index)]
           /\ UNCHANGED <<match_index, last_committed, decided>>
  <2>1. next_index[n][p] \in Nat \ {0}
    BY <1>1, <1>2
  <2>2. Backoff(next_index[n][p], m.last_log_index) \in Nat \ {0}
    <3>1. CASE m.last_log_index > 0
      BY <1>1, <2>1, <3>1, MinOfTwo DEF Backoff
    <3>2. CASE ~ (m.last_log_index > 0)
      <4>1. next_index[n][p] - 1 \in Nat
        BY <2>1
      <4>2. Max({next_index[n][p] - 1, 1}) >= 1 /\ Max({next_index[n][p] - 1, 1}) \in Nat
        BY <4>1, MaxOfTwo
      <4> QED
        BY <3>2, <4>2 DEF Backoff
    <3> QED
      BY <3>1, <3>2
  <2>3. [next_index[n] EXCEPT ![p] = Backoff(next_index[n][p], m.last_log_index)]
          \in [Node -> Nat \ {0}]
    BY <1>1, <1>2, <2>2
  <2> QED
    BY <1>5, <2>3 DEF TypeOK
<1> QED
  BY <1>3, <1>4, <1>5 DEF ReconcileIndices

\* The tasks that process responses, or prepare a request, preserve the types.
LEMMA ResumeTypes ==
    ASSUME TypeOK, NEW m \in rpcs, Resume(m)
    PROVE  TypeOK'
<1> USE DEF hardState, roleState, logState, tasks, history
<1>1. /\ rpcs \in SUBSET Rpc /\ m.src \in Node /\ m.dst \in Node /\ m.term \in Nat
      /\ None \in Node \cup {None}
  BY RpcEnds DEF TypeOK
<1>2. ASSUME process_pre_vote_response(m) PROVE TypeOK'
  <2> DEFINE n == m.dst
             k == m.pre_vote
             tally == pre_votes_granted[n][k] \cup (IF m.vote_granted THEN {m.src} ELSE {})
  <2>1. m \in PreVoteResponse
    BY <1>1, <1>2, RpcKinds DEF process_pre_vote_response
  <2>2. k \in PreVotes
    BY <2>1 DEF PreVoteResponse
  <2>3. n \in Node /\ rpcs \ PreVoteRpcs(n, k) \in SUBSET Rpc
    BY <1>1 DEF TypeOK
  <2>4. pre_votes_granted[n][k] \in SUBSET Node
    BY <2>2, <2>3 DEF TypeOK
  <2>5. tally \in SUBSET Node
    BY <1>1, <2>4
  <2>6. ASSUME NEW S \in SUBSET Node,
               pre_votes_granted' = [pre_votes_granted EXCEPT ![n][k] = S]
        PROVE  pre_votes_granted' \in [Node -> [PreVotes -> SUBSET Node]]
    BY <2>2, <2>3, <2>6 DEF TypeOK
  <2>7. CASE /\ into_follower(n, m.term, None)
             /\ pre_votes_granted' = [pre_votes_granted EXCEPT ![n][k] = {}]
             /\ rpcs' = rpcs \ PreVoteRpcs(n, k)
             /\ UNCHANGED history
    <3>1. RoleOK'
      BY <1>1, <2>3, <2>7, TransitionTypes
    <3>2. pre_votes_granted' \in [Node -> [PreVotes -> SUBSET Node]]
      <4>1. {} \in SUBSET Node
        OBVIOUS
      <4> QED
        BY <2>6, <2>7, <4>1
    <3> QED
      BY <1>2, <2>3, <2>7, <3>1, <3>2 DEF process_pre_vote_response, RoleOK, TypeOK
  <2>8. CASE /\ StartCampaign(n, rpcs \ PreVoteRpcs(n, k))
             /\ pre_votes_granted' = [pre_votes_granted EXCEPT ![n][k] = {}]
             /\ UNCHANGED <<elected, leader_log, decided>>
    <3>1. /\ RoleOK'
          /\ ballots' \in SUBSET (Node \X Nat \X Node)
          /\ rpcs' \in SUBSET Rpc
      BY <2>3, <2>8, CampaignTypes
    <3>2. pre_votes_granted' \in [Node -> [PreVotes -> SUBSET Node]]
      <4>1. {} \in SUBSET Node
        OBVIOUS
      <4> QED
        BY <2>6, <2>8, <4>1
    <3> QED
      BY <1>2, <2>8, <3>1, <3>2 DEF process_pre_vote_response, RoleOK, TypeOK
  <2>9. CASE /\ pre_votes_granted' = [pre_votes_granted EXCEPT ![n][k] = tally]
             /\ rpcs' = rpcs \ {m}
             /\ UNCHANGED <<hardState, roleState, history>>
    <3>1. pre_votes_granted' \in [Node -> [PreVotes -> SUBSET Node]]
      BY <2>5, <2>6, <2>9
    <3> QED
      BY <1>1, <1>2, <2>9, <3>1 DEF process_pre_vote_response, TypeOK
  <2> QED
    BY <1>2, <2>7, <2>8, <2>9 DEF process_pre_vote_response
<1>3. ASSUME process_vote_response(m) PROVE TypeOK'
  <2> DEFINE n == m.dst
  <2>1. Orphan(CampaignRpcs(n, m.campaign)) \in SUBSET Rpc
    <3>1. CampaignRpcs(n, m.campaign) \in SUBSET rpcs
      BY DEF CampaignRpcs
    <3> QED
      BY <1>1, <3>1, OrphanType
  <2>2. RoleOK' /\ ElectedOK' /\ rpcs' \in SUBSET Rpc
    <3>1. CASE /\ into_follower(n, m.term, None)
               /\ rpcs' = Orphan(CampaignRpcs(n, m.campaign))
               /\ UNCHANGED <<elected, leader_log>>
      BY <1>1, <2>1, <3>1, TransitionTypes DEF TypeOK, ElectedOK
    <3>2. CASE /\ into_leader(n)
               /\ rpcs' = Orphan(CampaignRpcs(n, m.campaign))
      BY <1>1, <2>1, <3>2, TransitionTypes
    <3>3. CASE /\ votes_received' = [votes_received EXCEPT ![n] = votes_received[n] \cup {m.src}]
               /\ rpcs' = rpcs \ {m}
               /\ UNCHANGED <<hardState, role, leader_id, next_index, match_index,
                              elected, leader_log>>
      BY <1>1, <3>3, ZenonT(40) DEF RoleOK, TypeOK, ElectedOK
    <3>4. CASE /\ rpcs' = rpcs \ {m}
               /\ UNCHANGED <<hardState, roleState, elected, leader_log>>
      BY <1>1, <3>4 DEF RoleOK, TypeOK, ElectedOK
    <3> QED
      BY <1>3, <3>1, <3>2, <3>3, <3>4 DEF process_vote_response
  <2> QED
    BY <1>3, <2>2 DEF process_vote_response, RoleOK, ElectedOK, TypeOK
<1>4. ASSUME PrepareReplication(m) PROVE TypeOK'
  <2> DEFINE n == m.src
             next == next_index[n][m.dst]
  <2>1. m \in ReplicationRound
    BY <1>1, <1>4, RpcKinds DEF PrepareReplication
  <2>2. next \in Nat \ {0} /\ log[n] \in Seq(Nat) /\ Len(log[n]) \in Nat
    BY <1>1, LenProperties DEF TypeOK
  <2>3. get_term_at(log[n], next - 1) \in Nat /\ next - 1 \in Nat
    <3>1. next - 1 \in Nat
      BY <2>2
    <3>2. \A i \in Int : get_term_at(log[n], i) \in Nat
      BY <2>2, TermType
    <3> QED
      BY <3>1, <3>2
  <2>4. SubSeq(log[n], next, Len(log[n])) \in Seq(Nat)
    <3>1. \A i \in next..Len(log[n]) : log[n][i] \in Nat
      BY <2>2
    <3> QED
      BY <2>2, <3>1, SubSeqProperties
  <2>5. build_append_entries_request(n, m.dst, m) \in Rpc
    BY <1>1, <2>1, <2>3, <2>4
       DEF build_append_entries_request, Rpc, AppendEntriesRequest, ReplicationRound
  <2>6. rpcs' \in SUBSET Rpc
    BY <1>1, <1>4, <2>5 DEF PrepareReplication
  <2> QED
    BY <1>4, <2>6 DEF PrepareReplication, TypeOK
<1>5. ASSUME process_replication_response(m) PROVE TypeOK'
  <2> DEFINE n == m.dst
  <2>1. m \in AppendEntriesResponse
    BY <1>1, <1>5, RpcKinds DEF process_replication_response
  <2>2. RoleOK' /\ last_committed' \in [Node -> Nat] /\ decided' \in SUBSET (Nat \X Nat)
    <3>1. CASE into_follower(n, m.term, None) /\ UNCHANGED <<last_committed, decided>>
      BY <1>1, <3>1, TransitionTypes DEF TypeOK
    <3>2. CASE ReconcileIndices(n, m) /\ UNCHANGED <<hardState, role, leader_id, votes_received>>
      BY <1>1, <2>1, <3>2, IndexTypes DEF RoleOK, TypeOK
    <3>3. CASE UNCHANGED <<hardState, roleState, last_committed, decided>>
      BY <3>3 DEF RoleOK, TypeOK
    <3> QED
      BY <1>5, <3>1, <3>2, <3>3 DEF process_replication_response
  <2> QED
    BY <1>1, <1>5, <2>2 DEF process_replication_response, RoleOK, TypeOK
<1> QED
  BY <1>2, <1>3, <1>4, <1>5 DEF Resume

\* Crashes preserve the types.
LEMMA CrashTypes ==
    ASSUME TypeOK
    PROVE  /\ \A n \in Node : Restart(n) => TypeOK'
           /\ \A m \in rpcs : CrashInVote(m) \/ CrashInAppend(m) => TypeOK'
<1> USE DEF hardState, roleState, logState, tasks, history
<1>1. ASSUME NEW n \in Node, Reboot(n)
      PROVE  /\ role' \in [Node -> Roles]
             /\ leader_id' \in [Node -> Node \cup {None}]
             /\ votes_received' \in [Node -> SUBSET Node]
             /\ next_index' \in [Node -> [Node -> Nat \ {0}]]
             /\ match_index' \in [Node -> [Node -> Nat]]
             /\ pre_votes_granted' \in [Node -> [PreVotes -> SUBSET Node]]
             /\ step_down' \in [Node -> BOOLEAN]
             /\ restarts' \in Nat
             /\ Abandoned(n) \in SUBSET Rpc
  <2>1. FollowerState(n, None) /\ None \in Node \cup {None}
    BY <1>1 DEF Reboot
  <2>2. /\ pre_votes_granted' \in [Node -> [PreVotes -> SUBSET Node]]
        /\ step_down' \in [Node -> BOOLEAN]
        /\ restarts' \in Nat
    BY <1>1 DEF Reboot, TypeOK
  <2>3. Abandoned(n) \in SUBSET Rpc
    BY AbandonedType DEF TypeOK
  <2> QED
    BY <2>1, <2>2, <2>3, RoleTypes
<1>2. ASSUME NEW n \in Node, Restart(n) PROVE TypeOK'
  <2>1. Reboot(n) /\ rpcs' = Abandoned(n)
    BY <1>2 DEF Restart
  <2> QED
    BY <1>1, <1>2, <2>1 DEF Restart, TypeOK
<1>3. ASSUME NEW m \in rpcs, CrashInVote(m) PROVE TypeOK'
  <2>1. m.dst \in Node /\ m.term \in Nat
    BY RpcEnds DEF TypeOK
  <2>2. Reboot(m.dst) /\ rpcs' = Abandoned(m.dst) \ {m}
    BY <1>3 DEF CrashInVote
  <2>3. current_term' \in [Node -> Nat] /\ voted_for' \in [Node -> Node \cup {None}]
    BY <1>3, <2>1 DEF CrashInVote, TypeOK
  <2> QED
    BY <1>1, <1>3, <2>1, <2>2, <2>3 DEF CrashInVote, TypeOK
<1>4. ASSUME NEW m \in rpcs, CrashInAppend(m) PROVE TypeOK'
  <2> DEFINE n == m.dst
             cut == TruncateConflicts(log[n], m.prev_index, m.entries)
             full == Reconciled(log[n], m.prev_index, m.entries)
  <2>1. n \in Node /\ m.term \in Nat /\ m \in AppendEntriesRequest
    BY <1>4, RpcEnds, RpcKinds DEF TypeOK, CrashInAppend
  <2>2. Reboot(n) /\ rpcs' = Abandoned(n) \ {m}
    BY <1>4 DEF CrashInAppend
  <2>3. current_term' \in [Node -> Nat] /\ voted_for' \in [Node -> Node \cup {None}]
    BY <1>4, <2>1 DEF CrashInAppend, TypeOK
  <2>4. log' \in [Node -> Seq(Nat)]
    <3>1. CASE UNCHANGED log
      BY <3>1 DEF TypeOK
    <3>2. CASE verify_log_consistency(log[n], m.prev_index, m.prev_term)
               /\ \E kept \in {cut, full} : log' = [log EXCEPT ![n] = kept]
      <4>1. /\ log[n] \in Seq(Nat) /\ Len(log[n]) \in Nat
            /\ m.prev_index \in Nat /\ m.entries \in Seq(Nat)
        BY <2>1, LenProperties DEF TypeOK, AppendEntriesRequest
      <4>2. m.prev_index <= Len(log[n])
        BY <3>2, <4>1 DEF verify_log_consistency
      <4>3. cut \in Seq(Nat) /\ full \in Seq(Nat)
        BY <4>1, <4>2, TruncateType, ReconciledType
      <4> HIDE DEF cut, full
      <4> QED
        BY <2>1, <3>2, <4>3 DEF TypeOK
    <3> QED
      BY <1>4, <3>1, <3>2 DEF CrashInAppend
  <2> QED
    BY <1>1, <1>4, <2>1, <2>2, <2>3, <2>4 DEF CrashInAppend, TypeOK
<1> QED
  BY <1>2, <1>3, <1>4

\* Every step preserves the types.
LEMMA TypeStep ==
    TypeOK /\ [Next]_vars => TypeOK'
<1> SUFFICES ASSUME TypeOK, [Next]_vars PROVE TypeOK'
  OBVIOUS
<1> USE DEF hardState, roleState, logState, tasks, history
<1>1. ASSUME NEW n \in Node, NEW k \in PreVotes, FinishPreVote(n, k) PROVE TypeOK'
  <2>1. StartCampaign(n, rpcs) /\ rpcs \in SUBSET Rpc
    BY <1>1 DEF FinishPreVote, TypeOK
  <2>2. /\ RoleOK'
        /\ ballots' \in SUBSET (Node \X Nat \X Node)
        /\ rpcs' \in SUBSET Rpc
    BY <2>1, CampaignTypes
  <2> QED
    BY <1>1, <2>2 DEF FinishPreVote, RoleOK, TypeOK
<1>2. ASSUME NEW n \in Node, FinishElection(n) PROVE TypeOK'
  <2>1. RoleOK' /\ ElectedOK'
    BY <1>2, TransitionTypes DEF FinishElection
  <2> QED
    BY <1>2, <2>1 DEF FinishElection, RoleOK, ElectedOK, TypeOK
<1>3. ASSUME NEW n \in Node, propose(n) PROVE TypeOK'
  <2>1. log' \in [Node -> Seq(Nat)]
    BY <1>3 DEF propose, TypeOK
  <2>2. /\ leader_log' \in [DOMAIN leader_log -> Seq(Nat)]
        /\ DOMAIN leader_log' = DOMAIN leader_log
    BY <1>3, <2>1 DEF propose, TypeOK
  <2> QED
    BY <1>3, <2>1, <2>2 DEF propose, TypeOK
<1>4. CASE UNCHANGED vars
  BY <1>4 DEF vars, TypeOK
<1> QED
  BY <1>1, <1>2, <1>3, <1>4, TickTypes, DeliverTypes, ResumeTypes, CrashTypes DEF Next

\* Type correctness: in every reachable state every variable has its type and
\* every RPC in flight carries the fields its handler reads, for any cluster
\* and any bounds.
THEOREM TypeCorrect == Spec => []TypeOK
<1>1. Init => TypeOK
  <2> SUFFICES ASSUME Init PROVE TypeOK
    OBVIOUS
  <2>1. <<>> \in Seq(Nat)
    OBVIOUS
  <2> QED
    BY <2>1 DEF Init, TypeOK, Roles
<1>2. TypeOK /\ [Next]_vars => TypeOK'
  BY TypeStep
<1> QED
  BY <1>1, <1>2, PTL DEF Spec
=============================================================================
