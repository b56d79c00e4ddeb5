------------------------- MODULE RaftElectionProofs -------------------------
(***************************************************************************)
(* Proofs about elections in Raft: one leader per term, wins by the votes  *)
(* of that term, and leader hints that name the elected leader.            *)
(***************************************************************************)
EXTENDS RaftProofs

-----------------------------------------------------------------------------
(* The inductive invariant behind ElectionSafety *)

\* A vote is never above the voter's persisted term, and the vote persisted
\* with the current term is the one that was cast.
BallotsPersisted ==
    \A b \in ballots :
        /\ b[2] <= current_term[b[1]]
        /\ b[2] = current_term[b[1]] => voted_for[b[1]] = b[3]

\* One vote per voter and term.
OneBallotPerTerm ==
    \A a, b \in ballots : (a[1] = b[1] /\ a[2] = b[2]) => a[3] = b[3]

\* A granted response on its way stands for a vote that was cast.
GrantsAreBallots ==
    \A m \in rpcs : (m.type = "RequestVoteResponse" /\ m.vote_granted) =>
        <<m.src, m.campaign, m.dst>> \in ballots

\* Every vote a Candidate has tallied was cast for it in the term it campaigns
\* for now.
VotesAreOfTheCampaign ==
    \A n \in Node : role[n] = "Candidate" =>
        \A v \in votes_received[n] : <<v, current_term[n], n>> \in ballots

VotingInv ==
    /\ BallotsPersisted
    /\ OneBallotPerTerm
    /\ GrantsAreBallots             \* and so does every vote tallied:
    /\ VotesAreOfTheCampaign
    /\ LeadersHaveQuorum

-----------------------------------------------------------------------------
(* The inductive invariant behind LeaderHintIsElected *)

\* Whoever leads, prepares a round or sent an AppendEntries has won the term
\* it speaks for.
SpeaksAsElected ==
    /\ \A n \in Node : role[n] = "Leader" => <<current_term[n], n>> \in elected
    /\ \A m \in rpcs : m.type \in {"ReplicationRound", "AppendEntriesRequest"} =>
                           <<m.term, m.src>> \in elected

HintInv == LeaderHintIsElected /\ SpeaksAsElected

-----------------------------------------------------------------------------
(* Quorums *)

\* Two quorums share a voter.
LEMMA QuorumsIntersect ==
    ASSUME NEW P \in SUBSET Node, NEW Q \in SUBSET Node,
           Cardinality(P) >= Quorum, Cardinality(Q) >= Quorum
    PROVE  P \cap Q # {}
<1>1. IsFiniteSet(P) /\ IsFiniteSet(Q) /\ IsFiniteSet(Node)
  BY NodeAssumption, FS_Subset
<1>2. /\ Cardinality(P) \in Nat
      /\ Cardinality(Q) \in Nat
      /\ Cardinality(Node) \in Nat
  BY <1>1, FS_CardinalityType
<1>3. Cardinality(P) + Cardinality(Q) > Cardinality(Node)
  BY <1>2 DEF Quorum
<1> QED
  BY <1>1, <1>3, FS_MajoritiesIntersect

\* What the invariant says of leaders makes them unique.
LEMMA VotingInvImpliesSafety ==
    ASSUME TypeOK, OneBallotPerTerm, LeadersHaveQuorum
    PROVE  ElectionSafety
<1> SUFFICES ASSUME NEW a \in elected, NEW b \in elected, a[1] = b[1]
             PROVE  a[2] = b[2]
  BY DEF ElectionSafety
<1>1. PICK P \in SUBSET Node : /\ Cardinality(P) >= Quorum
                               /\ \A v \in P : <<v, a[1], a[2]>> \in ballots
  BY DEF LeadersHaveQuorum
<1>2. PICK Q \in SUBSET Node : /\ Cardinality(Q) >= Quorum
                               /\ \A v \in Q : <<v, b[1], b[2]>> \in ballots
  BY DEF LeadersHaveQuorum
<1>3. PICK v \in P : v \in Q
  BY <1>1, <1>2, QuorumsIntersect
<1>4. <<v, a[1], a[2]>> \in ballots /\ <<v, b[1], b[2]>> \in ballots
  BY <1>1, <1>2, <1>3
<1> QED
  BY <1>4 DEF OneBallotPerTerm

-----------------------------------------------------------------------------
(* Steps that cast no vote, tally none and elect nobody *)

\* No vote is cast and none is forgotten within its term.
KeepsVotes ==
    \A p \in Node : \/ current_term'[p] > current_term[p]
                    \/ /\ current_term'[p] = current_term[p]
                       /\ voted_for'[p] = voted_for[p]

\* Nobody becomes a Candidate, and those there are stay as they are.
KeepsCandidates ==
    \A p \in Node : role'[p] = "Candidate" =>
        /\ role[p] = "Candidate"
        /\ current_term'[p] = current_term[p]
        /\ votes_received'[p] = votes_received[p]

\* No vote is answered.
NoNewGrant ==
    \A m \in rpcs' : m.type = "RequestVoteResponse" => m \in rpcs

Quiet ==
    /\ KeepsVotes
    /\ KeepsCandidates
    /\ NoNewGrant
    /\ UNCHANGED <<ballots, elected>>

\* Terms that only grow, and votes that change only with them, keep the
\* ballots consistent with the hard state.
LEMMA BallotsKept ==
    ASSUME TypeOK, TypeOK', BallotsPersisted, OneBallotPerTerm, KeepsVotes,
           ballots' = ballots
    PROVE  BallotsPersisted' /\ OneBallotPerTerm'
<1>1. ASSUME NEW b \in ballots
      PROVE  /\ b[2] <= current_term'[b[1]]
             /\ b[2] = current_term'[b[1]] => voted_for'[b[1]] = b[3]
  <2>1. /\ b[1] \in Node /\ b[2] \in Nat
        /\ current_term[b[1]] \in Nat /\ current_term'[b[1]] \in Nat
    BY DEF TypeOK
  <2>2. /\ b[2] <= current_term[b[1]]
        /\ b[2] = current_term[b[1]] => voted_for[b[1]] = b[3]
    BY DEF BallotsPersisted
  <2> QED
    BY <2>1, <2>2 DEF KeepsVotes
<1> QED
  BY <1>1 DEF BallotsPersisted, OneBallotPerTerm

\* Such a step preserves the voting invariant.
LEMMA QuietStep ==
    ASSUME TypeOK, TypeOK', VotingInv, Quiet
    PROVE  VotingInv'
<1> USE DEF VotingInv, Quiet
<1>1. BallotsPersisted' /\ OneBallotPerTerm'
  BY BallotsKept
<1>2. LeadersHaveQuorum'
  BY DEF LeadersHaveQuorum
<1>3. GrantsAreBallots'
  BY DEF GrantsAreBallots, NoNewGrant
<1>4. VotesAreOfTheCampaign'
  BY DEF VotesAreOfTheCampaign, KeepsCandidates
<1> QED
  BY <1>1, <1>2, <1>3, <1>4

\* Orphaned requests are the only RPCs a task leaves behind that were not in
\* flight before, and they keep what they say.
LEMMA OrphanKeeps ==
    ASSUME rpcs \in SUBSET Rpc, NEW gone \in SUBSET rpcs, NEW m \in Orphan(gone)
    PROVE  \/ m \in rpcs
           \/ /\ m.type \in {"RequestVoteRequest", "AppendEntriesRequest"}
              /\ \E q \in rpcs : q.type = m.type /\ q.src = m.src /\ q.term = m.term
<1> SUFFICES ASSUME NEW q \in gone,
                    q.type \in {"RequestVoteRequest", "AppendEntriesRequest"},
                    m = [q EXCEPT !.awaited = FALSE]
             PROVE  m.type = q.type /\ m.src = q.src /\ m.term = q.term
  BY DEF Orphan
<1>1. CASE q \in RequestVoteRequest
  BY <1>1 DEF RequestVoteRequest
<1>2. CASE q \in AppendEntriesRequest
  BY <1>2 DEF AppendEntriesRequest
<1> QED
  BY <1>1, <1>2, RpcKinds

\* The same for everything a node's crash or a finished campaign leaves behind.
LEMMA LeftBehind ==
    ASSUME rpcs \in SUBSET Rpc, NEW n
    PROVE  /\ \A m \in Abandoned(n) :
                \/ m \in rpcs
                \/ /\ m.type \in {"RequestVoteRequest", "AppendEntriesRequest"}
                   /\ \E q \in rpcs : q.type = m.type /\ q.src = m.src /\ q.term = m.term
           /\ \A t : \A m \in Orphan(CampaignRpcs(n, t)) :
                \/ m \in rpcs
                \/ /\ m.type \in {"RequestVoteRequest", "AppendEntriesRequest"}
                   /\ \E q \in rpcs : q.type = m.type /\ q.src = m.src /\ q.term = m.term
<1>1. AwaitedBy(n) \in SUBSET rpcs /\ \A t : CampaignRpcs(n, t) \in SUBSET rpcs
  BY DEF AwaitedBy, CampaignRpcs
<1>2. \A m \in Orphan(AwaitedBy(n)) :
                \/ m \in rpcs
                \/ /\ m.type \in {"RequestVoteRequest", "AppendEntriesRequest"}
                   /\ \E q \in rpcs : q.type = m.type /\ q.src = m.src /\ q.term = m.term
  BY <1>1, OrphanKeeps
<1>3. \A t : \A m \in Orphan(CampaignRpcs(n, t)) :
                \/ m \in rpcs
                \/ /\ m.type \in {"RequestVoteRequest", "AppendEntriesRequest"}
                   /\ \E q \in rpcs : q.type = m.type /\ q.src = m.src /\ q.term = m.term
  BY <1>1, OrphanKeeps
<1> QED
  BY <1>2, <1>3 DEF Abandoned

\* Becoming a Follower, or halting, forgets no vote and makes no Candidate.
LEMMA FollowerKeepsVotes ==
    ASSUME TypeOK, NEW n \in Node, NEW t \in Nat, NEW l, into_follower(n, t, l)
    PROVE  KeepsVotes /\ KeepsCandidates
<1>1. CASE t < current_term[n] /\ apply_fatal(n)
  BY <1>1 DEF apply_fatal, DropRoleFields, hardState, KeepsVotes, KeepsCandidates, TypeOK
<1>2. CASE /\ t >= current_term[n]
           /\ current_term' = [current_term EXCEPT ![n] = t]
           /\ voted_for' = [voted_for EXCEPT ![n] =
                                IF t > current_term[n] THEN None ELSE @]
           /\ FollowerState(n, l)
  <2>1. KeepsVotes
    BY <1>2 DEF KeepsVotes, TypeOK
  <2>2. KeepsCandidates
    BY <1>2 DEF FollowerState, DropRoleFields, KeepsCandidates, TypeOK
  <2> QED
    BY <2>1, <2>2
<1> QED
  BY <1>1, <1>2 DEF into_follower

\* A node that reboots with a term no lower, and its vote if the term is the
\* same, forgets no vote.
LEMMA RebootKeepsVotes ==
    ASSUME TypeOK, NEW n \in Node, Reboot(n), NEW t \in Nat, t >= current_term[n],
           current_term' = [current_term EXCEPT ![n] = t],
           voted_for' = [voted_for EXCEPT ![n] =
                             IF t > current_term[n] THEN None ELSE @]
    PROVE  KeepsVotes /\ KeepsCandidates
<1>1. KeepsVotes
  BY DEF KeepsVotes, TypeOK
<1>2. KeepsCandidates
  BY DEF Reboot, FollowerState, DropRoleFields, KeepsCandidates, TypeOK
<1> QED
  BY <1>1, <1>2

\* Timers and client calls that start no election are quiet.
LEMMA LocalStepsAreQuiet ==
    ASSUME TypeOK, NEW n \in Node,
           \/ StartPreVote(n)
           \/ DecideStepDown(n)
           \/ StepDown(n)
           \/ SendHeartbeat(n)
           \/ propose(n)
    PROVE  Quiet
<1> USE DEF hardState, roleState, logState, tasks, history
<1>1. rpcs \in SUBSET Rpc
  BY DEF TypeOK
<1>2. CASE StartPreVote(n)
  <2>2. NoNewGrant
    BY <1>2 DEF StartPreVote, NoNewGrant
  <2>3. KeepsVotes /\ KeepsCandidates
    BY <1>2 DEF StartPreVote, KeepsVotes, KeepsCandidates, TypeOK
  <2> QED
    BY <1>2, <2>2, <2>3 DEF StartPreVote, Quiet
<1>3. CASE DecideStepDown(n)
  BY <1>3 DEF DecideStepDown, Quiet, KeepsVotes, KeepsCandidates, NoNewGrant
<1>4. CASE StepDown(n)
  <2>1. KeepsVotes /\ KeepsCandidates
    <3>1. current_term[n] \in Nat
      BY DEF TypeOK
    <3> QED
      BY <1>4, <3>1, FollowerKeepsVotes DEF StepDown
  <2> QED
    BY <1>4, <2>1 DEF StepDown, Quiet, NoNewGrant
<1>5. CASE SendHeartbeat(n)
  <2>1. NoNewGrant
    BY <1>5 DEF SendHeartbeat, NoNewGrant
  <2> QED
    BY <1>5, <2>1 DEF SendHeartbeat, Quiet, KeepsVotes, KeepsCandidates
<1>6. CASE propose(n)
  BY <1>6 DEF propose, Quiet, KeepsVotes, KeepsCandidates, NoNewGrant
<1> QED
  BY <1>2, <1>3, <1>4, <1>5, <1>6

\* So are the handlers of pre-votes and of AppendEntries.
LEMMA HandlersAreQuiet ==
    ASSUME TypeOK, NEW m \in rpcs, handle_pre_vote(m) \/ handle_append_entries(m)
    PROVE  Quiet
<1> USE DEF hardState, roleState, logState, tasks, history
<1> DEFINE n == m.dst
<1>1. rpcs \in SUBSET Rpc /\ n \in Node /\ m.src \in Node /\ m.term \in Nat
  BY RpcEnds DEF TypeOK
<1>2. CASE handle_pre_vote(m)
  <2>1. NoNewGrant
    BY <1>2 DEF handle_pre_vote, Reply, NoNewGrant
  <2> QED
    BY <1>2, <2>1 DEF handle_pre_vote, Quiet, KeepsVotes, KeepsCandidates
<1>3. CASE handle_append_entries(m)
  <2>1. ASSUME NEW t, NEW ok, NEW last, AppendReply(m, t, ok, last) PROVE NoNewGrant
    BY <2>1 DEF AppendReply, Reply, NoReply, NoNewGrant
  <2>2. NoNewGrant
    <3>1. NoReply(m) => NoNewGrant
      BY DEF NoReply, NoNewGrant
    <3> QED
      BY <1>3, <2>1, <3>1 DEF handle_append_entries, reconcile_log
  <2>3. KeepsVotes /\ KeepsCandidates
    <3>1. apply_fatal(n) => KeepsVotes /\ KeepsCandidates
      BY DEF apply_fatal, DropRoleFields, KeepsVotes, KeepsCandidates, TypeOK
    <3>2. into_follower(n, m.term, m.src) => KeepsVotes /\ KeepsCandidates
      BY <1>1, FollowerKeepsVotes
    <3>3. UNCHANGED <<hardState, roleState>> => KeepsVotes /\ KeepsCandidates
      BY DEF KeepsVotes, KeepsCandidates
    <3> QED
      BY <1>3, <3>1, <3>2, <3>3 DEF handle_append_entries
  <2> QED
    BY <1>3, <2>2, <2>3 DEF handle_append_entries, Quiet
<1> QED
  BY <1>2, <1>3

\* So are replication tasks and the responses that neither start an election
\* nor count.
LEMMA TasksAreQuiet ==
    ASSUME TypeOK, NEW m \in rpcs,
           PrepareReplication(m) \/ process_replication_response(m)
    PROVE  Quiet
<1> USE DEF hardState, roleState, logState, tasks, history
<1> DEFINE n == m.dst
<1>1. rpcs \in SUBSET Rpc /\ n \in Node /\ m.src \in Node /\ m.term \in Nat
  BY RpcEnds DEF TypeOK
<1>2. CASE PrepareReplication(m)
  <2>1. NoNewGrant
    BY <1>2 DEF PrepareReplication, build_append_entries_request, NoNewGrant
  <2> QED
    BY <1>2, <2>1 DEF PrepareReplication, Quiet, KeepsVotes, KeepsCandidates
<1>3. CASE process_replication_response(m)
  <2>1. NoNewGrant
    BY <1>3 DEF process_replication_response, NoNewGrant
  <2>2. KeepsVotes /\ KeepsCandidates
    <3>1. into_follower(n, m.term, None) => KeepsVotes /\ KeepsCandidates
      BY <1>1, FollowerKeepsVotes
    <3>2. UNCHANGED <<hardState, role, leader_id, votes_received>> => KeepsVotes /\ KeepsCandidates
      BY DEF KeepsVotes, KeepsCandidates
    <3> QED
      BY <1>3, <3>1, <3>2 DEF process_replication_response
  <2> QED
    BY <1>3, <2>1, <2>2 DEF process_replication_response, Quiet
<1> QED
  BY <1>2, <1>3

\* So is every crash: what was flushed before it is no vote.
LEMMA CrashesAreQuiet ==
    ASSUME TypeOK
    PROVE  /\ \A n \in Node : Restart(n) => Quiet
           /\ \A m \in rpcs : CrashInVote(m) \/ CrashInAppend(m) => Quiet
<1> USE DEF hardState, roleState, logState, tasks, history
<1>1. rpcs \in SUBSET Rpc
  BY DEF TypeOK
<1>2. ASSUME NEW n \in Node, rpcs' \in SUBSET Abandoned(n) PROVE NoNewGrant
  BY <1>1, <1>2, LeftBehind DEF NoNewGrant
<1>3. ASSUME NEW n \in Node, Restart(n) PROVE Quiet
  <2>1. KeepsVotes /\ KeepsCandidates
    BY <1>3 DEF Restart, Reboot, FollowerState, DropRoleFields, KeepsVotes,
                KeepsCandidates, TypeOK
  <2> QED
    BY <1>2, <1>3, <2>1 DEF Restart, Quiet
<1>4. ASSUME NEW m \in rpcs, CrashInVote(m) PROVE Quiet
  <2>1. m.dst \in Node /\ m.term \in Nat /\ current_term[m.dst] \in Nat
    BY <1>1, RpcEnds DEF TypeOK
  <2>2. KeepsVotes /\ KeepsCandidates
    <3>1. /\ Reboot(m.dst)
          /\ m.term >= current_term[m.dst]
          /\ current_term' = [current_term EXCEPT ![m.dst] = m.term]
          /\ voted_for' = [voted_for EXCEPT ![m.dst] =
                               IF m.term > current_term[m.dst] THEN None ELSE @]
      BY <1>4, <2>1 DEF CrashInVote
    <3> QED
      BY <2>1, <3>1, RebootKeepsVotes
  <2> QED
    BY <1>2, <1>4, <2>1, <2>2 DEF CrashInVote, Quiet
<1>5. ASSUME NEW m \in rpcs, CrashInAppend(m) PROVE Quiet
  <2>1. m.dst \in Node /\ m.term \in Nat
    BY <1>1, RpcEnds
  <2>2. KeepsVotes /\ KeepsCandidates
    BY <1>5, <2>1, RebootKeepsVotes DEF CrashInAppend
  <2> QED
    BY <1>2, <1>5, <2>1, <2>2 DEF CrashInAppend, Quiet
<1> QED
  BY <1>3, <1>4, <1>5

-----------------------------------------------------------------------------
(* Steps that cast a vote *)

\* Persisting a vote in a term in which no other was persisted keeps the
\* ballots consistent with the hard state and with each other.
LEMMA CastStep ==
    ASSUME TypeOK, BallotsPersisted, OneBallotPerTerm,
           NEW n \in Node, NEW t \in Nat, NEW c \in Node,
           \/ t > current_term[n]
           \/ t = current_term[n] /\ voted_for[n] \in {None, c},
           current_term' = [current_term EXCEPT ![n] = t],
           voted_for' = [voted_for EXCEPT ![n] = c],
           ballots' = ballots \cup {<<n, t, c>>}
    PROVE  BallotsPersisted' /\ OneBallotPerTerm'
<1>1. \A b \in ballots : /\ b[1] \in Node /\ b[2] \in Nat /\ b[3] \in Node
                         /\ b[3] # None
                         /\ current_term[b[1]] \in Nat
  BY NodeAssumption DEF TypeOK
<1>2. ASSUME NEW b \in ballots, b[1] = n, b[2] = t PROVE b[3] = c
  <2>1. /\ b[2] <= current_term[n] /\ current_term[n] \in Nat
        /\ b[2] = current_term[n] => voted_for[n] = b[3]
    BY <1>1, <1>2 DEF BallotsPersisted
  <2>2. t = current_term[n] /\ voted_for[n] \in {None, c}
    BY <1>2, <2>1
  <2> QED
    BY <1>1, <1>2, <2>1, <2>2
<1>3. BallotsPersisted'
  <2> SUFFICES ASSUME NEW b \in ballots'
               PROVE  /\ b[2] <= current_term'[b[1]]
                      /\ b[2] = current_term'[b[1]] => voted_for'[b[1]] = b[3]
    BY DEF BallotsPersisted
  <2>1. CASE b = <<n, t, c>>
    BY <2>1 DEF TypeOK
  <2>2. CASE b \in ballots /\ b[1] # n
    BY <1>1, <2>2 DEF BallotsPersisted, TypeOK
  <2>3. CASE b \in ballots /\ b[1] = n
    <3>1. current_term'[b[1]] = t /\ voted_for'[b[1]] = c
      BY <2>3 DEF TypeOK
    <3>2. b[2] <= current_term[n] /\ current_term[n] <= t
      BY <1>1, <2>3 DEF BallotsPersisted
    <3> QED
      BY <1>1, <1>2, <2>3, <3>1, <3>2
  <2> QED
    BY <2>1, <2>2, <2>3
<1>4. OneBallotPerTerm'
  <2> SUFFICES ASSUME NEW a \in ballots', NEW b \in ballots', a[1] = b[1], a[2] = b[2]
               PROVE  a[3] = b[3]
    BY DEF OneBallotPerTerm
  <2>1. CASE a \in ballots /\ b \in ballots
    BY <2>1 DEF OneBallotPerTerm
  <2>2. CASE a = <<n, t, c>> \/ b = <<n, t, c>>
    BY <1>2, <2>2
  <2> QED
    BY <2>1, <2>2
<1> QED
  BY <1>3, <1>4

\* An election campaign starts with the candidate's vote for itself.
LEMMA CampaignStep ==
    ASSUME TypeOK, TypeOK', VotingInv, NEW n \in Node,
           NEW others, StartCampaign(n, others), UNCHANGED elected,
           \A m \in others : m.type = "RequestVoteResponse" => m \in rpcs
    PROVE  VotingInv'
<1> USE DEF VotingInv
<1>0. NoNewGrant
  BY DEF StartCampaign, VoteRequests, NoNewGrant
<1>1. CASE role[n] = "Leader"
  <2>1. UNCHANGED <<current_term, voted_for, role, votes_received, ballots>>
    BY <1>1 DEF StartCampaign, into_candidate, hardState, roleState
  <2> QED
    BY <1>0, <2>1, QuietStep DEF Quiet, KeepsVotes, KeepsCandidates
<1>2. CASE role[n] # "Leader"
  <2>1. /\ current_term' = [current_term EXCEPT ![n] = current_term[n] + 1]
        /\ voted_for' = [voted_for EXCEPT ![n] = n]
        /\ ballots' = ballots \cup {<<n, current_term[n] + 1, n>>}
        /\ role' = [role EXCEPT ![n] = "Candidate"]
        /\ votes_received' = [votes_received EXCEPT ![n] = {n}]
    BY <1>2, Zenon DEF StartCampaign, into_candidate
  <2>2. BallotsPersisted' /\ OneBallotPerTerm'
    <3>1. current_term[n] + 1 \in Nat /\ current_term[n] + 1 > current_term[n]
      BY DEF TypeOK
    <3> QED
      BY <2>1, <3>1, CastStep
  <2>3. GrantsAreBallots'
    BY <1>0, <2>1 DEF GrantsAreBallots, NoNewGrant
  <2>4. VotesAreOfTheCampaign'
    <3> SUFFICES ASSUME NEW p \in Node, role'[p] = "Candidate", NEW v \in votes_received'[p]
                 PROVE  <<v, current_term'[p], p>> \in ballots'
      BY DEF VotesAreOfTheCampaign
    <3>1. CASE p = n
      <4>1. v = n /\ current_term'[p] = current_term[n] + 1
        BY <2>1, <3>1 DEF TypeOK
      <4> QED
        BY <2>1, <3>1, <4>1
    <3>2. CASE p # n
      <4>1. role[p] = "Candidate" /\ v \in votes_received[p] /\ current_term'[p] = current_term[p]
        BY <2>1, <3>2 DEF TypeOK
      <4> QED
        BY <2>1, <4>1 DEF VotesAreOfTheCampaign
    <3> QED
      BY <3>1, <3>2
  <2>5. LeadersHaveQuorum'
    BY <2>1 DEF LeadersHaveQuorum
  <2> QED
    BY <2>2, <2>3, <2>4, <2>5
<1> QED
  BY <1>1, <1>2

\* Answering a RequestVote: without a vote the hard state keeps those cast so
\* far, with one it is the term's only vote.
LEMMA VoteCases ==
    ASSUME TypeOK, TypeOK', VotingInv, KeepsCandidates,
           NEW m \in rpcs, handle_request_vote(m), NEW g \in BOOLEAN,
           ballots' = IF g THEN ballots \cup {<<m.dst, m.term, m.src>>} ELSE ballots,
           VoteReply(m, current_term'[m.dst], g),
           ~g => KeepsVotes,
           g => /\ \/ m.term > current_term[m.dst]
                   \/ m.term = current_term[m.dst] /\ voted_for[m.dst] \in {None, m.src}
                /\ current_term' = [current_term EXCEPT ![m.dst] = m.term]
                /\ voted_for' = [voted_for EXCEPT ![m.dst] = m.src]
    PROVE  VotingInv'
<1> DEFINE n == m.dst
<1>1. rpcs \in SUBSET Rpc /\ n \in Node /\ m.src \in Node /\ m.term \in Nat
  BY RpcEnds DEF TypeOK
<1>2. \A q \in rpcs' : q.type = "RequestVoteResponse" =>
          \/ q \in rpcs
          \/ /\ q.src = n /\ q.campaign = m.term /\ q.dst = m.src
             /\ q.vote_granted = g
  BY DEF VoteReply, Reply, NoReply
<1>3. GrantsAreBallots'
  BY <1>2 DEF VotingInv, GrantsAreBallots
<1>4. VotesAreOfTheCampaign' /\ LeadersHaveQuorum'
  <2>1. ballots \subseteq ballots' /\ UNCHANGED elected
    BY DEF handle_request_vote
  <2> QED
    BY <2>1 DEF VotingInv, VotesAreOfTheCampaign, LeadersHaveQuorum, KeepsCandidates
<1>5. BallotsPersisted' /\ OneBallotPerTerm'
  <2>1. CASE g
    BY <1>1, <2>1, CastStep DEF VotingInv
  <2>2. CASE ~g
    BY <2>2, BallotsKept DEF VotingInv
  <2> QED
    BY <2>1, <2>2
<1> QED
  BY <1>3, <1>4, <1>5 DEF VotingInv

\* handle_request_vote casts at most one vote per term, and answers for it.
LEMMA VoteStep ==
    ASSUME TypeOK, TypeOK', VotingInv, NEW m \in rpcs, handle_request_vote(m)
    PROVE  VotingInv'
<1> USE DEF hardState, roleState, logState, tasks, history
<1> DEFINE n == m.dst
<1>1. /\ rpcs \in SUBSET Rpc /\ n \in Node /\ m.src \in Node /\ m.term \in Nat
      /\ current_term[n] \in Nat
  BY RpcEnds DEF TypeOK
<1>2. PICK g \in BOOLEAN :
        /\ voted_for' = [voted_for EXCEPT ![n] =
             IF g THEN m.src ELSE IF m.term > current_term[n] THEN None ELSE voted_for[n]]
        /\ ballots' = IF g THEN ballots \cup {<<n, m.term, m.src>>} ELSE ballots
        /\ VoteReply(m, current_term'[n], g)
        /\ g => \/ m.term > current_term[n]
                \/ m.term = current_term[n] /\ voted_for[n] \in {None, m.src}
  BY DEF handle_request_vote, attempt_grant_vote
<1>3. CASE m.term > current_term[n]
  <2>1. current_term' = [current_term EXCEPT ![n] = m.term] /\ FollowerState(n, None)
    BY <1>3 DEF handle_request_vote
  <2>2. KeepsCandidates
    BY <2>1 DEF FollowerState, DropRoleFields, KeepsCandidates, TypeOK
  <2>3. ~g => KeepsVotes
    BY <1>1, <1>3, <2>1, <1>2 DEF KeepsVotes, TypeOK
  <2> QED
    BY <1>1, <1>2, <2>1, <2>2, <2>3, VoteCases
<1>4. CASE ~ (m.term > current_term[n])
  <2>1. UNCHANGED <<current_term, role, votes_received>>
    BY <1>4 DEF handle_request_vote
  <2>2. KeepsCandidates
    BY <2>1 DEF KeepsCandidates
  <2>3. ~g => KeepsVotes
    BY <1>2, <1>4, <2>1 DEF KeepsVotes, TypeOK
  <2>4. g => current_term' = [current_term EXCEPT ![n] = m.term]
    BY <1>1, <1>2, <1>4, <2>1 DEF TypeOK
  <2> QED
    BY <1>1, <1>2, <2>2, <2>3, <2>4, VoteCases
<1> QED
  BY <1>3, <1>4

\* Winning: the tally of the Candidate is the quorum of its leadership.
LEMMA LeaderStep ==
    ASSUME TypeOK, VotingInv, NEW n \in Node, NEW Q \in SUBSET Node,
           Cardinality(Q) >= Quorum,
           \A v \in Q : <<v, current_term[n], n>> \in ballots,
           into_leader(n), NoNewGrant, UNCHANGED ballots
    PROVE  VotingInv'
<1> USE DEF hardState
<1>1. LeadersHaveQuorum'
  <2> SUFFICES ASSUME NEW e \in elected'
               PROVE  \E P \in SUBSET Node : /\ Cardinality(P) >= Quorum
                                             /\ \A v \in P : <<v, e[1], e[2]>> \in ballots
    BY DEF LeadersHaveQuorum
  <2>1. CASE e \in elected
    BY <2>1 DEF VotingInv, LeadersHaveQuorum
  <2>2. CASE e = <<current_term[n], n>>
    BY <2>2
  <2> QED
    BY <2>1, <2>2 DEF into_leader
<1>2. VotesAreOfTheCampaign'
  BY DEF into_leader, VotingInv, VotesAreOfTheCampaign, TypeOK
<1>3. BallotsPersisted' /\ OneBallotPerTerm' /\ GrantsAreBallots'
  BY DEF into_leader, VotingInv, BallotsPersisted, OneBallotPerTerm, GrantsAreBallots, NoNewGrant
<1> QED
  BY <1>1, <1>2, <1>3 DEF VotingInv

\* A vote is tallied only in the campaign, and the term, it was cast for.
LEMMA TallyStep ==
    ASSUME TypeOK, TypeOK', VotingInv, NEW m \in rpcs, process_vote_response(m)
    PROVE  VotingInv'
<1> USE DEF hardState, roleState, logState, tasks, history
<1> DEFINE n == m.dst
           tally == votes_received[n] \cup {m.src}
<1>1. rpcs \in SUBSET Rpc /\ n \in Node /\ m.src \in Node /\ m.term \in Nat
  BY RpcEnds DEF TypeOK
<1>2. UNCHANGED ballots /\ NoNewGrant
  <2>1. \/ rpcs' = Orphan(CampaignRpcs(n, m.campaign))
        \/ rpcs' = rpcs \ {m}
    BY DEF process_vote_response
  <2> QED
    BY <1>1, <2>1, LeftBehind DEF process_vote_response, NoNewGrant
<1>3. counts(m) => /\ tally \in SUBSET Node
                   /\ \A v \in tally : <<v, current_term[n], n>> \in ballots
  BY <1>1 DEF process_vote_response, counts, VotingInv, GrantsAreBallots, VotesAreOfTheCampaign, TypeOK
<1>4. CASE into_follower(n, m.term, None) /\ UNCHANGED elected
  BY <1>1, <1>2, <1>4, FollowerKeepsVotes, QuietStep DEF Quiet
<1>5. CASE counts(m) /\ Cardinality(tally) >= Quorum /\ into_leader(n)
  BY <1>1, <1>2, <1>3, <1>5, LeaderStep
<1>6. CASE /\ counts(m)
           /\ votes_received' = [votes_received EXCEPT ![n] = tally]
           /\ UNCHANGED <<hardState, role, elected>>
  <2>1. VotesAreOfTheCampaign'
    <3> SUFFICES ASSUME NEW p \in Node, role[p] = "Candidate", NEW v \in votes_received'[p]
                 PROVE  <<v, current_term[p], p>> \in ballots
      BY <1>2, <1>6 DEF VotesAreOfTheCampaign
    <3>1. CASE p = n
      BY <1>3, <1>6, <3>1 DEF counts, TypeOK
    <3>2. CASE p # n
      BY <1>6, <3>2 DEF TypeOK, VotingInv, VotesAreOfTheCampaign
    <3> QED
      BY <3>1, <3>2
  <2> QED
    BY <1>2, <1>6, <2>1
       DEF VotingInv, BallotsPersisted, OneBallotPerTerm, GrantsAreBallots,
           LeadersHaveQuorum, NoNewGrant
<1>7. CASE UNCHANGED <<hardState, roleState, elected>>
  <2>1. KeepsVotes /\ KeepsCandidates
    BY <1>7 DEF KeepsVotes, KeepsCandidates
  <2> QED
    BY <1>2, <1>7, <2>1, QuietStep DEF Quiet
<1> QED
  BY <1>4, <1>5, <1>6, <1>7 DEF process_vote_response

\* Responses to a pre-vote campaign end it, start an election or are counted.
LEMMA PreVoteStep ==
    ASSUME TypeOK, TypeOK', VotingInv, NEW m \in rpcs, process_pre_vote_response(m)
    PROVE  VotingInv'
<1> USE DEF hardState, roleState, logState, tasks, history
<1> DEFINE n == m.dst
<1>1. rpcs \in SUBSET Rpc /\ n \in Node /\ m.src \in Node /\ m.term \in Nat
  BY RpcEnds DEF TypeOK
<1>2. CASE into_follower(n, m.term, None) /\ rpcs' = rpcs \ PreVoteRpcs(n, m.pre_vote) /\ UNCHANGED history
  BY <1>1, <1>2, FollowerKeepsVotes, QuietStep DEF Quiet, NoNewGrant
<1>3. CASE StartCampaign(n, rpcs \ PreVoteRpcs(n, m.pre_vote)) /\ UNCHANGED elected
  BY <1>1, <1>3, CampaignStep
<1>4. CASE rpcs' = rpcs \ {m} /\ UNCHANGED <<hardState, roleState, history>>
  <2>1. KeepsVotes /\ KeepsCandidates /\ NoNewGrant
    BY <1>4 DEF KeepsVotes, KeepsCandidates, NoNewGrant
  <2> QED
    BY <1>4, <2>1, QuietStep DEF Quiet
<1> QED
  BY <1>2, <1>3, <1>4 DEF process_pre_vote_response

\* Every step preserves the voting invariant.
LEMMA VotingStep ==
    TypeOK /\ TypeOK' /\ VotingInv /\ [Next]_vars => VotingInv'
<1> SUFFICES ASSUME TypeOK, TypeOK', VotingInv, [Next]_vars PROVE VotingInv'
  OBVIOUS
<1> USE DEF hardState, roleState, logState, tasks, history
<1>1. rpcs \in SUBSET Rpc
  BY DEF TypeOK
<1>2. ASSUME NEW n \in Node, StartElection(n) PROVE VotingInv'
  BY <1>2, CampaignStep DEF StartElection
<1>3. ASSUME NEW n \in Node, NEW k \in PreVotes, FinishPreVote(n, k) PROVE VotingInv'
  BY <1>3, CampaignStep DEF FinishPreVote
<1>4. ASSUME NEW n \in Node, FinishElection(n) PROVE VotingInv'
  <2>1. votes_received[n] \in SUBSET Node /\ NoNewGrant
    BY <1>4 DEF FinishElection, NoNewGrant, TypeOK
  <2>2. \A v \in votes_received[n] : <<v, current_term[n], n>> \in ballots
    BY <1>4 DEF FinishElection, VotingInv, VotesAreOfTheCampaign
  <2> QED
    BY <1>4, <2>1, <2>2, LeaderStep DEF FinishElection
<1>5. CASE UNCHANGED vars
  BY <1>5, QuietStep DEF vars, Quiet, KeepsVotes, KeepsCandidates, NoNewGrant
<1>6. ASSUME NEW n \in Node,
             \/ StartPreVote(n) \/ DecideStepDown(n) \/ StepDown(n)
             \/ SendHeartbeat(n) \/ propose(n) \/ Restart(n)
      PROVE  VotingInv'
  BY <1>6, LocalStepsAreQuiet, CrashesAreQuiet, QuietStep
<1>7. ASSUME NEW m \in rpcs,
             \/ Deliver(m) \/ Resume(m) \/ CrashInVote(m) \/ CrashInAppend(m)
      PROVE  VotingInv'
  <2>1. CASE handle_pre_vote(m) \/ handle_append_entries(m)
    BY <2>1, HandlersAreQuiet, QuietStep
  <2>2. CASE handle_request_vote(m)
    BY <2>2, VoteStep
  <2>3. CASE PrepareReplication(m) \/ process_replication_response(m)
    BY <2>3, TasksAreQuiet, QuietStep
  <2>4. CASE process_pre_vote_response(m)
    BY <2>4, PreVoteStep
  <2>5. CASE process_vote_response(m)
    BY <2>5, TallyStep
  <2>6. CASE CrashInVote(m) \/ CrashInAppend(m)
    BY <2>6, CrashesAreQuiet, QuietStep
  <2> QED
    BY <1>7, <2>1, <2>2, <2>3, <2>4, <2>5, <2>6 DEF Deliver, Resume
<1> QED
  BY <1>2, <1>3, <1>4, <1>5, <1>6, <1>7 DEF Next, Tick

\* The voting invariant holds in every reachable state.
LEMMA VotesHold == Spec => []VotingInv
<1>1. Init => VotingInv
  BY DEF Init, VotingInv, BallotsPersisted, OneBallotPerTerm, GrantsAreBallots,
         VotesAreOfTheCampaign, LeadersHaveQuorum
<1>2. TypeOK /\ TypeOK' /\ VotingInv /\ [Next]_vars => VotingInv'
  BY VotingStep
<1> QED
  BY <1>1, <1>2, TypeCorrect, PTL DEF Spec

\* Election safety: however campaigns, late votes, step-downs and crashes
\* interleave, no term is ever won by two nodes, for any cluster.
THEOREM ElectionSafe == Spec => []ElectionSafety
<1>1. TypeOK /\ VotingInv => ElectionSafety
  BY VotingInvImpliesSafety DEF VotingInv
<1> QED
  BY <1>1, TypeCorrect, VotesHold, PTL

\* Wins are by quorum: whatever campaigns of a node are still running, a late
\* answer is not counted for another one, so the votes a leader was elected by
\* were cast in its term, for any cluster.
THEOREM WinsAreByQuorum == Spec => []LeadersHaveQuorum
<1>1. VotingInv => LeadersHaveQuorum
  BY DEF VotingInv
<1> QED
  BY <1>1, VotesHold, PTL

-----------------------------------------------------------------------------
(* Steps that make no leader, no round and no leader hint *)

\* A hint survives only within its term, and so does a Leader.
KeepsHints ==
    \A p \in Node :
        /\ leader_id'[p] # None =>
               leader_id'[p] = leader_id[p] /\ current_term'[p] = current_term[p]
        /\ role'[p] = "Leader" =>
               role[p] = "Leader" /\ current_term'[p] = current_term[p]

\* Rounds and AppendEntries in flight speak for a sender and a term that
\* rounds or AppendEntries in flight spoke for before.
KeepsVoices ==
    \A q \in rpcs' : q.type \in {"ReplicationRound", "AppendEntriesRequest"} =>
        \E r \in rpcs : /\ r.type \in {"ReplicationRound", "AppendEntriesRequest"}
                        /\ r.src = q.src /\ r.term = q.term

\* Such steps preserve the hint invariant.
LEMMA HintKept ==
    ASSUME HintInv, KeepsHints, KeepsVoices, elected \subseteq elected'
    PROVE  HintInv'
<1>1. LeaderHintIsElected'
  BY DEF HintInv, LeaderHintIsElected, KeepsHints
<1>2. SpeaksAsElected'
  BY DEF HintInv, SpeaksAsElected, KeepsHints, KeepsVoices
<1> QED
  BY <1>1, <1>2 DEF HintInv

\* Becoming a Follower without a leader, or halting, keeps hints and leaders.
LEMMA FollowerKeepsHints ==
    ASSUME TypeOK, NEW n \in Node, NEW t \in Nat, into_follower(n, t, None)
    PROVE  KeepsHints
<1>1. CASE t < current_term[n] /\ apply_fatal(n)
  BY <1>1 DEF apply_fatal, hardState, KeepsHints, TypeOK
<1>2. CASE /\ current_term' = [current_term EXCEPT ![n] = t]
           /\ FollowerState(n, None)
  BY <1>2 DEF FollowerState, KeepsHints, TypeOK
<1> QED
  BY <1>1, <1>2 DEF into_follower

\* A new candidacy keeps both, too.
LEMMA CampaignKeepsHints ==
    ASSUME TypeOK, NEW n \in Node, NEW others, StartCampaign(n, others),
           \A q \in others : q.type \in {"ReplicationRound", "AppendEntriesRequest"} =>
               \E r \in rpcs : /\ r.type \in {"ReplicationRound", "AppendEntriesRequest"}
                               /\ r.src = q.src /\ r.term = q.term
    PROVE  KeepsHints /\ KeepsVoices
<1>1. KeepsHints
  <2>1. CASE role[n] = "Leader"
    BY <2>1 DEF StartCampaign, into_candidate, hardState, roleState, KeepsHints
  <2>2. CASE role[n] # "Leader"
    BY <2>2 DEF StartCampaign, into_candidate, KeepsHints, TypeOK
  <2> QED
    BY <2>1, <2>2
<1>2. KeepsVoices
  BY DEF StartCampaign, VoteRequests, KeepsVoices
<1> QED
  BY <1>1, <1>2

\* Winning an election makes a leader of a term it is recorded to have won.
LEMMA LeaderSpeaks ==
    ASSUME TypeOK, HintInv, NEW n \in Node, into_leader(n), KeepsVoices
    PROVE  HintInv'
<1> USE DEF hardState
<1>1. elected \subseteq elected' /\ <<current_term[n], n>> \in elected'
  BY DEF into_leader
<1>2. LeaderHintIsElected'
  BY <1>1 DEF into_leader, HintInv, LeaderHintIsElected
<1>3. SpeaksAsElected'
  BY <1>1 DEF into_leader, HintInv, SpeaksAsElected, KeepsVoices, TypeOK
<1> QED
  BY <1>2, <1>3 DEF HintInv

\* Timers, client calls, finished campaigns and restarts.
LEMMA LocalHintStep ==
    ASSUME TypeOK, HintInv, NEW n \in Node,
           \/ Tick(n) \/ (\E k \in PreVotes : FinishPreVote(n, k))
           \/ FinishElection(n) \/ propose(n) \/ Restart(n)
    PROVE  HintInv'
<1> USE DEF hardState, roleState, logState, tasks, history
<1>1. rpcs \in SUBSET Rpc /\ current_term[n] \in Nat
  BY DEF TypeOK
<1>2. \A q \in Abandoned(n) :
        q.type \in {"ReplicationRound", "AppendEntriesRequest"} =>
          \E r \in rpcs : /\ r.type \in {"ReplicationRound", "AppendEntriesRequest"}
                          /\ r.src = q.src /\ r.term = q.term
  BY <1>1, LeftBehind
<1>3. CASE StartPreVote(n)
  <2>1. KeepsHints
    BY <1>3 DEF StartPreVote, KeepsHints, TypeOK
  <2>2. KeepsVoices
    BY <1>3 DEF StartPreVote, KeepsVoices
  <2> QED
    BY <1>3, <2>1, <2>2, HintKept DEF StartPreVote
<1>4. CASE StartElection(n)
  BY <1>4, CampaignKeepsHints, HintKept DEF StartElection
<1>5. CASE DecideStepDown(n)
  BY <1>5, HintKept DEF DecideStepDown, KeepsHints, KeepsVoices
<1>6. CASE StepDown(n)
  <2>1. KeepsHints
    BY <1>1, <1>6, FollowerKeepsHints DEF StepDown
  <2> QED
    BY <1>6, <2>1, HintKept DEF StepDown, KeepsVoices
<1>7. CASE SendHeartbeat(n)
  <2>1. <<current_term[n], n>> \in elected
    BY <1>7 DEF SendHeartbeat, HintInv, SpeaksAsElected
  <2>2. SpeaksAsElected'
    BY <1>7, <2>1 DEF SendHeartbeat, HintInv, SpeaksAsElected
  <2> QED
    BY <1>7, <2>2 DEF SendHeartbeat, HintInv, LeaderHintIsElected
<1>8. CASE \E k \in PreVotes : FinishPreVote(n, k)
  <2>1. StartCampaign(n, rpcs) /\ UNCHANGED elected
    BY <1>8 DEF FinishPreVote
  <2> QED
    BY <2>1, CampaignKeepsHints, HintKept
<1>9. CASE FinishElection(n)
  BY <1>9, LeaderSpeaks DEF FinishElection, KeepsVoices
<1>10. CASE propose(n)
  BY <1>10, HintKept DEF propose, KeepsHints, KeepsVoices
<1>11. CASE Restart(n)
  <2>1. KeepsHints
    BY <1>11 DEF Restart, Reboot, FollowerState, KeepsHints, TypeOK
  <2>2. KeepsVoices
    BY <1>2, <1>11 DEF Restart, KeepsVoices
  <2> QED
    BY <1>11, <2>1, <2>2, HintKept DEF Restart
<1> QED
  BY <1>3, <1>4, <1>5, <1>6, <1>7, <1>8, <1>9, <1>10, <1>11 DEF Tick

\* RPC handlers: a Follower takes its hint from an AppendEntries, which its
\* sender could only send as the elected leader of that term.
LEMMA DeliverHintStep ==
    ASSUME TypeOK, HintInv, NEW m \in rpcs, Deliver(m)
    PROVE  HintInv'
<1> USE DEF hardState, roleState, logState, tasks, history
<1> DEFINE n == m.dst
<1>1. /\ rpcs \in SUBSET Rpc /\ n \in Node /\ m.src \in Node /\ m.term \in Nat
  BY RpcEnds DEF TypeOK
<1>2. CASE handle_pre_vote(m)
  <2>1. KeepsVoices
    BY <1>2 DEF handle_pre_vote, Reply, KeepsVoices
  <2> QED
    BY <1>2, <2>1, HintKept DEF handle_pre_vote, KeepsHints
<1>3. CASE handle_request_vote(m)
  <2>1. PICK g : VoteReply(m, current_term'[n], g)
    BY <1>3 DEF handle_request_vote
  <2>2. KeepsVoices
    BY <2>1 DEF VoteReply, Reply, NoReply, KeepsVoices
  <2>3. KeepsHints
    <3>1. \/ /\ current_term' = [current_term EXCEPT ![n] = m.term]
             /\ FollowerState(n, None)
          \/ UNCHANGED <<current_term, role, leader_id>>
      BY <1>3 DEF handle_request_vote
    <3> QED
      BY <3>1 DEF FollowerState, KeepsHints, TypeOK
  <2> QED
    BY <1>3, <2>2, <2>3, HintKept DEF handle_request_vote
<1>4. CASE handle_append_entries(m)
  <2>1. KeepsVoices
    <3>1. ASSUME NEW t, NEW ok, NEW last, AppendReply(m, t, ok, last) PROVE KeepsVoices
      BY <3>1 DEF AppendReply, Reply, NoReply, KeepsVoices
    <3>2. NoReply(m) => KeepsVoices
      BY DEF NoReply, KeepsVoices
    <3> QED
      BY <1>4, <3>1, <3>2 DEF handle_append_entries, reconcile_log
  <2>2. CASE UNCHANGED <<hardState, roleState>>
    BY <1>4, <2>1, <2>2, HintKept DEF handle_append_entries, KeepsHints
  <2>3. CASE apply_fatal(n)
    <3>1. KeepsHints
      BY <2>3 DEF apply_fatal, KeepsHints, TypeOK
    <3> QED
      BY <1>4, <2>1, <3>1, HintKept DEF handle_append_entries
  <2>4. CASE into_follower(n, m.term, m.src) /\ m.term >= current_term[n]
    <3>1. /\ current_term' = [current_term EXCEPT ![n] = m.term]
          /\ FollowerState(n, m.src)
      BY <1>1, <2>4 DEF into_follower, TypeOK
    <3>2. <<m.term, m.src>> \in elected /\ UNCHANGED elected
      BY <1>4 DEF handle_append_entries, HintInv, SpeaksAsElected
    <3>3. LeaderHintIsElected'
      BY <3>1, <3>2 DEF FollowerState, HintInv, LeaderHintIsElected, TypeOK
    <3>4. SpeaksAsElected'
      BY <2>1, <3>1, <3>2 DEF FollowerState, HintInv, SpeaksAsElected, KeepsVoices, TypeOK
    <3> QED
      BY <3>3, <3>4 DEF HintInv
  <2> QED
    BY <1>4, <2>2, <2>3, <2>4 DEF handle_append_entries
<1> QED
  BY <1>2, <1>3, <1>4 DEF Deliver

\* Resumed tasks: a round prepared late still speaks for the term in which it
\* was captured.
LEMMA ResumeHintStep ==
    ASSUME TypeOK, HintInv, NEW m \in rpcs, Resume(m)
    PROVE  HintInv'
<1> USE DEF hardState, roleState, logState, tasks, history
<1> DEFINE n == m.dst
<1>1. /\ rpcs \in SUBSET Rpc /\ n \in Node /\ m.src \in Node /\ m.term \in Nat
  BY RpcEnds DEF TypeOK
<1>2. CASE process_pre_vote_response(m)
  <2>1. CASE into_follower(n, m.term, None) /\ rpcs' = rpcs \ PreVoteRpcs(n, m.pre_vote) /\ UNCHANGED history
    BY <1>1, <2>1, FollowerKeepsHints, HintKept DEF KeepsVoices
  <2>2. CASE StartCampaign(n, rpcs \ PreVoteRpcs(n, m.pre_vote)) /\ UNCHANGED elected
    BY <1>1, <2>2, CampaignKeepsHints, HintKept
  <2>3. CASE rpcs' = rpcs \ {m} /\ UNCHANGED <<hardState, roleState, history>>
    BY <2>3, HintKept DEF KeepsHints, KeepsVoices
  <2> QED
    BY <1>2, <2>1, <2>2, <2>3 DEF process_pre_vote_response
<1>3. CASE process_vote_response(m)
  <2>1. KeepsVoices
    <3>1. \/ rpcs' = Orphan(CampaignRpcs(n, m.campaign))
          \/ rpcs' = rpcs \ {m}
      BY <1>3 DEF process_vote_response
    <3> QED
      BY <1>1, <3>1, LeftBehind DEF KeepsVoices
  <2>2. CASE into_follower(n, m.term, None) /\ UNCHANGED elected
    BY <1>1, <2>1, <2>2, FollowerKeepsHints, HintKept
  <2>3. CASE into_leader(n)
    BY <1>1, <2>1, <2>3, LeaderSpeaks
  <2>4. CASE UNCHANGED <<hardState, role, leader_id, elected>>
    BY <2>1, <2>4, HintKept DEF KeepsHints
  <2> QED
    BY <1>3, <2>2, <2>3, <2>4 DEF process_vote_response
<1>4. CASE PrepareReplication(m)
  <2>1. KeepsVoices
    BY <1>4 DEF PrepareReplication, build_append_entries_request, KeepsVoices
  <2> QED
    BY <1>4, <2>1, HintKept DEF PrepareReplication, KeepsHints
<1>5. CASE process_replication_response(m)
  <2>1. KeepsVoices /\ UNCHANGED elected
    BY <1>5 DEF process_replication_response, KeepsVoices
  <2>2. KeepsHints
    <3>1. into_follower(n, m.term, None) => KeepsHints
      BY <1>1, FollowerKeepsHints
    <3>2. UNCHANGED <<hardState, role, leader_id>> => KeepsHints
      BY DEF KeepsHints
    <3> QED
      BY <1>5, <3>1, <3>2 DEF process_replication_response
  <2> QED
    BY <2>1, <2>2, HintKept
<1> QED
  BY <1>2, <1>3, <1>4, <1>5 DEF Resume

\* Every step preserves the hint invariant.
LEMMA HintStep ==
    TypeOK /\ HintInv /\ [Next]_vars => HintInv'
<1> SUFFICES ASSUME TypeOK, HintInv, [Next]_vars PROVE HintInv'
  OBVIOUS
<1> USE DEF hardState, roleState, logState, tasks, history
<1>1. ASSUME NEW m \in rpcs, CrashInVote(m) \/ CrashInAppend(m) PROVE HintInv'
  <2>1. m.dst \in Node /\ rpcs \in SUBSET Rpc
    BY RpcEnds DEF TypeOK
  <2>2. KeepsHints
    <3>1. /\ current_term' = [current_term EXCEPT ![m.dst] = m.term]
          /\ FollowerState(m.dst, None)
      BY <1>1 DEF CrashInVote, CrashInAppend, Reboot
    <3> QED
      BY <2>1, <3>1 DEF FollowerState, KeepsHints, TypeOK
  <2>3. KeepsVoices
    BY <1>1, <2>1, LeftBehind DEF CrashInVote, CrashInAppend, KeepsVoices
  <2> QED
    BY <1>1, <2>2, <2>3, HintKept DEF CrashInVote, CrashInAppend
<1>2. CASE UNCHANGED vars
  BY <1>2, HintKept DEF vars, KeepsHints, KeepsVoices
<1> QED
  BY <1>1, <1>2, LocalHintStep, DeliverHintStep, ResumeHintStep DEF Next

\* A leader hint always names the node that won the term it is kept in,
\* although a round may be prepared and delivered long after it was captured.
THEOREM HintsNameElectedLeaders == Spec => []LeaderHintIsElected
<1>1. Init => HintInv
  BY DEF Init, HintInv, LeaderHintIsElected, SpeaksAsElected
<1>2. TypeOK /\ HintInv /\ [Next]_vars => HintInv'
  BY HintStep
<1>3. HintInv => LeaderHintIsElected
  BY DEF HintInv
<1> QED
  BY <1>1, <1>2, <1>3, TypeCorrect, PTL DEF Spec
=============================================================================
