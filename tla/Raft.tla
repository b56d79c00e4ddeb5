-------------------------------- MODULE Raft --------------------------------
(***************************************************************************)
(* The consensus core of crates/raft-engine: the roles of LogicalNode      *)
(* (engine.rs, node/), the tick loop and the asynchronous campaigns and    *)
(* replication rounds it spawns (consensus/), and the RPCs between nodes.  *)
(*                                                                         *)
(* Everything a task does while it holds the ConsensusShell's write lock   *)
(* is one action; everything it carries across an unlock or an await is a  *)
(* record in the variable rpcs, so a task can be overtaken at exactly the  *)
(* points where the code can be.  Log compaction and InstallSnapshot are   *)
(* not part of this module: the log starts at index 1.                     *)
(*                                                                         *)
(* Time is abstracted: an election, pre-vote or heartbeat timer may expire *)
(* at any moment.  A log entry is the term in which it was proposed; with  *)
(* its index that identifies the command.                                  *)
(***************************************************************************)
EXTENDS Integers, Sequences, FiniteSets, FiniteSetsExt

CONSTANTS
    Node,           \* the static cluster membership
    None,           \* Option::None for voted_for and leader_id
    MaxTerm,        \* bound: no election starts beyond this term
    MaxLog,         \* bound: longest log a leader proposes into
    MaxInFlight,    \* bound: RPCs (and round parameters) in flight
    MaxRivals,      \* bound: nodes campaigning at the same time
    MaxPreVotes,    \* bound: pre-vote campaigns of one node running together
    MaxStepDowns,   \* bound: StepDowns pending at the same time
    MaxRestarts     \* bound: crashes of all nodes together

ASSUME NodeAssumption ==
    /\ IsFiniteSet(Node)
    /\ Node # {}
    /\ None \notin Node

ASSUME BoundAssumption ==
    /\ MaxTerm \in Nat
    /\ MaxLog \in Nat
    /\ MaxInFlight \in Nat
    /\ MaxRivals \in Nat
    /\ MaxPreVotes \in Nat
    /\ MaxStepDowns \in Nat
    /\ MaxRestarts \in Nat

VARIABLES
    \* Persisted by SledStorage, one flushed write per mutation.
    current_term, voted_for, log, last_committed,
    \* RoleState and the fields its variants carry.  Fields of a role the
    \* node does not have hold their default.
    role, leader_id, votes_received, next_index, match_index,
    \* The tallies of a node's pre-vote campaigns: each is a task of its own,
    \* which may outlive the role and the term it was started in.
    pre_votes_granted,
    \* TRUE between the two lock acquisitions of TickAction::StepDown.
    step_down,
    \* RPCs and round parameters in flight.
    rpcs,
    \* Crashes so far.
    restarts,
    \* History: every vote persisted (voter, term, candidate), every
    \* leadership won (term, node) with its log as far as it led, every commit
    \* by a leader (index, term).
    ballots, elected, leader_log, decided

hardState == <<current_term, voted_for>>
roleState == <<role, leader_id, votes_received, next_index, match_index>>
logState  == <<log, last_committed>>
tasks     == <<pre_votes_granted, step_down>>
history   == <<ballots, elected, leader_log, decided>>
vars == <<hardState, logState, roleState, tasks, rpcs, restarts, history>>

-----------------------------------------------------------------------------
(* Logs and quorums *)

Peers(n) == Node \ {n}

\* Variant: one vote too many.
QuorumTooLarge == Cardinality(Node) \div 2 + 2

\* (total_nodes / 2) + 1
Quorum == Cardinality(Node) \div 2 + 1

last_log_term(lg) == IF lg = <<>> THEN 0 ELSE lg[Len(lg)]

\* Term 0 stands for "no entry at this index".
get_term_at(lg, i) == IF i \in 1..Len(lg) THEN lg[i] ELSE 0

is_log_up_to_date(lg, m) ==
    \/ m.last_term > last_log_term(lg)
    \/ m.last_term = last_log_term(lg) /\ m.last_index >= Len(lg)

\* Variant: the term at prev is not compared.
verify_log_consistency_by_length(lg, prev, prevTerm) == prev <= Len(lg)

verify_log_consistency(lg, prev, prevTerm) ==
    prev = 0 \/ (prev <= Len(lg) /\ get_term_at(lg, prev) = prevTerm)

\* Conflict detection: the log up to the first entry that disagrees.
\* Variant: never truncates.
TruncateNothing(lg, prev, entries) == lg

TruncateConflicts(lg, prev, entries) ==
    LET clash == {i \in (prev + 1)..(prev + Len(entries)) :
                    get_term_at(lg, i) \notin {0, entries[i - prev]}}
    IN  IF clash = {} THEN lg ELSE SubSeq(lg, 1, Min(clash) - 1)

\* The entries beyond the kept log are appended.
Reconciled(lg, prev, entries) ==
    LET kept == TruncateConflicts(lg, prev, entries)
    IN  kept \o SubSeq(entries, Len(kept) - prev + 1, Len(entries))

\* commit_advance of reconcile_log, given the length of the reconciled log.
\* Variant: not guarded against an older leader_commit.
commit_advance_unguarded(committed, leader_commit, len) == Min({leader_commit, len})

commit_advance(committed, leader_commit, len) ==
    IF leader_commit > committed THEN Min({leader_commit, len}) ELSE committed

\* match_indices sorted, at position (len - 1) / 2.
median_position == (Cardinality(Node) - 1) \div 2

IsSortedMedian(v, indices) ==
    /\ Cardinality({p \in Node : indices[p] < v}) <= median_position
    /\ Cardinality({p \in Node : indices[p] <= v}) > median_position

-----------------------------------------------------------------------------
(* RPCs in flight *)

PreVotes == 1..MaxPreVotes

\* pre_vote: the campaign of src (of dst, in a response) that asks.
PreVoteRequest == [type : {"PreVoteRequest"}, src : Node, dst : Node,
                   pre_vote : PreVotes, term : Nat, last_index : Nat,
                   last_term : Nat]
PreVoteResponse == [type : {"PreVoteResponse"}, src : Node, dst : Node,
                    pre_vote : PreVotes, term : Nat, vote_granted : BOOLEAN]
\* awaited: some task of src still polls the response.
RequestVoteRequest == [type : {"RequestVoteRequest"}, src : Node, dst : Node,
                       term : Nat, last_index : Nat, last_term : Nat,
                       awaited : BOOLEAN]
\* campaign: the term the candidate's task was started with.
RequestVoteResponse == [type : {"RequestVoteResponse"}, src : Node, dst : Node,
                        campaign : Nat, term : Nat, vote_granted : BOOLEAN]
\* ReplicationRoundParams on their way to the per-peer preparation.
ReplicationRound == [type : {"ReplicationRound"}, src : Node, dst : Node,
                     term : Nat, last_committed : Nat]
AppendEntriesRequest == [type : {"AppendEntriesRequest"}, src : Node, dst : Node,
                         term : Nat, prev_index : Nat, prev_term : Nat,
                         entries : Seq(Nat), leader_commit : Nat,
                         awaited : BOOLEAN]
\* round, sent_prev_index, sent_len: what the leader's task remembers.
AppendEntriesResponse == [type : {"AppendEntriesResponse"}, src : Node, dst : Node,
                          round : Nat, sent_prev_index : Nat, sent_len : Nat,
                          term : Nat, success : BOOLEAN, last_log_index : Nat]

Rpc == PreVoteRequest \cup PreVoteResponse
       \cup RequestVoteRequest \cup RequestVoteResponse
       \cup ReplicationRound
       \cup AppendEntriesRequest \cup AppendEntriesResponse

Fits(S) == Cardinality(S) <= MaxInFlight

\* A handler consumes the request.  Its response reaches the awaiting task,
\* or is lost: a Status error, which every caller ignores.  A call that runs
\* into its timeout is one whose response is lost, however late the request
\* gets to the peer; no timer of the caller waits for its calls to end.
Reply(req, resp) ==
    \/ rpcs' = (rpcs \ {req}) \cup {resp}
    \/ rpcs' = rpcs \ {req}

NoReply(req) == rpcs' = rpcs \ {req}

\* The task behind these requests and responses of one caller is gone: the
\* responses are dropped, requests already sent may still reach the peer.
Orphan(gone) ==
    (rpcs \ gone)
    \cup {[m EXCEPT !.awaited = FALSE] :
            m \in {q \in gone : q.type \in {"RequestVoteRequest",
                                            "AppendEntriesRequest"}}}

\* The RPCs of n's pre-vote campaign k (a read-only probe at the peer), and
\* those its election campaign of term t still awaits.
PreVoteRpcs(n, k) ==
    {m \in rpcs : \/ m.type = "PreVoteRequest" /\ m.src = n /\ m.pre_vote = k
                  \/ m.type = "PreVoteResponse" /\ m.dst = n /\ m.pre_vote = k}

CampaignRpcs(n, t) ==
    {m \in rpcs : \/ m.type = "RequestVoteRequest" /\ m.src = n /\ m.term = t
                     /\ m.awaited
                  \/ m.type = "RequestVoteResponse" /\ m.dst = n /\ m.campaign = t}

\* Everything a task of n awaits, or is about to process.
AwaitedBy(n) ==
    {m \in rpcs : \/ m.type \in {"PreVoteRequest", "RequestVoteRequest",
                                 "AppendEntriesRequest"} /\ m.src = n
                  \/ m.type \in {"PreVoteResponse", "RequestVoteResponse",
                                 "AppendEntriesResponse"} /\ m.dst = n}

-----------------------------------------------------------------------------
(* Role transitions of LogicalNode.  Each fixes hardState' and roleState'. *)

\* The fields of Candidate and Leader disappear with the role.
DropRoleFields(n) ==
    /\ votes_received' = [votes_received EXCEPT ![n] = {}]
    /\ next_index' = [next_index EXCEPT ![n] = [p \in Node |-> 1]]
    /\ match_index' = [match_index EXCEPT ![n] = [p \in Node |-> 0]]

\* A new FollowerState.  Variant: the old leader hint survives.
FollowerStateKeepingHint(n, l) ==
    /\ role' = [role EXCEPT ![n] = "Follower"]
    /\ leader_id' = [leader_id EXCEPT ![n] = IF l = None THEN @ ELSE l]
    /\ DropRoleFields(n)

FollowerState(n, l) ==
    /\ role' = [role EXCEPT ![n] = "Follower"]
    /\ leader_id' = [leader_id EXCEPT ![n] = l]
    /\ DropRoleFields(n)

\* apply_fatal: the node stays in memory, refusing everything.
apply_fatal(n) ==
    /\ role' = [role EXCEPT ![n] = "Poisoned"]
    /\ leader_id' = [leader_id EXCEPT ![n] = None]
    /\ DropRoleFields(n)
    /\ UNCHANGED hardState

\* advance_term refuses a term below the current one, which is fatal.
into_follower(n, t, l) ==
    \/ /\ t < current_term[n]
       /\ apply_fatal(n)
    \/ /\ t >= current_term[n]
       /\ current_term' = [current_term EXCEPT ![n] = t]
       /\ voted_for' = [voted_for EXCEPT ![n] =
                            IF t > current_term[n] THEN None ELSE @]
       /\ FollowerState(n, l)

\* From Follower, PreCandidate or Candidate alike: next term, vote for self.
\* A Leader stays as it is.
into_candidate(n) ==
    \/ /\ role[n] = "Leader"
       /\ UNCHANGED <<hardState, roleState, ballots>>
    \/ /\ role[n] # "Leader"
       /\ current_term' = [current_term EXCEPT ![n] = @ + 1]
       /\ voted_for' = [voted_for EXCEPT ![n] = n]
       /\ ballots' = ballots \cup {<<n, current_term[n] + 1, n>>}
       /\ role' = [role EXCEPT ![n] = "Candidate"]
       /\ leader_id' = [leader_id EXCEPT ![n] = None]
       /\ votes_received' = [votes_received EXCEPT ![n] = {n}]
       /\ UNCHANGED <<next_index, match_index>>

\* LeaderState::new.  Variant: the last entry itself.
initial_next_index_last(n) == Len(log[n])

initial_next_index(n) == Len(log[n]) + 1

into_leader(n) ==
    /\ role' = [role EXCEPT ![n] = "Leader"]
    /\ votes_received' = [votes_received EXCEPT ![n] = {}]
    /\ next_index' = [next_index EXCEPT ![n] = [p \in Node |-> initial_next_index(n)]]
    /\ match_index' = [match_index EXCEPT ![n] = [p \in Node |-> 0]]
    /\ elected' = elected \cup {<<current_term[n], n>>}
    /\ leader_log' = [t \in DOMAIN leader_log \cup {current_term[n]} |->
                         IF t = current_term[n] THEN log[n] ELSE leader_log[t]]
    /\ UNCHANGED <<hardState, leader_id>>

-----------------------------------------------------------------------------
(* The tick loop *)

VoteRequests(n, t, S) ==
    {[type |-> "RequestVoteRequest", src |-> n, dst |-> p, term |-> t,
      last_index |-> Len(log[n]), last_term |-> last_log_term(log[n]),
      awaited |-> TRUE] : p \in S}

\* into_candidate and the hand-off to initiate_election, in whatever term the
\* node then has: a node that leads asks for votes in the term it leads.
\* others: what else is in flight.  S: the peers the broadcast reaches.  Two
\* campaigns of one term (only a leader can start the second) await answers
\* one after the other.
StartCampaign(n, others) ==
    /\ role[n] = "Leader" \/ current_term[n] < MaxTerm
    /\ into_candidate(n)
    /\ CampaignRpcs(n, current_term'[n]) = {}
    /\ \E S \in SUBSET Peers(n) :
         /\ rpcs' = others \cup VoteRequests(n, current_term'[n], S)
         /\ Fits(rpcs')

\* Campaign k of n is over, or has not been used: no call of it is awaited and
\* its tally decides nothing.
PreVoteOver(n, k) ==
    PreVoteRpcs(n, k) = {} /\ Cardinality(pre_votes_granted[n][k]) < Quorum

\* Follower times out: TickAction::StartPreVote spawns a campaign, whether or
\* not an earlier one still runs.  The tick loop is busy while a StepDown is
\* pending.
StartPreVote(n) ==
    /\ role[n] = "Follower"
    /\ current_term[n] < MaxTerm
    /\ Cardinality({p \in Node : role[p] \in {"PreCandidate", "Candidate"}}) < MaxRivals
    /\ ~step_down[n]
    /\ role' = [role EXCEPT ![n] = "PreCandidate"]
    /\ leader_id' = [leader_id EXCEPT ![n] = None]
    /\ \E k \in PreVotes :
         /\ PreVoteOver(n, k) /\ \A j \in 1..(k - 1) : ~PreVoteOver(n, j)
         /\ pre_votes_granted' = [pre_votes_granted EXCEPT ![n][k] = {n}]
         /\ \E S \in SUBSET Peers(n) :
              /\ rpcs' = rpcs \cup
                         {[type |-> "PreVoteRequest", src |-> n, dst |-> p,
                           pre_vote |-> k, term |-> current_term[n],
                           last_index |-> Len(log[n]),
                           last_term |-> last_log_term(log[n])] : p \in S}
              /\ Fits(rpcs')
    /\ UNCHANGED <<hardState, logState, votes_received, next_index, match_index,
                   step_down, restarts, history>>

\* Candidate times out: TickAction::StartElection.
StartElection(n) ==
    /\ role[n] = "Candidate"
    /\ ~step_down[n]
    /\ StartCampaign(n, rpcs)
    /\ UNCHANGED <<logState, tasks, restarts, elected, leader_log, decided>>

\* PreCandidate times out: the tick decides TickAction::StepDown and unlocks.
DecideStepDown(n) ==
    /\ role[n] = "PreCandidate"
    /\ ~step_down[n]
    /\ Cardinality({p \in Node : step_down[p]}) < MaxStepDowns
    /\ step_down' = [step_down EXCEPT ![n] = TRUE]
    /\ UNCHANGED <<hardState, logState, roleState, pre_votes_granted, rpcs,
                   restarts, history>>

\* The second lock acquisition: whatever the role is by now, become Follower
\* of the current term.
StepDown(n) ==
    /\ step_down[n]
    /\ role[n] # "Poisoned"
    /\ step_down' = [step_down EXCEPT ![n] = FALSE]
    /\ into_follower(n, current_term[n], None)
    /\ UNCHANGED <<logState, pre_votes_granted, rpcs, restarts, history>>

\* Leader's heartbeat interval: TickAction::SendHeartbeat captures the round's
\* parameters; verify_leadership_quorum does the same outside the tick loop.
\* S: the peers for which the round gets beyond the capture.
SendHeartbeat(n) ==
    /\ role[n] = "Leader"
    /\ \E S \in SUBSET Peers(n) \ {{}} :
         /\ rpcs' = rpcs \cup
                    {[type |-> "ReplicationRound", src |-> n, dst |-> p,
                      term |-> current_term[n],
                      last_committed |-> last_committed[n]] : p \in S}
         /\ Fits(rpcs')
    /\ UNCHANGED <<hardState, logState, roleState, tasks, restarts, history>>

-----------------------------------------------------------------------------
(* Server side: the RPC handlers, under the write lock.  A poisoned node     *)
(* answers nothing.                                                          *)

\* Read-only: only a Follower grants, and only the log is compared.
handle_pre_vote(m) ==
    LET n == m.dst
        granted == /\ role[n] = "Follower"
                   /\ m.term >= current_term[n]
                   /\ is_log_up_to_date(log[n], m)
    IN  /\ m.type = "PreVoteRequest"
        /\ role[n] # "Poisoned"
        /\ Reply(m, [type |-> "PreVoteResponse", src |-> n, dst |-> m.src,
                     pre_vote |-> m.pre_vote, term |-> current_term[n], vote_granted |-> granted])
        /\ UNCHANGED <<hardState, logState, roleState, tasks, restarts, history>>

VoteReply(m, t, granted) ==
    IF m.awaited
    THEN Reply(m, [type |-> "RequestVoteResponse", src |-> m.dst, dst |-> m.src,
                   campaign |-> m.term, term |-> t, vote_granted |-> granted])
    ELSE NoReply(m)

\* attempt_grant_vote at a node that is a Follower with vote v in the
\* candidate's term.  Variant: an earlier vote of the term is forgotten.
attempt_grant_vote_again(m, v) == is_log_up_to_date(log[m.dst], m)

attempt_grant_vote(m, v) ==
    /\ v \in {None, m.src}
    /\ is_log_up_to_date(log[m.dst], m)

handle_request_vote(m) ==
    LET n == m.dst
        newer == m.term > current_term[n]
        granted == \/ newer /\ attempt_grant_vote(m, None)
                   \/ /\ m.term = current_term[n]
                      /\ role[n] = "Follower"
                      /\ attempt_grant_vote(m, voted_for[n])
        vote == IF granted THEN m.src ELSE IF newer THEN None ELSE voted_for[n]
    IN  /\ m.type = "RequestVoteRequest"
        /\ role[n] # "Poisoned"
        /\ IF newer
           THEN /\ current_term' = [current_term EXCEPT ![n] = m.term]
                /\ FollowerState(n, None)
           ELSE UNCHANGED <<current_term, roleState>>
        /\ voted_for' = [voted_for EXCEPT ![n] = vote]
        /\ ballots' = IF granted THEN ballots \cup {<<n, m.term, m.src>>} ELSE ballots
        /\ VoteReply(m, current_term'[n], granted)
        /\ UNCHANGED <<logState, tasks, restarts, elected, leader_log, decided>>

AppendReply(m, t, ok, last) ==
    IF m.awaited
    THEN Reply(m, [type |-> "AppendEntriesResponse", src |-> m.dst, dst |-> m.src,
                   round |-> m.term, sent_prev_index |-> m.prev_index,
                   sent_len |-> Len(m.entries),
                   term |-> t, success |-> ok, last_log_index |-> last])
    ELSE NoReply(m)

\* reconcile_log of a Follower: truncate, append and advance the commit index
\* up to the end of the reconciled log.
reconcile_log(n, m) ==
    IF verify_log_consistency(log[n], m.prev_index, m.prev_term)
    THEN LET new == Reconciled(log[n], m.prev_index, m.entries)
         IN  /\ log' = [log EXCEPT ![n] = new]
             /\ last_committed' = [last_committed EXCEPT ![n] =
                    commit_advance(@, m.leader_commit, Len(new))]
             /\ AppendReply(m, m.term, TRUE, Len(new))
    ELSE /\ UNCHANGED logState
         /\ AppendReply(m, m.term, FALSE, Len(log[n]))

\* validate_leader_rpc_term, then reconcile_log.
handle_append_entries(m) ==
    LET n == m.dst
    IN  /\ m.type = "AppendEntriesRequest"
        /\ role[n] # "Poisoned"
        /\ \/ /\ m.term < current_term[n]
              /\ AppendReply(m, current_term[n], FALSE, 0)
              /\ UNCHANGED <<hardState, roleState, logState>>
           \/ /\ m.term >= current_term[n]
              /\ IF m.term = current_term[n] /\ role[n] = "Leader"
                 THEN \* a rival leader of the same term is fatal
                      /\ apply_fatal(n)
                      /\ NoReply(m)
                      /\ UNCHANGED logState
                 ELSE /\ into_follower(n, m.term, m.src)
                      /\ reconcile_log(n, m)
        /\ UNCHANGED <<tasks, restarts, history>>

-----------------------------------------------------------------------------
(* Client side: the tasks that await responses *)

\* initiate_pre_vote: a higher term ends the campaign; a quorum of grants
\* turns the node into a Candidate, whatever its role is by now.
process_pre_vote_response(m) ==
    LET n == m.dst
        k == m.pre_vote
        tally == pre_votes_granted[n][k] \cup
                 (IF m.vote_granted THEN {m.src} ELSE {})
        done == [pre_votes_granted EXCEPT ![n][k] = {}]
    IN  /\ m.type = "PreVoteResponse"
        /\ role[n] # "Poisoned"
        /\ \/ /\ m.term > current_term[n]
              /\ into_follower(n, m.term, None)
              /\ pre_votes_granted' = done
              /\ rpcs' = rpcs \ PreVoteRpcs(n, k)
              /\ UNCHANGED history
           \/ /\ m.term <= current_term[n]
              /\ Cardinality(tally) >= Quorum
              /\ StartCampaign(n, rpcs \ PreVoteRpcs(n, k))
              /\ pre_votes_granted' = done
              /\ UNCHANGED <<elected, leader_log, decided>>
           \/ /\ m.term <= current_term[n]
              /\ Cardinality(tally) < Quorum
              /\ pre_votes_granted' = [pre_votes_granted EXCEPT ![n][k] = tally]
              /\ rpcs' = rpcs \ {m}
              /\ UNCHANGED <<hardState, roleState, history>>
        /\ UNCHANGED <<logState, step_down, restarts>>

\* Variant: the campaign's term is not compared.
counts_any_campaign(m) ==
    /\ m.vote_granted
    /\ role[m.dst] = "Candidate"

\* A grant is tallied if the campaign it answers is still the current one.
counts(m) ==
    /\ m.vote_granted
    /\ role[m.dst] = "Candidate"
    /\ current_term[m.dst] = m.campaign

\* The response is compared with the campaign's term, then tallied.  Both a
\* higher term and a quorum end the campaign's task.
process_vote_response(m) ==
    LET n == m.dst
        tally == votes_received[n] \cup {m.src}
    IN  /\ m.type = "RequestVoteResponse"
        /\ role[n] # "Poisoned"
        /\ \/ /\ m.term > m.campaign
              /\ into_follower(n, m.term, None)
              /\ rpcs' = Orphan(CampaignRpcs(n, m.campaign))
              /\ UNCHANGED <<elected, leader_log>>
           \/ /\ m.term <= m.campaign
              /\ counts(m) /\ Cardinality(tally) >= Quorum
              /\ into_leader(n)
              /\ rpcs' = Orphan(CampaignRpcs(n, m.campaign))
           \/ /\ m.term <= m.campaign
              /\ counts(m) /\ Cardinality(tally) < Quorum
              /\ votes_received' = [votes_received EXCEPT ![n] = tally]
              /\ rpcs' = rpcs \ {m}
              /\ UNCHANGED <<hardState, role, leader_id, next_index, match_index,
                             elected, leader_log>>
           \/ /\ m.term <= m.campaign
              /\ ~counts(m)
              /\ rpcs' = rpcs \ {m}
              /\ UNCHANGED <<hardState, roleState, elected, leader_log>>
        /\ UNCHANGED <<logState, tasks, restarts, ballots, decided>>

\* The stream of a campaign ends without a response having decided it: with
\* no peers the node's own vote is the quorum (single-node cluster).
FinishPreVote(n, k) ==
    /\ Cardinality(pre_votes_granted[n][k]) >= Quorum
    /\ role[n] # "Poisoned"
    /\ StartCampaign(n, rpcs)
    /\ pre_votes_granted' = [pre_votes_granted EXCEPT ![n][k] = {}]
    /\ UNCHANGED <<logState, step_down, restarts, elected, leader_log, decided>>

FinishElection(n) ==
    /\ role[n] = "Candidate"
    /\ Cardinality(votes_received[n]) >= Quorum
    /\ into_leader(n)
    /\ UNCHANGED <<logState, tasks, rpcs, restarts, ballots, decided>>

-----------------------------------------------------------------------------
(* Replication *)

\* LocalRaftHandle::propose.
propose(n) ==
    /\ role[n] = "Leader"
    /\ Len(log[n]) < MaxLog
    /\ log' = [log EXCEPT ![n] = Append(@, current_term[n])]
    /\ leader_log' = [leader_log EXCEPT ![current_term[n]] = log'[n]]
    /\ UNCHANGED <<hardState, last_committed, roleState, tasks, rpcs, restarts,
                   ballots, elected, decided>>

build_append_entries_request(n, p, round) ==
    LET next == next_index[n][p]
    IN  [type |-> "AppendEntriesRequest", src |-> n, dst |-> p, term |-> round.term,
         prev_index |-> next - 1, prev_term |-> get_term_at(log[n], next - 1),
         entries |-> SubSeq(log[n], next, Len(log[n])),
         leader_commit |-> round.last_committed, awaited |-> TRUE]

\* prepare_and_replicate_to_peer locks again: it checks that the node leads,
\* not that it leads in the round's term.
PrepareReplication(m) ==
    LET n == m.src
    IN  /\ m.type = "ReplicationRound"
        /\ role[n] # "Poisoned"
        /\ rpcs' = (rpcs \ {m}) \cup
                   (IF role[n] = "Leader"
                    THEN {build_append_entries_request(n, m.dst, m)} ELSE {})
        /\ UNCHANGED <<hardState, logState, roleState, tasks, restarts, history>>

\* Only an entry of the leader's own term is counted.  Variant: any entry.
commits_any(n, i) == i > last_committed[n]

commits(n, i) ==
    /\ i > last_committed[n]
    /\ get_term_at(log[n], i) = current_term[n]

\* update_leader_last_committed, given the new match_index of n.
update_leader_last_committed(n, match) ==
    LET match_indices == [match EXCEPT ![n] = Len(log[n])]
    IN  \E median \in {match_indices[p] : p \in Node} :
            /\ IsSortedMedian(median, match_indices)
            /\ IF commits(n, median)
               THEN /\ last_committed' = [last_committed EXCEPT ![n] = median]
                    /\ decided' = decided \cup {<<median, get_term_at(log[n], median)>>}
               ELSE UNCHANGED <<last_committed, decided>>

\* next_index after a rejected AppendEntries.  Variant: left alone.
BackoffNone(next, last_log_index) == next

Backoff(next, last_log_index) ==
    IF last_log_index > 0 THEN Min({next, last_log_index + 1})
                          ELSE Max({next - 1, 1})

\* The AppendEntries arm of process_replication_response.
ReconcileIndices(n, m) ==
    LET p == m.src
        new_match == m.sent_prev_index + m.sent_len
    IN  \/ /\ m.success /\ new_match > match_index[n][p]
           /\ next_index' = [next_index EXCEPT ![n][p] = new_match + 1]
           /\ match_index' = [match_index EXCEPT ![n][p] = new_match]
           /\ update_leader_last_committed(n, [match_index[n] EXCEPT ![p] = new_match])
        \/ /\ m.success /\ new_match <= match_index[n][p]
           /\ UNCHANGED <<next_index, match_index, last_committed, decided>>
        \/ /\ ~m.success
           /\ next_index' = [next_index EXCEPT ![n][p] = Backoff(@, m.last_log_index)]
           /\ UNCHANGED <<match_index, last_committed, decided>>

\* The response is compared with the round's term, then used if the node
\* still leads in that term.
process_replication_response(m) ==
    LET n == m.dst
        leads == role[n] = "Leader" /\ current_term[n] = m.round
    IN  /\ m.type = "AppendEntriesResponse"
        /\ role[n] # "Poisoned"
        /\ rpcs' = rpcs \ {m}
        /\ \/ /\ m.term > m.round
              /\ into_follower(n, m.term, None)
              /\ UNCHANGED <<last_committed, decided>>
           \/ /\ m.term <= m.round /\ leads
              /\ ReconcileIndices(n, m)
              /\ UNCHANGED <<hardState, role, leader_id, votes_received>>
           \/ /\ m.term <= m.round /\ ~leads
              /\ UNCHANGED <<hardState, roleState, last_committed, decided>>
        /\ UNCHANGED <<log, tasks, restarts, ballots, elected, leader_log>>

-----------------------------------------------------------------------------
(* Crashes *)

\* Everything n's tasks carry is lost; its requests may still be delivered.
Abandoned(n) ==
    {m \in Orphan(AwaitedBy(n)) : m.type # "ReplicationRound" \/ m.src # n}

\* LogicalNode::try_new on the persisted state.
Reboot(n) ==
    /\ restarts < MaxRestarts
    /\ restarts' = restarts + 1
    /\ FollowerState(n, None)
    /\ pre_votes_granted' = [pre_votes_granted EXCEPT ![n] = [k \in PreVotes |-> {}]]
    /\ step_down' = [step_down EXCEPT ![n] = FALSE]

\* A crash between two lock acquisitions.
Restart(n) ==
    /\ Reboot(n)
    /\ rpcs' = Abandoned(n)
    /\ UNCHANGED <<hardState, logState, history>>

\* A crash inside handle_request_vote, after advance_term was flushed and
\* before persist_vote was.
CrashInVote(m) ==
    LET n == m.dst
    IN  /\ m.type = "RequestVoteRequest"
        /\ role[n] # "Poisoned"
        /\ m.term > current_term[n]
        /\ Reboot(n)
        /\ current_term' = [current_term EXCEPT ![n] = m.term]
        /\ voted_for' = [voted_for EXCEPT ![n] = None]
        /\ rpcs' = Abandoned(n) \ {m}
        /\ UNCHANGED <<logState, history>>

\* A crash inside handle_append_entries: after advance_term, and perhaps after
\* truncate_log or after the batch of entries (the write that precedes the
\* commit index in append_entries_and_advance_commit) reached the disk.
CrashInAppend(m) ==
    LET n == m.dst
        cut == TruncateConflicts(log[n], m.prev_index, m.entries)
        full == Reconciled(log[n], m.prev_index, m.entries)
    IN  /\ m.type = "AppendEntriesRequest"
        /\ role[n] # "Poisoned"
        /\ m.term >= current_term[n]
        /\ m.term = current_term[n] => role[n] # "Leader"
        /\ Reboot(n)
        /\ current_term' = [current_term EXCEPT ![n] = m.term]
        /\ voted_for' = [voted_for EXCEPT ![n] =
                             IF m.term > current_term[n] THEN None ELSE @]
        /\ \/ UNCHANGED log
           \/ /\ verify_log_consistency(log[n], m.prev_index, m.prev_term)
              /\ \E kept \in {cut, full} : log' = [log EXCEPT ![n] = kept]
        /\ rpcs' = Abandoned(n) \ {m}
        /\ UNCHANGED <<last_committed, history>>

-----------------------------------------------------------------------------
Init ==
    /\ current_term = [n \in Node |-> 0]
    /\ voted_for = [n \in Node |-> None]
    /\ log = [n \in Node |-> <<>>]
    /\ last_committed = [n \in Node |-> 0]
    /\ role = [n \in Node |-> "Follower"]
    /\ leader_id = [n \in Node |-> None]
    /\ votes_received = [n \in Node |-> {}]
    /\ next_index = [n \in Node |-> [p \in Node |-> 1]]
    /\ match_index = [n \in Node |-> [p \in Node |-> 0]]
    /\ pre_votes_granted = [n \in Node |-> [k \in PreVotes |-> {}]]
    /\ step_down = [n \in Node |-> FALSE]
    /\ rpcs = {}
    /\ restarts = 0
    /\ ballots = {}
    /\ elected = {}
    /\ leader_log = [t \in {} |-> << >>]
    /\ decided = {}

Tick(n) == \/ StartPreVote(n)
           \/ StartElection(n)
           \/ DecideStepDown(n)
           \/ StepDown(n)
           \/ SendHeartbeat(n)

Deliver(m) == \/ handle_pre_vote(m)
              \/ handle_request_vote(m)
              \/ handle_append_entries(m)

Resume(m) == \/ process_pre_vote_response(m)
             \/ process_vote_response(m)
             \/ PrepareReplication(m)
             \/ process_replication_response(m)

Next ==
    \/ \E n \in Node : \/ Tick(n)
                       \/ \E k \in PreVotes : FinishPreVote(n, k)
                       \/ FinishElection(n)
                       \/ propose(n)
                       \/ Restart(n)
    \/ \E m \in rpcs : \/ Deliver(m)
                       \/ Resume(m)
                       \/ CrashInVote(m)
                       \/ CrashInAppend(m)

Spec == Init /\ [][Next]_vars

-----------------------------------------------------------------------------
(* Properties *)

Roles == {"Follower", "PreCandidate", "Candidate", "Leader", "Poisoned"}

\* Every variable has its type, and every RPC in flight is well formed.
TypeOK ==
    /\ current_term \in [Node -> Nat]
    /\ voted_for \in [Node -> Node \cup {None}]
    /\ log \in [Node -> Seq(Nat)]
    /\ last_committed \in [Node -> Nat]
    /\ role \in [Node -> Roles]
    /\ leader_id \in [Node -> Node \cup {None}]
    /\ votes_received \in [Node -> SUBSET Node]
    /\ next_index \in [Node -> [Node -> Nat \ {0}]]
    /\ match_index \in [Node -> [Node -> Nat]]
    /\ pre_votes_granted \in [Node -> [PreVotes -> SUBSET Node]]
    /\ step_down \in [Node -> BOOLEAN]
    /\ rpcs \in SUBSET Rpc
    /\ restarts \in Nat
    /\ ballots \in SUBSET (Node \X Nat \X Node)
    /\ elected \in SUBSET (Nat \X Node)
    /\ leader_log \in [DOMAIN leader_log -> Seq(Nat)] /\ DOMAIN leader_log \subseteq Nat
    /\ decided \in SUBSET (Nat \X Nat)

\* At most one node ever wins the leadership of a term (Raft 5.2), over the
\* whole history: late votes, restarted candidates and step-downs included.
ElectionSafety ==
    \A a, b \in elected : a[1] = b[1] => a[2] = b[2]

\* The leader hint a Follower redirects clients to is the node that won the
\* Follower's current term, although a round's term may be stale by the time
\* the request is built.
LeaderHintIsElected ==
    \A n \in Node : leader_id[n] # None => <<current_term[n], leader_id[n]>> \in elected

\* Every leader there ever was had the votes of a quorum, cast for it in the
\* very term it won, although the tasks of its earlier campaigns, pre-votes and
\* elections alike, may still be running and bring in answers of other terms.
LeadersHaveQuorum ==
    \A e \in elected : \E Q \in SUBSET Node :
        /\ Cardinality(Q) >= Quorum
        /\ \A v \in Q : <<v, e[1], e[2]>> \in ballots

\* Two logs that hold an entry of the same term at an index are identical up
\* to it (Raft 5.3), although a request is built from the log as it is after
\* the round's parameters were captured.
LogMatching ==
    \A a, b \in Node : \A i \in 1..Len(log[a]) :
        get_term_at(log[b], i) = log[a][i] =>
            SubSeq(log[a], 1, i) = SubSeq(log[b], 1, i)

\* What a leader committed is in the log of every leader of a later term
\* (Raft 5.4).
LeaderCompleteness ==
    \A d \in decided : \A n \in Node :
        (role[n] = "Leader" /\ current_term[n] >= d[2]) =>
            get_term_at(log[n], d[1]) = d[2]

\* No two nodes commit different entries at an index: reconcile_log may
\* advance the commit index up to the end of the local log, so everything
\* there must have been checked against the leader's.
StateMachineSafety ==
    \A a, b \in Node : \A i \in 1..Min({last_committed[a], last_committed[b]}) :
        get_term_at(log[a], i) = get_term_at(log[b], i)

\* A node's committed prefix never shrinks and is never rewritten, by any
\* step, crash or late request.
CommittedPrefixStable ==
    [][\A n \in Node :
         /\ last_committed'[n] >= last_committed[n]
         /\ \A i \in 1..last_committed[n] :
                get_term_at(log'[n], i) = get_term_at(log[n], i)]_vars

\* What a late response may do: an answer with a term above the one its task
\* was started with is a reason to become Follower, never to halt.  Storage
\* errors are not modelled and ElectionSafety excludes rival leaders, so no
\* node should be Poisoned.
NoNodeHalts == \A n \in Node : role[n] # "Poisoned"
============================================================================
