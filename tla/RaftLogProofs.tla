--------------------------- MODULE RaftLogProofs ---------------------------
(***************************************************************************)
(* Proofs about the logs of Raft: every entry of every log, and every       *)
(* AppendEntries in flight, goes back to the log of the leader that wrote   *)
(* it. LogMatching follows; the commit index is the matter of              *)
(* RaftCommitProofs.                                                        *)
(***************************************************************************)
EXTENDS RaftElectionProofs

-----------------------------------------------------------------------------
(* The inductive invariant behind LogMatching *)

\* Two logs hold the same entries up to index k.
Agree(s, t, k) ==
    /\ k <= Len(s)
    /\ k <= Len(t)
    /\ \A j \in 1..k : s[j] = t[j]

\* Entry k of lg was written by the leader of its term, which had the same
\* entries before it.
FromLeader(lg, k) ==
    /\ lg[k] \in DOMAIN leader_log
    /\ Agree(lg, leader_log[lg[k]], k)

\* There is a log for every leadership won, and a leadership is won only in a
\* term its node has reached.
LeadersRecorded ==
    /\ DOMAIN leader_log = {e[1] : e \in elected}
    /\ \A e \in elected : 0 < e[1] /\ e[1] <= current_term[e[2]]

\* A Candidate has not won its term yet.
CandidatesFresh ==
    \A n \in Node : role[n] = "Candidate" =>
        current_term[n] > 0 /\ <<current_term[n], n>> \notin elected

\* Nobody is voted for, or asks for votes, in a term it has not reached.
VotesReached ==
    /\ \A b \in ballots : b[2] <= current_term[b[3]]
    /\ \A m \in rpcs : m.type = "RequestVoteRequest" => m.term <= current_term[m.src]

\* While a campaign lasts its requests show the candidate's log.
RequestsShowLog ==
    \A m \in rpcs :
        (/\ m.type = "RequestVoteRequest"
         /\ role[m.src] = "Candidate"
         /\ m.term = current_term[m.src]) =>
            /\ m.last_index = Len(log[m.src])
            /\ m.last_term = last_log_term(log[m.src])

\* A Leader's log is the one recorded for its term.
LeaderOwnsLog ==
    \A n \in Node : role[n] = "Leader" =>
        /\ current_term[n] \in DOMAIN leader_log
        /\ leader_log[current_term[n]] = log[n]

\* Every entry of every log goes back to a leader.
LogsFromLeaders ==
    \A n \in Node : \A k \in 1..Len(log[n]) : FromLeader(log[n], k)

\* So does every entry of a leader's log, and to a leader of no later term.
LeadersFromLeaders ==
    \A t \in DOMAIN leader_log : \A k \in 1..Len(leader_log[t]) :
        FromLeader(leader_log[t], k) /\ leader_log[t][k] <= t

\* What an AppendEntries says of a log holds of lg.
SegmentOf(m, lg) ==
    /\ m.prev_index + Len(m.entries) <= Len(lg)
    /\ m.prev_index > 0 => lg[m.prev_index] = m.prev_term
    /\ \A k \in 1..Len(m.entries) : m.entries[k] = lg[m.prev_index + k]

\* An AppendEntries is a segment of a log its sender led with: in the term it
\* states, or in a later one if the round was prepared late.
RequestsFromLeaders ==
    \A m \in rpcs : m.type = "AppendEntriesRequest" =>
        \E e \in DOMAIN leader_log :
            /\ m.term <= e
            /\ e <= current_term[m.src]
            /\ SegmentOf(m, leader_log[e])

\* A successful answer acknowledges no more than such a log holds.
RepliesFromLeaders ==
    \A m \in rpcs : (m.type = "AppendEntriesResponse" /\ m.success) =>
        \E e \in DOMAIN leader_log :
            /\ m.round <= e
            /\ e <= current_term[m.dst]
            /\ m.sent_prev_index + m.sent_len <= Len(leader_log[e])

\* Late rounds can give a node entries of a term it has not reached. Such a
\* node cannot win a term before that: a quorum is past it and did not vote.
Blocked(c) ==
    (role[c] = "Candidate" /\ \E k \in 1..Len(log[c]) : log[c][k] > current_term[c]) =>
        \E V \in SUBSET Node :
            /\ Cardinality(V) >= Quorum
            /\ \A p \in V : /\ current_term[p] > current_term[c]
                            /\ <<p, current_term[c], c>> \notin ballots

FutureBlocked == \A c \in Node : Blocked(c)

\* What a Leader believes of its peers' logs lies within its own.
IndexBounds ==
    \A n \in Node : role[n] = "Leader" =>
        \A p \in Node : /\ match_index[n][p] <= Len(log[n])
                        /\ next_index[n][p] <= Len(log[n]) + 1

LineageInv ==
    /\ LeadersRecorded
    /\ CandidatesFresh
    /\ VotesReached
    /\ RequestsShowLog
    /\ LeaderOwnsLog
    /\ LogsFromLeaders
    /\ LeadersFromLeaders
    /\ RequestsFromLeaders
    /\ RepliesFromLeaders
    /\ FutureBlocked
    /\ IndexBounds

-----------------------------------------------------------------------------
(* What the steps of Raft do to logs, votes and leaderships *)

\* Terms never go back.
TermsGrow == \A p \in Node : current_term[p] <= current_term'[p]

\* Nobody becomes Candidate or Leader, and those there are keep their term,
\* log and indices.
KeepsPowersBut(S) ==
    \A p \in Node \ S : role'[p] \in {"Candidate", "Leader"} =>
        /\ role'[p] = role[p]
        /\ current_term'[p] = current_term[p]
        /\ log'[p] = log[p]
        /\ next_index'[p] = next_index[p]
        /\ match_index'[p] = match_index[p]

KeepsPowers == KeepsPowersBut({})

\* Requests in flight say what requests in flight said before.
IsVoteRequest(m, q) ==
    /\ q.type = "RequestVoteRequest" /\ q.src = m.src /\ q.term = m.term
    /\ q.last_index = m.last_index /\ q.last_term = m.last_term

\* Or they ask for votes a leader no longer needs: it was elected while its
\* pre-vote campaign went on.
FromSittingLeader(m) ==
    m.src \in Node /\ role'[m.src] = "Leader" /\ m.term = current_term'[m.src]

KeepsVoteRequests ==
    \A m \in rpcs' : m.type = "RequestVoteRequest" =>
        (\E q \in rpcs : IsVoteRequest(m, q)) \/ FromSittingLeader(m)

IsAppend(m, q) ==
    /\ q.type = "AppendEntriesRequest" /\ q.src = m.src /\ q.term = m.term
    /\ q.prev_index = m.prev_index /\ q.prev_term = m.prev_term
    /\ q.entries = m.entries /\ q.leader_commit = m.leader_commit

KeepsAppends ==
    \A m \in rpcs' : m.type = "AppendEntriesRequest" => \E q \in rpcs : IsAppend(m, q)

KeepsRounds ==
    \A m \in rpcs' : m.type = "ReplicationRound" => m \in rpcs

KeepsAcks ==
    \A m \in rpcs' : (m.type = "AppendEntriesResponse" /\ m.success) => m \in rpcs

\* A step that touches no log, vote or leadership.
Tame ==
    /\ TermsGrow /\ KeepsPowers
    /\ KeepsVoteRequests /\ KeepsAppends /\ KeepsRounds /\ KeepsAcks
    /\ UNCHANGED <<log, last_committed, ballots, elected, leader_log, decided>>

\* n starts an election.
Campaigns(n) ==
    /\ role[n] # "Leader"
    /\ into_candidate(n)
    /\ \A m \in rpcs' : m.type = "RequestVoteRequest" =>
          \/ \E q \in rpcs : IsVoteRequest(m, q)
          \/ /\ m.src = n /\ m.term = current_term[n] + 1
             /\ m.last_index = Len(log[n]) /\ m.last_term = last_log_term(log[n])
    /\ KeepsAppends /\ KeepsRounds /\ KeepsAcks
    /\ UNCHANGED <<log, last_committed, elected, leader_log, decided>>

\* The receiver of the request m votes for its sender.
Votes(m) ==
    /\ m.type = "RequestVoteRequest"
    /\ m.term >= current_term[m.dst]
    /\ is_log_up_to_date(log[m.dst], m)
    /\ ballots' = ballots \cup {<<m.dst, m.term, m.src>>}
    /\ current_term'[m.dst] = m.term
    /\ TermsGrow /\ KeepsPowers
    /\ KeepsVoteRequests /\ KeepsAppends /\ KeepsRounds /\ KeepsAcks
    /\ UNCHANGED <<log, last_committed, elected, leader_log, decided>>

\* n wins the votes of Q.
Wins(n, Q) ==
    /\ role[n] = "Candidate"
    /\ Cardinality(Q) >= Quorum
    /\ \A v \in Q : <<v, current_term[n], n>> \in ballots
    /\ into_leader(n)
    /\ KeepsVoteRequests /\ KeepsAppends /\ KeepsRounds /\ KeepsAcks
    /\ UNCHANGED <<log, last_committed, ballots, decided>>

\* The receiver of the AppendEntries m follows its sender and is left with the
\* log new; it acknowledges only the whole reconciled log.
Follows(m, new) ==
    /\ m.type = "AppendEntriesRequest"
    /\ m.term >= current_term[m.dst]
    /\ verify_log_consistency(log[m.dst], m.prev_index, m.prev_term)
    /\ log' = [log EXCEPT ![m.dst] = new]
    /\ current_term' = [current_term EXCEPT ![m.dst] = m.term]
    /\ KeepsPowers
    /\ KeepsVoteRequests /\ KeepsAppends /\ KeepsRounds
    /\ UNCHANGED <<ballots, elected, leader_log, decided>>

\* It does so entirely.
Accepts(m) ==
    LET new == Reconciled(log[m.dst], m.prev_index, m.entries)
    IN  /\ Follows(m, new)
        /\ \A q \in rpcs' : (q.type = "AppendEntriesResponse" /\ q.success) =>
             \/ q \in rpcs
             \/ /\ q.src = m.dst /\ q.dst = m.src /\ q.round = m.term
                /\ q.sent_prev_index = m.prev_index /\ q.sent_len = Len(m.entries)
        /\ last_committed' = [last_committed EXCEPT ![m.dst] =
               commit_advance(@, m.leader_commit, Len(new))]

\* Or it crashes on the way.
Crashes(m) ==
    /\ \/ Follows(m, TruncateConflicts(log[m.dst], m.prev_index, m.entries))
       \/ Follows(m, Reconciled(log[m.dst], m.prev_index, m.entries))
    /\ KeepsAcks
    /\ UNCHANGED last_committed

\* The Leader n hears from a peer in its term.
Hears(n, m) ==
    /\ role[n] = "Leader"
    /\ m.type = "AppendEntriesResponse" /\ m.dst = n /\ m.round = current_term[n]
    /\ ReconcileIndices(n, m)
    /\ rpcs' = rpcs \ {m}
    /\ UNCHANGED <<current_term, role, log, ballots, elected, leader_log>>

\* Everything a step can be.
StepKind ==
    \/ Tame
    \/ \E n \in Node : \/ Campaigns(n)
                       \/ \E Q \in SUBSET Node : Wins(n, Q)
                       \/ propose(n)
                       \/ SendHeartbeat(n)
    \/ \E m \in rpcs : \/ Votes(m)
                       \/ PrepareReplication(m)
                       \/ Accepts(m)
                       \/ Crashes(m)
                       \/ Hears(m.dst, m)

\* The requests a task leaves behind say what they said.
LEMMA LeftRequests ==
    ASSUME rpcs \in SUBSET Rpc, NEW gone \in SUBSET rpcs, NEW m \in Orphan(gone)
    PROVE  /\ m.type = "RequestVoteRequest" => \E q \in rpcs : IsVoteRequest(m, q)
           /\ m.type = "AppendEntriesRequest" => \E q \in rpcs : IsAppend(m, q)
           /\ m.type \notin {"RequestVoteRequest", "AppendEntriesRequest"} => m \in rpcs
<1>1. CASE m \in rpcs
  BY <1>1 DEF IsVoteRequest, IsAppend
<1>2. CASE \E q \in gone : /\ q.type \in {"RequestVoteRequest", "AppendEntriesRequest"}
                           /\ m = [q EXCEPT !.awaited = FALSE]
  <2>1. PICK q \in gone : /\ q.type \in {"RequestVoteRequest", "AppendEntriesRequest"}
                          /\ m = [q EXCEPT !.awaited = FALSE]
    BY <1>2
  <2>2. CASE q \in RequestVoteRequest
    BY <2>1, <2>2 DEF RequestVoteRequest, IsVoteRequest
  <2>3. CASE q \in AppendEntriesRequest
    BY <2>1, <2>3 DEF AppendEntriesRequest, IsAppend
  <2> QED
    BY <2>1, <2>2, <2>3, RpcKinds
<1> QED
  BY <1>1, <1>2 DEF Orphan

\* So a step whose RPCs were in flight before, were left behind by a task or
\* are of no interest here keeps all of these.
LEMMA RpcsKept ==
    ASSUME rpcs \in SUBSET Rpc, NEW n, NEW t,
           \A m \in rpcs' : \/ m \in rpcs
                            \/ m \in Abandoned(n)
                            \/ m \in Orphan(CampaignRpcs(n, t))
                            \/ m.type \in {"PreVoteRequest", "PreVoteResponse",
                                           "RequestVoteResponse"}
                            \/ m.type = "AppendEntriesResponse" /\ ~m.success
    PROVE  KeepsVoteRequests /\ KeepsAppends /\ KeepsRounds /\ KeepsAcks
<1>1. AwaitedBy(n) \in SUBSET rpcs /\ CampaignRpcs(n, t) \in SUBSET rpcs
  BY DEF AwaitedBy, CampaignRpcs
<1>2. ASSUME NEW m \in rpcs'
      PROVE  /\ m.type = "RequestVoteRequest" => \E q \in rpcs : IsVoteRequest(m, q)
             /\ m.type = "AppendEntriesRequest" => \E q \in rpcs : IsAppend(m, q)
             /\ m.type = "ReplicationRound" => m \in rpcs
             /\ (m.type = "AppendEntriesResponse" /\ m.success) => m \in rpcs
  <2>1. CASE m \in rpcs
    BY <2>1 DEF IsVoteRequest, IsAppend
  <2>2. CASE m \in Orphan(AwaitedBy(n)) \/ m \in Orphan(CampaignRpcs(n, t))
    BY <1>1, <2>2, LeftRequests
  <2>3. CASE m.type \in {"PreVoteRequest", "PreVoteResponse", "RequestVoteResponse"}
    BY <2>3
  <2>4. CASE m.type = "AppendEntriesResponse" /\ ~m.success
    BY <2>4
  <2> QED
    BY <2>1, <2>2, <2>3, <2>4 DEF Abandoned
<1> QED
  BY <1>2 DEF KeepsVoteRequests, KeepsAppends, KeepsRounds, KeepsAcks

\* Becoming a Follower, halting or rebooting makes no Candidate and no Leader.
LEMMA FollowerKeepsPowers ==
    ASSUME TypeOK, NEW n \in Node, NEW l,
           FollowerState(n, l) \/ apply_fatal(n),
           \A p \in Node \ {n} : current_term'[p] = current_term[p] /\ log'[p] = log[p]
    PROVE  KeepsPowers
<1> SUFFICES ASSUME NEW p \in Node, role'[p] \in {"Candidate", "Leader"}
             PROVE  /\ role'[p] = role[p]
                    /\ current_term'[p] = current_term[p]
                    /\ log'[p] = log[p]
                    /\ next_index'[p] = next_index[p]
                    /\ match_index'[p] = match_index[p]
  BY DEF KeepsPowers, KeepsPowersBut
<1>1. \E r \in {"Follower", "Poisoned"} : role' = [role EXCEPT ![n] = r]
  BY DEF FollowerState, apply_fatal
<1>2. p # n
  BY <1>1 DEF TypeOK
<1>3. DropRoleFields(n)
  BY DEF FollowerState, apply_fatal
<1>4. role'[p] = role[p]
  BY <1>1, <1>2 DEF TypeOK
<1>5. next_index'[p] = next_index[p] /\ match_index'[p] = match_index[p]
  BY <1>2, <1>3 DEF DropRoleFields, TypeOK
<1> QED
  BY <1>2, <1>4, <1>5

\* into_follower in particular, whose term never goes back.
LEMMA IntoFollowerKeeps ==
    ASSUME TypeOK, NEW n \in Node, NEW t \in Nat, NEW l, into_follower(n, t, l),
           \A p \in Node \ {n} : log'[p] = log[p]
    PROVE  TermsGrow /\ KeepsPowers
<1>1. CASE apply_fatal(n)
  <2>1. current_term' = current_term
    BY <1>1 DEF apply_fatal, hardState
  <2>2. TermsGrow
    BY <2>1 DEF TermsGrow, TypeOK
  <2> QED
    BY <1>1, <2>1, <2>2, FollowerKeepsPowers
<1>2. CASE /\ t >= current_term[n]
           /\ current_term' = [current_term EXCEPT ![n] = t]
           /\ FollowerState(n, l)
  <2>1. TermsGrow /\ \A p \in Node \ {n} : current_term'[p] = current_term[p]
    BY <1>2 DEF TermsGrow, TypeOK
  <2> QED
    BY <1>2, <2>1, FollowerKeepsPowers
<1> QED
  BY <1>1, <1>2 DEF into_follower

\* A step that leaves roles, terms, logs and indices alone keeps the powers.
LEMMA IdleKeepsPowers ==
    ASSUME TypeOK, UNCHANGED <<current_term, role, log, next_index, match_index>>
    PROVE  TermsGrow /\ KeepsPowers
BY DEF TermsGrow, KeepsPowers, KeepsPowersBut, TypeOK

\* An election campaign, or a leader's call for votes it has no use for.
LEMMA CampaignKind ==
    ASSUME TypeOK, NEW n \in Node, NEW others \in SUBSET rpcs, StartCampaign(n, others),
           UNCHANGED <<log, last_committed, elected, leader_log, decided>>
    PROVE  Campaigns(n) \/ Tame
<1> DEFINE t == current_term'[n]
<1>1. PICK S \in SUBSET Peers(n) : rpcs' = others \cup VoteRequests(n, t, S)
  BY DEF StartCampaign
<1>2. \A m \in VoteRequests(n, t, S) :
        /\ m.type = "RequestVoteRequest"
        /\ m.src = n /\ m.term = t
        /\ m.last_index = Len(log[n]) /\ m.last_term = last_log_term(log[n])
  BY DEF VoteRequests
<1>3. KeepsAppends /\ KeepsRounds /\ KeepsAcks
  BY <1>1, <1>2 DEF KeepsAppends, KeepsRounds, KeepsAcks, IsAppend
<1>4. \A m \in rpcs' : m.type = "RequestVoteRequest" =>
          \/ \E q \in rpcs : IsVoteRequest(m, q)
          \/ /\ m.src = n /\ m.term = t
             /\ m.last_index = Len(log[n]) /\ m.last_term = last_log_term(log[n])
  BY <1>1, <1>2 DEF IsVoteRequest
<1>5. CASE role[n] # "Leader"
  <2>1. into_candidate(n) /\ current_term' = [current_term EXCEPT ![n] = @ + 1]
    BY <1>5 DEF StartCampaign, into_candidate
  <2>2. t = current_term[n] + 1
    BY <2>1 DEF TypeOK
  <2> QED
    BY <1>3, <1>4, <1>5, <2>1, <2>2 DEF Campaigns
<1>6. CASE role[n] = "Leader"
  <2>1. UNCHANGED <<hardState, roleState, ballots>>
    BY <1>6 DEF StartCampaign, into_candidate
  <2>2. KeepsVoteRequests
    BY <1>4, <1>6, <2>1 DEF KeepsVoteRequests, FromSittingLeader, roleState
  <2>3. TermsGrow /\ KeepsPowers
    BY <2>1, IdleKeepsPowers DEF hardState, roleState
  <2> QED
    BY <1>3, <2>1, <2>2, <2>3 DEF Tame
<1> QED
  BY <1>5, <1>6

\* Timers, client calls, finished campaigns and restarts.
LEMMA LocalKinds ==
    ASSUME TypeOK, VotingInv, NEW n \in Node,
           \/ Tick(n) \/ FinishElection(n) \/ propose(n) \/ Restart(n)
           \/ \E k \in PreVotes : FinishPreVote(n, k)
    PROVE  StepKind
<1> USE DEF hardState, roleState, logState, tasks, history
<1>1. rpcs \in SUBSET Rpc /\ current_term[n] \in Nat
  BY DEF TypeOK
<1>2. CASE StartPreVote(n)
  <2>1. TermsGrow /\ KeepsPowers
    BY <1>2 DEF StartPreVote, TermsGrow, KeepsPowers, KeepsPowersBut, TypeOK
  <2>2. \A m \in rpcs' : m \in rpcs \/ m.type = "PreVoteRequest"
    BY <1>2 DEF StartPreVote
  <2>3. KeepsVoteRequests /\ KeepsAppends /\ KeepsRounds /\ KeepsAcks
    BY <1>1, <2>2, RpcsKept
  <2> QED
    BY <1>2, <2>1, <2>3 DEF StartPreVote, StepKind, Tame
<1>3. CASE StartElection(n)
  <2>1. Campaigns(n) \/ Tame
    BY <1>3, CampaignKind DEF StartElection
  <2> QED
    BY <2>1 DEF StepKind
<1>4. CASE DecideStepDown(n)
  <2>1. KeepsVoteRequests /\ KeepsAppends /\ KeepsRounds /\ KeepsAcks
    BY <1>1, <1>4, RpcsKept DEF DecideStepDown
  <2> QED
    BY <1>4, <2>1, IdleKeepsPowers DEF DecideStepDown, StepKind, Tame
<1>5. CASE StepDown(n)
  <2>1. KeepsVoteRequests /\ KeepsAppends /\ KeepsRounds /\ KeepsAcks
    BY <1>1, <1>5, RpcsKept DEF StepDown
  <2>2. TermsGrow /\ KeepsPowers
    BY <1>1, <1>5, IntoFollowerKeeps DEF StepDown
  <2> QED
    BY <1>5, <2>1, <2>2 DEF StepDown, StepKind, Tame
<1>6. CASE SendHeartbeat(n)
  BY <1>6 DEF StepKind
<1>7. CASE \E k \in PreVotes : FinishPreVote(n, k)
  <2>1. Campaigns(n) \/ Tame
    BY <1>7, CampaignKind DEF FinishPreVote
  <2> QED
    BY <2>1 DEF StepKind
<1>8. CASE FinishElection(n)
  <2>1. votes_received[n] \in SUBSET Node
    BY DEF TypeOK
  <2>2. \A v \in votes_received[n] : <<v, current_term[n], n>> \in ballots
    BY <1>8 DEF FinishElection, VotingInv, VotesAreOfTheCampaign
  <2>3. KeepsVoteRequests /\ KeepsAppends /\ KeepsRounds /\ KeepsAcks
    BY <1>1, <1>8, RpcsKept DEF FinishElection
  <2>4. Wins(n, votes_received[n])
    BY <1>8, <2>2, <2>3 DEF FinishElection, Wins
  <2> QED
    BY <2>1, <2>4 DEF StepKind
<1>9. CASE propose(n)
  BY <1>9 DEF StepKind
<1>10. CASE Restart(n)
  <2>1. KeepsVoteRequests /\ KeepsAppends /\ KeepsRounds /\ KeepsAcks
    BY <1>1, <1>10, RpcsKept DEF Restart
  <2>2. TermsGrow
    BY <1>10 DEF Restart, TermsGrow, TypeOK
  <2>3. KeepsPowers
    BY <1>10, FollowerKeepsPowers DEF Restart, Reboot
  <2> QED
    BY <1>10, <2>1, <2>2, <2>3 DEF Restart, StepKind, Tame
<1> QED
  BY <1>2, <1>3, <1>4, <1>5, <1>6, <1>7, <1>8, <1>9, <1>10 DEF Tick

\* Answers to a RequestVote or an AppendEntries.
LEMMA AnswersKept ==
    ASSUME TypeOK, NEW m \in rpcs
    PROVE  /\ \A t, g : VoteReply(m, t, g) =>
                KeepsVoteRequests /\ KeepsAppends /\ KeepsRounds /\ KeepsAcks
           /\ \A t, last : AppendReply(m, t, FALSE, last) =>
                KeepsVoteRequests /\ KeepsAppends /\ KeepsRounds /\ KeepsAcks
           /\ NoReply(m) =>
                KeepsVoteRequests /\ KeepsAppends /\ KeepsRounds /\ KeepsAcks
           /\ \A t, last : AppendReply(m, t, TRUE, last) =>
                /\ KeepsVoteRequests /\ KeepsAppends /\ KeepsRounds
                /\ \A q \in rpcs' : (q.type = "AppendEntriesResponse" /\ q.success) =>
                     \/ q \in rpcs
                     \/ /\ q.src = m.dst /\ q.dst = m.src /\ q.round = m.term
                        /\ q.sent_prev_index = m.prev_index /\ q.sent_len = Len(m.entries)
<1>1. rpcs \in SUBSET Rpc
  BY DEF TypeOK
<1>2. ASSUME NEW t, NEW g, VoteReply(m, t, g)
      PROVE  KeepsVoteRequests /\ KeepsAppends /\ KeepsRounds /\ KeepsAcks
  <2>1. \A q \in rpcs' : q \in rpcs \/ q.type = "RequestVoteResponse"
    BY <1>2 DEF VoteReply, Reply, NoReply
  <2> QED
    BY <1>1, <2>1, RpcsKept
<1>3. ASSUME NEW t, NEW last, AppendReply(m, t, FALSE, last)
      PROVE  KeepsVoteRequests /\ KeepsAppends /\ KeepsRounds /\ KeepsAcks
  <2>1. \A q \in rpcs' : q \in rpcs \/ (q.type = "AppendEntriesResponse" /\ ~q.success)
    BY <1>3 DEF AppendReply, Reply, NoReply
  <2> QED
    BY <1>1, <2>1, RpcsKept
<1>4. ASSUME NoReply(m)
      PROVE  KeepsVoteRequests /\ KeepsAppends /\ KeepsRounds /\ KeepsAcks
  <2>1. \A q \in rpcs' : q \in rpcs
    BY <1>4 DEF NoReply
  <2> QED
    BY <1>1, <2>1, RpcsKept
<1>5. ASSUME NEW t, NEW last, AppendReply(m, t, TRUE, last)
      PROVE  /\ KeepsVoteRequests /\ KeepsAppends /\ KeepsRounds
             /\ \A q \in rpcs' : (q.type = "AppendEntriesResponse" /\ q.success) =>
                  \/ q \in rpcs
                  \/ /\ q.src = m.dst /\ q.dst = m.src /\ q.round = m.term
                     /\ q.sent_prev_index = m.prev_index /\ q.sent_len = Len(m.entries)
  <2>1. \A q \in rpcs' :
          \/ q \in rpcs
          \/ /\ q.type = "AppendEntriesResponse"
             /\ q.src = m.dst /\ q.dst = m.src /\ q.round = m.term
             /\ q.sent_prev_index = m.prev_index /\ q.sent_len = Len(m.entries)
    BY <1>5 DEF AppendReply, Reply, NoReply
  <2> QED
    BY <2>1 DEF KeepsVoteRequests, KeepsAppends, KeepsRounds, IsVoteRequest, IsAppend
<1> QED
  BY <1>2, <1>3, <1>4, <1>5

\* The handlers of RPCs.
LEMMA DeliverKinds ==
    ASSUME TypeOK, NEW m \in rpcs, Deliver(m)
    PROVE  StepKind
<1> USE DEF hardState, roleState, logState, tasks, history
<1> DEFINE n == m.dst
<1>1. /\ rpcs \in SUBSET Rpc /\ n \in Node /\ m.src \in Node /\ m.term \in Nat
      /\ current_term[n] \in Nat
  BY RpcEnds DEF TypeOK
<1>2. CASE handle_pre_vote(m)
  <2>1. \A q \in rpcs' : q \in rpcs \/ q.type = "PreVoteResponse"
    BY <1>2 DEF handle_pre_vote, Reply
  <2>2. KeepsVoteRequests /\ KeepsAppends /\ KeepsRounds /\ KeepsAcks
    BY <1>1, <2>1, RpcsKept
  <2> QED
    BY <1>2, <2>2, IdleKeepsPowers DEF handle_pre_vote, StepKind, Tame
<1>3. CASE handle_request_vote(m)
  <2>1. PICK g \in BOOLEAN :
          /\ ballots' = IF g THEN ballots \cup {<<n, m.term, m.src>>} ELSE ballots
          /\ VoteReply(m, current_term'[n], g)
          /\ g => /\ m.term > current_term[n] \/ m.term = current_term[n]
                  /\ is_log_up_to_date(log[n], m)
    BY <1>3 DEF handle_request_vote, attempt_grant_vote
  <2>2. KeepsVoteRequests /\ KeepsAppends /\ KeepsRounds /\ KeepsAcks
    BY <2>1, AnswersKept
  <2>3. CASE m.term > current_term[n]
    <3>1. current_term' = [current_term EXCEPT ![n] = m.term] /\ FollowerState(n, None)
          /\ log' = log
      BY <1>3, <2>3 DEF handle_request_vote
    <3>2. /\ current_term'[n] = m.term
          /\ \A p \in Node \ {n} : current_term'[p] = current_term[p]
      BY <1>1, <3>1 DEF TypeOK
    <3>3. KeepsPowers
      BY <1>1, <3>1, <3>2, FollowerKeepsPowers
    <3>4. m.term >= current_term[n] /\ \A p \in Node : current_term[p] \in Nat
      BY <1>1, <2>3, SMTT(30) DEF TypeOK
    <3>5. TermsGrow
      BY <3>2, <3>4 DEF TermsGrow
    <3> QED
      BY <1>3, <2>1, <2>2, <3>2, <3>3, <3>4, <3>5 DEF handle_request_vote, StepKind, Tame, Votes
  <2>4. CASE ~ (m.term > current_term[n])
    <3>1. UNCHANGED <<current_term, role, log, next_index, match_index>>
      BY <1>3, <2>4 DEF handle_request_vote
    <3>2. TermsGrow /\ KeepsPowers
      BY <3>1, IdleKeepsPowers
    <3>3. g => current_term'[n] = m.term /\ m.term >= current_term[n]
      BY <1>1, <2>1, <2>4, <3>1
    <3> QED
      BY <1>3, <2>1, <2>2, <3>2, <3>3 DEF handle_request_vote, StepKind, Tame, Votes
  <2> QED
    BY <2>3, <2>4
<1>4. CASE handle_append_entries(m)
  <2>1. CASE /\ AppendReply(m, current_term[n], FALSE, 0)
             /\ UNCHANGED <<hardState, roleState, logState>>
    BY <1>4, <2>1, AnswersKept, IdleKeepsPowers
       DEF handle_append_entries, StepKind, Tame
  <2>2. CASE apply_fatal(n) /\ NoReply(m) /\ UNCHANGED logState
    <3>1. current_term' = current_term
      BY <2>2 DEF apply_fatal
    <3>2. KeepsPowers
      BY <1>1, <2>2, <3>1, FollowerKeepsPowers
    <3>3. TermsGrow
      BY <3>1 DEF TermsGrow, TypeOK
    <3> QED
      BY <1>4, <2>2, <3>2, <3>3, AnswersKept DEF handle_append_entries, StepKind, Tame
  <2>3. CASE /\ m.term >= current_term[n]
             /\ into_follower(n, m.term, m.src)
             /\ reconcile_log(n, m)
    <3>1. current_term' = [current_term EXCEPT ![n] = m.term] /\ FollowerState(n, m.src)
      BY <1>1, <2>3 DEF into_follower
    <3>2. \A p \in Node \ {n} : log'[p] = log[p]
      BY <1>1, <2>3 DEF reconcile_log, TypeOK
    <3>3. TermsGrow /\ KeepsPowers
      BY <1>1, <2>3, <3>2, IntoFollowerKeeps
    <3>4. CASE verify_log_consistency(log[n], m.prev_index, m.prev_term)
      <4> DEFINE new == Reconciled(log[n], m.prev_index, m.entries)
      <4>1. /\ log' = [log EXCEPT ![n] = new]
            /\ last_committed' = [last_committed EXCEPT ![n] =
                    commit_advance(@, m.leader_commit, Len(new))]
            /\ AppendReply(m, m.term, TRUE, Len(new))
        BY <2>3, <3>4 DEF reconcile_log
      <4>2. Follows(m, new)
        BY <1>4, <2>3, <3>1, <3>3, <3>4, <4>1, AnswersKept DEF handle_append_entries, Follows
      <4>3. Accepts(m)
        BY <4>1, <4>2, AnswersKept DEF Accepts
      <4> QED
        BY <4>3 DEF StepKind
    <3>5. CASE ~ verify_log_consistency(log[n], m.prev_index, m.prev_term)
      BY <1>4, <2>3, <3>3, <3>5, AnswersKept
         DEF handle_append_entries, reconcile_log, StepKind, Tame
    <3> QED
      BY <3>4, <3>5
  <2> QED
    BY <1>4, <2>1, <2>2, <2>3 DEF handle_append_entries
<1> QED
  BY <1>2, <1>3, <1>4 DEF Deliver

\* Resumed tasks.
LEMMA ResumeKinds ==
    ASSUME TypeOK, VotingInv, NEW m \in rpcs, Resume(m)
    PROVE  StepKind
<1> USE DEF hardState, roleState, logState, tasks, history
<1> DEFINE n == m.dst
<1>1. /\ rpcs \in SUBSET Rpc /\ n \in Node /\ m.src \in Node /\ m.term \in Nat
  BY RpcEnds DEF TypeOK
<1>2. CASE process_pre_vote_response(m)
  <2>1. CASE into_follower(n, m.term, None) /\ rpcs' = rpcs \ PreVoteRpcs(n, m.pre_vote) /\ UNCHANGED history
    <3>1. TermsGrow /\ KeepsPowers
      BY <1>1, <1>2, <2>1, IntoFollowerKeeps DEF process_pre_vote_response
    <3>2. KeepsVoteRequests /\ KeepsAppends /\ KeepsRounds /\ KeepsAcks
      BY <1>1, <2>1, RpcsKept
    <3> QED
      BY <1>2, <2>1, <3>1, <3>2 DEF process_pre_vote_response, StepKind, Tame
  <2>2. CASE /\ StartCampaign(n, rpcs \ PreVoteRpcs(n, m.pre_vote))
             /\ UNCHANGED <<elected, leader_log, decided>>
    <3>1. Campaigns(n) \/ Tame
      BY <1>1, <1>2, <2>2, CampaignKind DEF process_pre_vote_response
    <3> QED
      BY <1>1, <3>1 DEF StepKind
  <2>3. CASE rpcs' = rpcs \ {m} /\ UNCHANGED <<hardState, roleState, history>>
    <3>1. KeepsVoteRequests /\ KeepsAppends /\ KeepsRounds /\ KeepsAcks
      BY <1>1, <2>3, RpcsKept
    <3> QED
      BY <1>2, <2>3, <3>1, IdleKeepsPowers DEF process_pre_vote_response, StepKind, Tame
  <2> QED
    BY <1>2, <2>1, <2>2, <2>3 DEF process_pre_vote_response
<1>3. CASE process_vote_response(m)
  <2>1. KeepsVoteRequests /\ KeepsAppends /\ KeepsRounds /\ KeepsAcks
    <3>1. \/ rpcs' = Orphan(CampaignRpcs(n, m.campaign))
          \/ rpcs' = rpcs \ {m}
      BY <1>3 DEF process_vote_response
    <3> QED
      BY <1>1, <3>1, RpcsKept
  <2>2. CASE into_follower(n, m.term, None) /\ UNCHANGED <<elected, leader_log>>
    <3>1. TermsGrow /\ KeepsPowers
      BY <1>1, <1>3, <2>2, IntoFollowerKeeps DEF process_vote_response
    <3> QED
      BY <1>3, <2>1, <2>2, <3>1 DEF process_vote_response, StepKind, Tame
  <2>3. CASE /\ counts(m) /\ Cardinality(votes_received[n] \cup {m.src}) >= Quorum
             /\ into_leader(n)
    <3>1. /\ votes_received[n] \cup {m.src} \in SUBSET Node
          /\ \A v \in votes_received[n] \cup {m.src} : <<v, current_term[n], n>> \in ballots
      BY <1>1, <1>3, <2>3
         DEF counts, process_vote_response, VotingInv, GrantsAreBallots, VotesAreOfTheCampaign, TypeOK
    <3>2. Wins(n, votes_received[n] \cup {m.src})
      BY <1>3, <2>1, <2>3, <3>1 DEF counts, process_vote_response, Wins
    <3> QED
      BY <1>1, <3>1, <3>2 DEF StepKind
  <2>4. CASE UNCHANGED <<hardState, role, leader_id, next_index, match_index, elected, leader_log>>
    BY <1>3, <2>1, <2>4, IdleKeepsPowers DEF process_vote_response, StepKind, Tame
  <2> QED
    BY <1>3, <2>2, <2>3, <2>4 DEF process_vote_response
<1>4. CASE PrepareReplication(m)
  BY <1>4 DEF StepKind
<1>5. CASE process_replication_response(m)
  <2>1. rpcs' = rpcs \ {m}
    BY <1>5 DEF process_replication_response
  <2>2. KeepsVoteRequests /\ KeepsAppends /\ KeepsRounds /\ KeepsAcks
    BY <1>1, <2>1, RpcsKept
  <2>3. CASE into_follower(n, m.term, None) /\ UNCHANGED <<last_committed, decided>>
    <3>1. TermsGrow /\ KeepsPowers
      BY <1>1, <1>5, <2>3, IntoFollowerKeeps DEF process_replication_response
    <3> QED
      BY <1>5, <2>2, <2>3, <3>1 DEF process_replication_response, StepKind, Tame
  <2>4. CASE /\ role[n] = "Leader" /\ current_term[n] = m.round
             /\ ReconcileIndices(n, m)
             /\ UNCHANGED <<hardState, role, leader_id, votes_received>>
    <3>1. Hears(n, m)
      BY <1>5, <2>1, <2>4 DEF process_replication_response, Hears
    <3> QED
      BY <3>1 DEF StepKind
  <2>5. CASE UNCHANGED <<hardState, roleState, last_committed, decided>>
    BY <1>5, <2>2, <2>5, IdleKeepsPowers DEF process_replication_response, StepKind, Tame
  <2> QED
    BY <1>5, <2>3, <2>4, <2>5 DEF process_replication_response
<1> QED
  BY <1>2, <1>3, <1>4, <1>5 DEF Resume

\* Crashes inside a handler.
LEMMA CrashKinds ==
    ASSUME TypeOK, NEW m \in rpcs, CrashInVote(m) \/ CrashInAppend(m)
    PROVE  StepKind
<1> USE DEF hardState, roleState, logState, tasks, history
<1> DEFINE n == m.dst
<1>1. /\ rpcs \in SUBSET Rpc /\ n \in Node /\ m.term \in Nat /\ current_term[n] \in Nat
  BY RpcEnds DEF TypeOK
<1>2. /\ FollowerState(n, None)
      /\ current_term' = [current_term EXCEPT ![n] = m.term]
      /\ m.term >= current_term[n]
      /\ \A q \in rpcs' : q \in Abandoned(n)
  BY <1>1 DEF CrashInVote, CrashInAppend, Reboot
<1>3. KeepsVoteRequests /\ KeepsAppends /\ KeepsRounds /\ KeepsAcks
  BY <1>1, <1>2, RpcsKept
<1>4. TermsGrow /\ \A p \in Node \ {n} : current_term'[p] = current_term[p]
  BY <1>1, <1>2 DEF TermsGrow, TypeOK
<1>5. \A p \in Node \ {n} : log'[p] = log[p]
  BY <1>1 DEF CrashInVote, CrashInAppend, TypeOK
<1>6. KeepsPowers
  BY <1>1, <1>2, <1>4, <1>5, FollowerKeepsPowers
<1>7. CASE UNCHANGED log
  BY <1>3, <1>4, <1>6, <1>7 DEF CrashInVote, CrashInAppend, StepKind, Tame
<1>8. CASE /\ CrashInAppend(m)
           /\ verify_log_consistency(log[n], m.prev_index, m.prev_term)
           /\ \E kept \in {TruncateConflicts(log[n], m.prev_index, m.entries),
                           Reconciled(log[n], m.prev_index, m.entries)} :
                log' = [log EXCEPT ![n] = kept]
  <2>1. Crashes(m)
    BY <1>2, <1>3, <1>6, <1>8 DEF CrashInAppend, Crashes, Follows
  <2> QED
    BY <2>1 DEF StepKind
<1> QED
  BY <1>7, <1>8 DEF CrashInVote, CrashInAppend

\* Every step is of one of the kinds.
LEMMA StepKinds ==
    ASSUME TypeOK, VotingInv, [Next]_vars
    PROVE  StepKind
<1>1. CASE UNCHANGED vars
  <2>1. rpcs \in SUBSET Rpc /\ rpcs' = rpcs
    BY <1>1 DEF vars, TypeOK
  <2>2. KeepsVoteRequests /\ KeepsAppends /\ KeepsRounds /\ KeepsAcks
    BY <2>1, RpcsKept
  <2> QED
    BY <1>1, <2>2, IdleKeepsPowers
       DEF vars, hardState, roleState, logState, history, StepKind, Tame
<1> QED
  BY <1>1, LocalKinds, DeliverKinds, ResumeKinds, CrashKinds DEF Next

-----------------------------------------------------------------------------
(* Logs: what agreeing, truncating and reconciling do *)

\* Agreement up to an index is symmetric, transitive and downward closed.
LEMMA AgreeRules ==
    ASSUME NEW r \in Seq(Nat), NEW s \in Seq(Nat), NEW t \in Seq(Nat), NEW k \in Nat
    PROVE  /\ Agree(r, s, k) => Agree(s, r, k)
           /\ Agree(r, s, k) /\ Agree(s, t, k) => Agree(r, t, k)
           /\ \A j \in Nat : j <= k /\ Agree(r, s, k) => Agree(r, s, j)
BY LenProperties DEF Agree

\* Truncating at the first conflict yields a prefix. What it keeps agrees with
\* the entries, and it keeps everything that agreed with them.
LEMMA TruncateKeeps ==
    ASSUME NEW lg \in Seq(Nat), NEW prev \in Nat, NEW entries \in Seq(Nat),
           prev <= Len(lg), \A k \in 1..Len(lg) : lg[k] # 0
    PROVE  LET cut == TruncateConflicts(lg, prev, entries)
           IN  /\ cut \in Seq(Nat)
               /\ prev <= Len(cut) /\ Len(cut) <= Len(lg)
               /\ \A j \in 1..Len(cut) : cut[j] = lg[j]
               /\ \A k \in 1..Len(entries) : prev + k <= Len(cut) =>
                      cut[prev + k] = entries[k]
               /\ \A c \in 0..Len(lg) :
                      (\A k \in 1..Len(entries) : prev + k <= c => lg[prev + k] = entries[k])
                      => c <= Len(cut)
<1> DEFINE clash == {i \in (prev + 1)..(prev + Len(entries)) :
                       get_term_at(lg, i) \notin {0, entries[i - prev]}}
           cut == TruncateConflicts(lg, prev, entries)
<1>1. Len(lg) \in Nat /\ Len(entries) \in Nat
  BY LenProperties
<1>2. cut \in Seq(Nat) /\ Len(cut) \in prev..Len(lg)
  BY TruncateType
<1>3. CASE clash = {}
  <2>1. cut = lg
    BY <1>3 DEF TruncateConflicts
  <2>2. ASSUME NEW k \in 1..Len(entries), prev + k <= Len(lg)
        PROVE  lg[prev + k] = entries[k]
    <3>1. prev + k \in (prev + 1)..(prev + Len(entries)) /\ prev + k \in 1..Len(lg)
      BY <1>1, <2>2
    <3>2. get_term_at(lg, prev + k) \in {0, entries[(prev + k) - prev]}
      BY <1>3, <3>1
    <3>3. get_term_at(lg, prev + k) = lg[prev + k] /\ (prev + k) - prev = k
      BY <3>1 DEF get_term_at
    <3> QED
      BY <3>1, <3>2, <3>3
  <2> QED
    BY <1>1, <1>2, <2>1, <2>2
<1>4. CASE clash # {}
  <2> DEFINE first == Min(clash)
  <2>1. clash \in SUBSET Nat
    BY <1>1
  <2>2. first \in clash /\ \A i \in clash : first <= i
    BY <1>4, <2>1, MinOfNats
  <2>3. first \in Nat /\ first > prev /\ first <= Len(lg) /\ first <= prev + Len(entries)
    BY <1>1, <2>2 DEF get_term_at
  <2>4. cut = SubSeq(lg, 1, first - 1)
    BY <1>4 DEF TruncateConflicts
  <2> HIDE DEF first
  <2>5. \A i \in 1..(first - 1) : lg[i] \in Nat
    BY <1>1, <2>3
  <2>6. Len(cut) = first - 1 /\ \A j \in 1..(first - 1) : cut[j] = lg[j]
    BY <1>1, <2>3, <2>4, <2>5, SubSeqProperties
  <2>7. ASSUME NEW k \in 1..Len(entries), prev + k <= Len(cut)
        PROVE  cut[prev + k] = entries[k]
    <3>1. /\ prev + k \in (prev + 1)..(prev + Len(entries))
          /\ prev + k \in 1..(first - 1) /\ prev + k \in 1..Len(lg)
      BY <1>1, <2>3, <2>6, <2>7
    <3>2. prev + k \notin clash
      BY <2>2, <2>3, <3>1
    <3>3. get_term_at(lg, prev + k) \in {0, entries[(prev + k) - prev]}
      BY <3>1, <3>2
    <3>4. get_term_at(lg, prev + k) = lg[prev + k] /\ (prev + k) - prev = k
      BY <3>1 DEF get_term_at
    <3> QED
      BY <2>6, <3>1, <3>3, <3>4
  <2>8. ASSUME NEW c \in 0..Len(lg),
               \A k \in 1..Len(entries) : prev + k <= c => lg[prev + k] = entries[k]
        PROVE  c <= Len(cut)
    <3> SUFFICES ASSUME c > Len(cut) PROVE FALSE
      BY <1>1, <1>2
    <3>1. /\ first - prev \in 1..Len(entries) /\ prev + (first - prev) = first
          /\ first <= c /\ first \in 1..Len(lg)
      BY <1>1, <2>3, <2>6
    <3>2. lg[first] = entries[first - prev]
      BY <2>8, <3>1
    <3>3. get_term_at(lg, first) = lg[first]
      BY <3>1 DEF get_term_at
    <3>4. get_term_at(lg, first) \notin {0, entries[first - prev]}
      BY <2>2
    <3> QED
      BY <3>2, <3>3, <3>4
  <2> QED
    BY <1>2, <2>6, <2>7, <2>8
<1> QED
  BY <1>3, <1>4

\* Reconciling extends what was kept with the entries beyond it.
LEMMA ReconciledIs ==
    ASSUME NEW lg \in Seq(Nat), NEW prev \in Nat, NEW entries \in Seq(Nat),
           prev <= Len(lg), \A k \in 1..Len(lg) : lg[k] # 0
    PROVE  LET cut == TruncateConflicts(lg, prev, entries)
               full == Reconciled(lg, prev, entries)
           IN  /\ full \in Seq(Nat)
               /\ Len(full) >= Len(cut) /\ Len(full) >= prev + Len(entries)
               /\ Len(full) = Len(cut) \/ Len(full) = prev + Len(entries)
               /\ \A j \in 1..Len(cut) : full[j] = cut[j]
               /\ \A j \in 1..Len(full) : j > Len(cut) => full[j] = entries[j - prev]
<1> DEFINE cut == TruncateConflicts(lg, prev, entries)
           rest == SubSeq(entries, Len(cut) - prev + 1, Len(entries))
           full == Reconciled(lg, prev, entries)
<1>1. cut \in Seq(Nat) /\ Len(cut) \in Nat /\ Len(cut) >= prev /\ Len(entries) \in Nat
  BY TruncateType, LenProperties
<1>2. full = cut \o rest
  BY DEF Reconciled
<1> HIDE DEF cut, full
<1> DEFINE skip == Len(cut) - prev
<1>3. skip \in Nat /\ prev + skip = Len(cut)
  BY <1>1
<1>4. \A i \in (skip + 1)..Len(entries) : entries[i] \in Nat
  BY <1>1, <1>3
<1>5. /\ rest \in Seq(Nat)
      /\ Len(rest) = IF skip + 1 <= Len(entries) THEN Len(entries) - skip ELSE 0
      /\ \A i \in 1..Len(rest) : rest[i] = entries[skip + i]
  <2>1. CASE skip + 1 <= Len(entries)
    <3>1. /\ rest \in Seq(Nat)
          /\ Len(rest) = Len(entries) - (skip + 1) + 1
          /\ \A i \in 1..(Len(entries) - (skip + 1) + 1) : rest[i] = entries[(skip + 1) + i - 1]
      BY <1>1, <1>3, <1>4, <2>1, SubSeqProperties
    <3> HIDE DEF rest
    <3> QED
      BY <1>1, <1>3, <2>1, <3>1
  <2>2. CASE ~ (skip + 1 <= Len(entries))
    <3>1. rest = << >>
      BY <1>1, <1>3, <2>2, SubSeqProperties
    <3> QED
      BY <2>2, <3>1
  <2> QED
    BY <2>1, <2>2
<1> HIDE DEF rest
<1>6. Len(rest) \in Nat
  BY <1>5, LenProperties
<1>7. /\ full \in Seq(Nat)
      /\ Len(full) = Len(cut) + Len(rest)
      /\ \A j \in 1..(Len(cut) + Len(rest)) :
            full[j] = IF j <= Len(cut) THEN cut[j] ELSE rest[j - Len(cut)]
  <2>1. cut \in Seq(Nat) /\ rest \in Seq(Nat) /\ full = cut \o rest
    BY <1>1, <1>2, <1>5
  <2> HIDE DEF cut, full
  <2>2. /\ cut \o rest \in Seq(Nat)
        /\ Len(cut \o rest) = Len(cut) + Len(rest)
        /\ \A j \in 1..(Len(cut) + Len(rest)) :
              (cut \o rest)[j] = IF j <= Len(cut) THEN cut[j] ELSE rest[j - Len(cut)]
    BY <2>1, ConcatProperties
  <2> QED
    BY <2>1, <2>2
<1>8. /\ Len(full) >= Len(cut) /\ Len(full) >= prev + Len(entries)
      /\ Len(full) = Len(cut) \/ Len(full) = prev + Len(entries)
  <2>1. CASE skip + 1 <= Len(entries)
    <3>1. Len(rest) = Len(entries) - skip
      BY <1>5, <2>1
    <3>2. Len(full) = Len(cut) + Len(rest)
      BY <1>7
    <3>3. Len(full) = prev + Len(entries)
      BY <1>1, <1>3, <1>6, <3>1, <3>2
    <3>4. prev + Len(entries) >= Len(cut)
      BY <1>1, <1>3, <2>1
    <3> QED
      BY <1>1, <3>3, <3>4
  <2>2. CASE ~ (skip + 1 <= Len(entries))
    <3>1. Len(rest) = 0
      BY <1>5, <2>2
    <3>2. Len(full) = Len(cut) + Len(rest)
      BY <1>7
    <3> HIDE DEF skip
    <3> QED
      BY <1>1, <1>3, <2>2, <3>1, <3>2
  <2> QED
    BY <2>1, <2>2
<1>9. \A j \in 1..Len(cut) : full[j] = cut[j]
  BY <1>1, <1>6, <1>7
<1>10. ASSUME NEW j \in 1..Len(full), j > Len(cut) PROVE full[j] = entries[j - prev]
  <2>1. /\ j - Len(cut) \in 1..Len(rest)
        /\ skip + (j - Len(cut)) = j - prev
        /\ j \in 1..(Len(cut) + Len(rest))
    BY <1>1, <1>3, <1>6, <1>7, <1>10
  <2> QED
    BY <1>1, <1>5, <1>7, <1>10, <2>1
<1> QED
  BY <1>7, <1>8, <1>9, <1>10 DEF full, cut

-----------------------------------------------------------------------------
(* What the invariant says of logs *)

\* The types the proofs below keep needing, before and after a step.
LEMMA LogTypes ==
    ASSUME TypeOK
    PROVE  /\ \A p \in Node : /\ current_term[p] \in Nat
                              /\ log[p] \in Seq(Nat) /\ Len(log[p]) \in Nat
           /\ \A t \in DOMAIN leader_log :
                /\ t \in Nat
                /\ leader_log[t] \in Seq(Nat) /\ Len(leader_log[t]) \in Nat
<1>1. \A p \in Node : current_term[p] \in Nat /\ log[p] \in Seq(Nat)
  BY DEF TypeOK
<1>2. \A t \in DOMAIN leader_log : t \in Nat /\ leader_log[t] \in Seq(Nat)
  BY DEF TypeOK
<1> QED
  BY <1>1, <1>2, LenProperties

\* The same of the state after a step.
LEMMA LogTypesAfter ==
    ASSUME TypeOK'
    PROVE  /\ \A p \in Node : /\ current_term'[p] \in Nat
                              /\ log'[p] \in Seq(Nat) /\ Len(log'[p]) \in Nat
           /\ \A t \in DOMAIN leader_log' :
                /\ t \in Nat
                /\ leader_log'[t] \in Seq(Nat) /\ Len(leader_log'[t]) \in Nat
<1>1. \A p \in Node : current_term'[p] \in Nat /\ log'[p] \in Seq(Nat)
  BY DEF TypeOK
<1>2. \A t \in DOMAIN leader_log' : t \in Nat /\ leader_log'[t] \in Seq(Nat)
  BY DEF TypeOK
<1> QED
  BY <1>1, <1>2, LenProperties

\* The fields of the requests and answers about logs.
LEMMA AppendTypes ==
    ASSUME TypeOK, NEW m \in rpcs
    PROVE  /\ m.src \in Node /\ m.dst \in Node /\ m.term \in Nat
           /\ m.type = "AppendEntriesRequest" =>
                /\ m.prev_index \in Nat /\ m.prev_term \in Nat
                /\ m.entries \in Seq(Nat) /\ Len(m.entries) \in Nat
                /\ m.leader_commit \in Nat
           /\ m.type = "AppendEntriesResponse" =>
                /\ m.round \in Nat /\ m.sent_prev_index \in Nat /\ m.sent_len \in Nat
                /\ m.last_log_index \in Nat
           /\ m.type = "RequestVoteRequest" => m.last_index \in Nat /\ m.last_term \in Nat
           /\ m.type = "ReplicationRound" => m.last_committed \in Nat
<1>1. rpcs \in SUBSET Rpc
  BY DEF TypeOK
<1>2. m.type = "AppendEntriesRequest" =>
        /\ m.prev_index \in Nat /\ m.prev_term \in Nat
        /\ m.entries \in Seq(Nat)
        /\ m.leader_commit \in Nat
  BY <1>1, RpcKinds DEF AppendEntriesRequest
<1>3. m.type = "AppendEntriesResponse" =>
        /\ m.round \in Nat /\ m.sent_prev_index \in Nat /\ m.sent_len \in Nat
        /\ m.last_log_index \in Nat
  BY <1>1, RpcKinds DEF AppendEntriesResponse
<1>4. m.type = "RequestVoteRequest" => m.last_index \in Nat /\ m.last_term \in Nat
  BY <1>1, RpcKinds DEF RequestVoteRequest
<1>5. m.type = "ReplicationRound" => m.last_committed \in Nat
  BY <1>1, RpcKinds DEF ReplicationRound
<1>6. m.entries \in Seq(Nat) => Len(m.entries) \in Nat
  BY LenProperties
<1> QED
  BY <1>1, <1>2, <1>3, <1>4, <1>5, <1>6, RpcEnds

\* Logs that have an entry of one leader at an index agree up to it.
LEMMA SameEntry ==
    ASSUME TypeOK, NEW r \in Seq(Nat), NEW s \in Seq(Nat), NEW k \in Nat,
           FromLeader(r, k), FromLeader(s, k), r[k] = s[k]
    PROVE  Agree(r, s, k)
<1>1. r[k] \in DOMAIN leader_log /\ leader_log[r[k]] \in Seq(Nat)
  BY LogTypes DEF FromLeader
<1>2. Agree(r, leader_log[r[k]], k) /\ Agree(s, leader_log[r[k]], k)
  BY DEF FromLeader
<1>3. Agree(leader_log[r[k]], s, k)
  BY <1>1, <1>2, AgreeRules
<1> QED
  BY <1>1, <1>2, <1>3, AgreeRules

\* What is a segment of one log is one of every log that agrees so far.
LEMMA SegmentShared ==
    ASSUME NEW m, m.prev_index \in Nat, m.entries \in Seq(Nat), Len(m.entries) \in Nat,
           NEW r \in Seq(Nat), NEW s \in Seq(Nat), SegmentOf(m, r),
           Agree(s, r, m.prev_index + Len(m.entries))
    PROVE  SegmentOf(m, s)
<1> DEFINE prev == m.prev_index
           len == Len(m.entries)
<1>1. prev + len <= Len(s) /\ \A j \in 1..(prev + len) : s[j] = r[j]
  BY DEF Agree
<1>2. prev > 0 => s[prev] = m.prev_term
  <2>1. prev > 0 => prev \in 1..(prev + len)
    OBVIOUS
  <2> QED
    BY <1>1, <2>1 DEF SegmentOf
<1>3. ASSUME NEW k \in 1..len PROVE m.entries[k] = s[prev + k]
  <2>1. prev + k \in 1..(prev + len)
    OBVIOUS
  <2> QED
    BY <1>1, <2>1 DEF SegmentOf
<1> QED
  BY <1>1, <1>2, <1>3 DEF SegmentOf

\* What goes back to a leader in one log does so in every log that agrees.
LEMMA FromLeaderShared ==
    ASSUME TypeOK, NEW r \in Seq(Nat), NEW s \in Seq(Nat), NEW k \in Nat, k > 0,
           FromLeader(r, k), Agree(s, r, k)
    PROVE  FromLeader(s, k)
<1>1. k \in 1..k
  OBVIOUS
<1>2. s[k] = r[k]
  BY <1>1 DEF Agree
<1>3. r[k] \in DOMAIN leader_log /\ leader_log[r[k]] \in Seq(Nat)
      /\ Agree(r, leader_log[r[k]], k)
  BY LogTypes DEF FromLeader
<1>4. Agree(s, leader_log[r[k]], k)
  BY <1>3, AgreeRules
<1> QED
  BY <1>2, <1>3, <1>4 DEF FromLeader

\* No entry has term 0.
LEMMA EntriesPositive ==
    ASSUME TypeOK, LeadersRecorded, LogsFromLeaders, NEW n \in Node
    PROVE  \A k \in 1..Len(log[n]) : log[n][k] # 0
<1> SUFFICES ASSUME NEW k \in 1..Len(log[n]) PROVE log[n][k] # 0
  OBVIOUS
<1>1. log[n][k] \in DOMAIN leader_log
  BY DEF LogsFromLeaders, FromLeader
<1>2. PICK e \in elected : e[1] = log[n][k]
  BY <1>1 DEF LeadersRecorded
<1>3. e[1] \in Nat
  BY DEF TypeOK
<1> QED
  BY <1>2, <1>3 DEF LeadersRecorded

\* Terms do not decrease along a log that goes back to leaders.
LEMMA TermsAscend ==
    ASSUME TypeOK, LeadersFromLeaders, NEW r \in Seq(Nat), NEW k \in 1..Len(r),
           FromLeader(r, k), NEW j \in 1..k
    PROVE  r[j] <= r[k]
<1> DEFINE u == r[k]
<1>1. k \in Nat /\ j \in Nat /\ Len(r) \in Nat
  BY LenProperties
<1>2. /\ u \in DOMAIN leader_log /\ u \in Nat
      /\ leader_log[u] \in Seq(Nat) /\ Len(leader_log[u]) \in Nat
  BY LogTypes DEF FromLeader
<1>3. k <= Len(leader_log[u]) /\ r[j] = leader_log[u][j]
  BY DEF FromLeader, Agree
<1>4. j \in 1..Len(leader_log[u])
  BY <1>1, <1>2, <1>3
<1>5. leader_log[u][j] <= u
  BY <1>2, <1>4 DEF LeadersFromLeaders
<1> QED
  BY <1>3, <1>5

-----------------------------------------------------------------------------
(* Steps that leave a part of the invariant alone *)

\* The recorded logs of leaders are only extended.
LeaderLogsGrow ==
    \A t \in DOMAIN leader_log :
        /\ t \in DOMAIN leader_log'
        /\ Agree(leader_log'[t], leader_log[t], Len(leader_log[t]))

\* In particular they may stay as they are.
LEMMA LeaderLogsSame ==
    ASSUME TypeOK, UNCHANGED leader_log
    PROVE  LeaderLogsGrow
BY LogTypes DEF LeaderLogsGrow, Agree

\* What went back to a leader still does.
LEMMA FromLeaderKept ==
    ASSUME TypeOK, TypeOK', LeaderLogsGrow, NEW r \in Seq(Nat), NEW k \in Nat,
           FromLeader(r, k)
    PROVE  r[k] \in DOMAIN leader_log' /\ Agree(r, leader_log'[r[k]], k)
<1> DEFINE u == r[k]
<1>1. u \in DOMAIN leader_log /\ Agree(r, leader_log[u], k)
  BY DEF FromLeader
<1>2. u \in DOMAIN leader_log' /\ Agree(leader_log'[u], leader_log[u], Len(leader_log[u]))
  BY <1>1 DEF LeaderLogsGrow
<1>3. /\ leader_log[u] \in Seq(Nat) /\ Len(leader_log[u]) \in Nat
      /\ leader_log'[u] \in Seq(Nat) /\ k <= Len(leader_log[u])
  BY <1>1, <1>2, LogTypes, LogTypesAfter DEF Agree
<1>4. Agree(leader_log'[u], leader_log[u], k)
  BY <1>2, <1>3, AgreeRules
<1>5. Agree(r, leader_log'[u], k)
  BY <1>1, <1>3, <1>4, AgreeRules
<1> QED
  BY <1>2, <1>5

\* LeadersRecorded holds on while no leadership is won and terms only grow.
LEMMA RecordedKept ==
    ASSUME TypeOK, TypeOK', LeadersRecorded, TermsGrow, UNCHANGED <<elected, leader_log>>
    PROVE  LeadersRecorded'
<1> SUFFICES ASSUME NEW e \in elected PROVE 0 < e[1] /\ e[1] <= current_term'[e[2]]
  BY DEF LeadersRecorded
<1>1. e[1] \in Nat /\ e[2] \in Node
  BY DEF TypeOK
<1>2. 0 < e[1] /\ e[1] <= current_term[e[2]] /\ current_term[e[2]] <= current_term'[e[2]]
  BY <1>1 DEF LeadersRecorded, TermsGrow
<1> QED
  BY <1>1, <1>2, LogTypes, LogTypesAfter

\* So does CandidatesFresh, while nobody becomes Candidate,
LEMMA FreshKept ==
    ASSUME CandidatesFresh, KeepsPowers, UNCHANGED elected
    PROVE  CandidatesFresh'
BY DEF CandidatesFresh, KeepsPowers, KeepsPowersBut

\* VotesReached, while nobody votes or asks for votes,
LEMMA ReachedKept ==
    ASSUME TypeOK, TypeOK', VotesReached, TermsGrow, KeepsVoteRequests, UNCHANGED ballots
    PROVE  VotesReached'
<1>1. ASSUME NEW b \in ballots PROVE b[2] <= current_term'[b[3]]
  <2>1. b[2] \in Nat /\ b[3] \in Node
    BY DEF TypeOK
  <2>2. b[2] <= current_term[b[3]] /\ current_term[b[3]] <= current_term'[b[3]]
    BY <2>1 DEF VotesReached, TermsGrow
  <2> QED
    BY <2>1, <2>2, LogTypes, LogTypesAfter
<1>2. ASSUME NEW m \in rpcs', m.type = "RequestVoteRequest"
      PROVE  m.term <= current_term'[m.src]
  <2>1. CASE FromSittingLeader(m)
    BY <2>1, LogTypesAfter DEF FromSittingLeader
  <2>2. CASE \E q \in rpcs : IsVoteRequest(m, q)
    <3>1. PICK q \in rpcs : IsVoteRequest(m, q)
      BY <2>2
    <3>2. m.term \in Nat /\ m.src \in Node
      BY <3>1, AppendTypes DEF IsVoteRequest
    <3>3. m.term <= current_term[m.src] /\ current_term[m.src] <= current_term'[m.src]
      BY <3>1, <3>2 DEF VotesReached, TermsGrow, IsVoteRequest
    <3> QED
      BY <3>2, <3>3, LogTypes, LogTypesAfter
  <2> QED
    BY <1>2, <2>1, <2>2 DEF KeepsVoteRequests
<1> QED
  BY <1>1, <1>2 DEF VotesReached

\* RequestsShowLog, while candidates keep their logs,
LEMMA ShowLogKept ==
    ASSUME TypeOK, RequestsShowLog, KeepsPowers, KeepsVoteRequests
    PROVE  RequestsShowLog'
<1> SUFFICES ASSUME NEW m \in rpcs', m.type = "RequestVoteRequest",
                    role'[m.src] = "Candidate", m.term = current_term'[m.src]
             PROVE  /\ m.last_index = Len(log'[m.src])
                    /\ m.last_term = last_log_term(log'[m.src])
  BY DEF RequestsShowLog
<1>1. PICK q \in rpcs : IsVoteRequest(m, q)
  BY DEF KeepsVoteRequests, FromSittingLeader
<1>2. m.src \in Node
  BY <1>1, AppendTypes DEF IsVoteRequest
<1>3. /\ role[m.src] = "Candidate"
      /\ current_term'[m.src] = current_term[m.src]
      /\ log'[m.src] = log[m.src]
  BY <1>2 DEF KeepsPowers, KeepsPowersBut
<1> QED
  BY <1>1, <1>3 DEF RequestsShowLog, IsVoteRequest

\* LeaderOwnsLog, while leaders keep their logs,
LEMMA OwnsKept ==
    ASSUME LeaderOwnsLog, KeepsPowers, UNCHANGED leader_log
    PROVE  LeaderOwnsLog'
BY DEF LeaderOwnsLog, KeepsPowers, KeepsPowersBut

\* LogsFromLeaders, while no log changes,
LEMMA LogsKept ==
    ASSUME TypeOK, TypeOK', LogsFromLeaders, LeaderLogsGrow, UNCHANGED log
    PROVE  LogsFromLeaders'
<1> SUFFICES ASSUME NEW n \in Node, NEW k \in 1..Len(log[n]) PROVE FromLeader(log[n], k)'
  BY DEF LogsFromLeaders
<1>1. FromLeader(log[n], k) /\ k \in Nat /\ log[n] \in Seq(Nat)
  BY LogTypes DEF LogsFromLeaders
<1> QED
  BY <1>1, FromLeaderKept DEF FromLeader

\* RequestsFromLeaders, while no AppendEntries is sent,
LEMMA RequestsKept ==
    ASSUME TypeOK, TypeOK', RequestsFromLeaders, LeaderLogsGrow, TermsGrow, KeepsAppends
    PROVE  RequestsFromLeaders'
<1> SUFFICES ASSUME NEW m \in rpcs', m.type = "AppendEntriesRequest"
             PROVE  \E e \in DOMAIN leader_log' :
                        /\ m.term <= e
                        /\ e <= current_term'[m.src]
                        /\ SegmentOf(m, leader_log'[e])
  BY DEF RequestsFromLeaders, SegmentOf
<1>1. PICK q \in rpcs : IsAppend(m, q)
  BY DEF KeepsAppends
<1>2. /\ m.src \in Node /\ m.term \in Nat /\ m.prev_index \in Nat
      /\ m.entries \in Seq(Nat) /\ Len(m.entries) \in Nat
  BY <1>1, AppendTypes DEF IsAppend
<1>3. PICK e \in DOMAIN leader_log : /\ m.term <= e
                                     /\ e <= current_term[m.src]
                                     /\ SegmentOf(m, leader_log[e])
  BY <1>1 DEF RequestsFromLeaders, IsAppend, SegmentOf
<1>4. /\ e \in DOMAIN leader_log'
      /\ Agree(leader_log'[e], leader_log[e], Len(leader_log[e]))
  BY <1>3 DEF LeaderLogsGrow
<1>5. /\ e \in Nat /\ Len(leader_log[e]) \in Nat /\ Len(leader_log'[e]) \in Nat
      /\ current_term[m.src] \in Nat /\ current_term'[m.src] \in Nat
  BY <1>2, <1>3, <1>4, LogTypes, LogTypesAfter
<1>6. e <= current_term'[m.src]
  BY <1>2, <1>3, <1>5 DEF TermsGrow
<1>7. SegmentOf(m, leader_log'[e])
  <2>1. m.prev_index + Len(m.entries) <= Len(leader_log[e])
    BY <1>3 DEF SegmentOf
  <2>2. /\ leader_log[e] \in Seq(Nat) /\ leader_log'[e] \in Seq(Nat)
        /\ m.prev_index + Len(m.entries) \in Nat
    BY <1>2, <1>3, <1>4, LogTypes, LogTypesAfter
  <2>3. Agree(leader_log'[e], leader_log[e], m.prev_index + Len(m.entries))
    BY <1>4, <1>5, <2>1, <2>2, AgreeRules
  <2> QED
    BY <1>2, <1>3, <2>2, <2>3, SegmentShared
<1> QED
  BY <1>3, <1>4, <1>6, <1>7

\* RepliesFromLeaders, while none is accepted,
LEMMA RepliesKept ==
    ASSUME TypeOK, TypeOK', RepliesFromLeaders, LeaderLogsGrow, TermsGrow,
           NEW m \in rpcs, m.type = "AppendEntriesResponse", m.success
    PROVE  \E e \in DOMAIN leader_log' :
              /\ m.round <= e
              /\ e <= current_term'[m.dst]
              /\ m.sent_prev_index + m.sent_len <= Len(leader_log'[e])
<1>1. /\ m.dst \in Node /\ m.round \in Nat
      /\ m.sent_prev_index \in Nat /\ m.sent_len \in Nat
  BY AppendTypes
<1>2. PICK e \in DOMAIN leader_log :
              /\ m.round <= e
              /\ e <= current_term[m.dst]
              /\ m.sent_prev_index + m.sent_len <= Len(leader_log[e])
  BY DEF RepliesFromLeaders
<1>3. e \in DOMAIN leader_log' /\ Len(leader_log[e]) <= Len(leader_log'[e])
  BY <1>2 DEF LeaderLogsGrow, Agree
<1>4. /\ e \in Nat /\ Len(leader_log[e]) \in Nat /\ Len(leader_log'[e]) \in Nat
      /\ current_term[m.dst] \in Nat /\ current_term'[m.dst] \in Nat
  BY <1>1, <1>2, <1>3, LogTypes, LogTypesAfter
<1>5. e <= current_term'[m.dst]
  BY <1>1, <1>2, <1>4 DEF TermsGrow
<1>6. m.sent_prev_index + m.sent_len <= Len(leader_log'[e])
  BY <1>1, <1>2, <1>3, <1>4
<1> QED
  BY <1>2, <1>3, <1>5, <1>6

\* FutureBlocked, while nobody votes or becomes Candidate,
LEMMA BlockedKept ==
    ASSUME TypeOK, TypeOK', FutureBlocked, NEW S, KeepsPowersBut(S), TermsGrow,
           \A b \in ballots' : b \in ballots \/ current_term[b[1]] <= b[2]
    PROVE  \A c \in Node \ S : Blocked(c)'
<1> SUFFICES ASSUME NEW c \in Node \ S, role'[c] = "Candidate",
                    NEW k \in 1..Len(log'[c]), log'[c][k] > current_term'[c]
             PROVE  \E V \in SUBSET Node :
                      /\ Cardinality(V) >= Quorum
                      /\ \A p \in V : /\ current_term'[p] > current_term'[c]
                                      /\ <<p, current_term'[c], c>> \notin ballots'
  BY DEF Blocked
<1>1. role[c] = "Candidate" /\ current_term'[c] = current_term[c] /\ log'[c] = log[c]
  BY DEF KeepsPowersBut
<1>2. PICK V \in SUBSET Node :
                      /\ Cardinality(V) >= Quorum
                      /\ \A p \in V : /\ current_term[p] > current_term[c]
                                      /\ <<p, current_term[c], c>> \notin ballots
  BY <1>1 DEF FutureBlocked, Blocked
<1>3. ASSUME NEW p \in V
      PROVE  /\ current_term'[p] > current_term'[c]
             /\ <<p, current_term'[c], c>> \notin ballots'
  <2>1. /\ current_term[p] \in Nat /\ current_term'[p] \in Nat /\ current_term[c] \in Nat
        /\ current_term[p] > current_term[c] /\ current_term[p] <= current_term'[p]
    BY <1>2, LogTypes, LogTypesAfter DEF TermsGrow
  <2>2. ASSUME <<p, current_term[c], c>> \in ballots' PROVE FALSE
    <3>1. <<p, current_term[c], c>> \notin ballots
      BY <1>2
    <3>2. current_term[p] <= current_term[c]
      BY <2>2, <3>1
    <3> QED
      BY <2>1, <3>2
  <2> QED
    BY <1>1, <2>1, <2>2
<1> QED
  BY <1>2, <1>3

\* and IndexBounds, while leaders keep their logs and indices.
LEMMA BoundsKept ==
    ASSUME IndexBounds, KeepsPowers
    PROVE  IndexBounds'
BY DEF IndexBounds, KeepsPowers, KeepsPowersBut

-----------------------------------------------------------------------------
(* The steps, one kind at a time *)

\* A step that touches no log, vote or leadership.
LEMMA SteadyLineage ==
    ASSUME TypeOK, TypeOK', LineageInv, TermsGrow, KeepsPowers,
           KeepsVoteRequests, KeepsAcks, RequestsFromLeaders',
           UNCHANGED <<log, ballots, elected, leader_log>>
    PROVE  LineageInv'
<1> USE DEF LineageInv
<1>1. LeaderLogsGrow
  BY LeaderLogsSame
<1>2. LeadersRecorded' /\ CandidatesFresh' /\ VotesReached' /\ RequestsShowLog'
  BY RecordedKept, FreshKept, ReachedKept, ShowLogKept
<1>3. LeaderOwnsLog' /\ LogsFromLeaders' /\ IndexBounds'
  BY <1>1, OwnsKept, LogsKept, BoundsKept
<1>4. LeadersFromLeaders'
  BY DEF LeadersFromLeaders, FromLeader
<1>5. RepliesFromLeaders'
  BY <1>1, RepliesKept DEF RepliesFromLeaders, KeepsAcks
<1>6. FutureBlocked'
  BY BlockedKept DEF FutureBlocked, KeepsPowers
<1> QED
  BY <1>2, <1>3, <1>4, <1>5, <1>6

\* A campaign: nobody has voted for n in its new term, and whoever wrote an
\* entry of a later term has a quorum of voters that never will.
LEMMA CampaignLineage ==
    ASSUME TypeOK, TypeOK', VotingInv, LineageInv, NEW n \in Node, Campaigns(n)
    PROVE  LineageInv'
<1> USE DEF LineageInv
<1> DEFINE t == current_term[n] + 1
<1>1. /\ current_term' = [current_term EXCEPT ![n] = t]
      /\ role' = [role EXCEPT ![n] = "Candidate"]
      /\ ballots' = ballots \cup {<<n, t, n>>}
      /\ UNCHANGED <<next_index, match_index, log, elected, leader_log>>
  BY DEF Campaigns, into_candidate
<1>2. current_term[n] \in Nat /\ t \in Nat /\ t > current_term[n] /\ current_term'[n] = t
  BY <1>1 DEF TypeOK
<1>3. \A p \in Node \ {n} : current_term'[p] = current_term[p] /\ role'[p] = role[p]
  BY <1>1 DEF TypeOK
<1>4. TermsGrow /\ KeepsPowersBut({n}) /\ LeaderLogsGrow
  <2>1. TermsGrow
    BY <1>2, <1>3, LogTypes DEF TermsGrow
  <2>2. KeepsPowersBut({n})
    BY <1>1, <1>3 DEF KeepsPowersBut
  <2> QED
    BY <1>1, <2>1, <2>2, LeaderLogsSame
<1>5. LeadersRecorded'
  BY <1>1, <1>4, RecordedKept
<1>6. CandidatesFresh'
  <2>1. <<t, n>> \notin elected
    BY <1>2 DEF LeadersRecorded
  <2> QED
    BY <1>1, <1>2, <1>3, <2>1 DEF CandidatesFresh
<1>7. VotesReached'
  <2>1. ASSUME NEW b \in ballots' PROVE b[2] <= current_term'[b[3]]
    <3>1. CASE b \in ballots
      <4>1. b[2] \in Nat /\ b[3] \in Node
        BY <3>1 DEF TypeOK
      <4>2. b[2] <= current_term[b[3]] /\ current_term[b[3]] <= current_term'[b[3]]
        BY <1>4, <3>1, <4>1 DEF VotesReached, TermsGrow
      <4> QED
        BY <4>1, <4>2, LogTypes, LogTypesAfter
    <3>2. CASE b = <<n, t, n>>
      BY <1>2, <3>2
    <3> QED
      BY <1>1, <3>1, <3>2
  <2>2. ASSUME NEW m \in rpcs', m.type = "RequestVoteRequest"
        PROVE  m.term <= current_term'[m.src]
    <3>1. CASE \E q \in rpcs : IsVoteRequest(m, q)
      <4>1. PICK q \in rpcs : IsVoteRequest(m, q)
        BY <3>1
      <4>2. m.term \in Nat /\ m.src \in Node
        BY <4>1, AppendTypes DEF IsVoteRequest
      <4>3. m.term <= current_term[m.src] /\ current_term[m.src] <= current_term'[m.src]
        BY <1>4, <4>1, <4>2 DEF VotesReached, TermsGrow, IsVoteRequest
      <4> QED
        BY <4>2, <4>3, LogTypes, LogTypesAfter
    <3>2. CASE m.src = n /\ m.term = t
      BY <1>2, <3>2
    <3> QED
      BY <2>2, <3>1, <3>2 DEF Campaigns
  <2> QED
    BY <2>1, <2>2 DEF VotesReached
<1>8. RequestsShowLog'
  <2> SUFFICES ASSUME NEW m \in rpcs', m.type = "RequestVoteRequest",
                      role'[m.src] = "Candidate", m.term = current_term'[m.src]
               PROVE  /\ m.last_index = Len(log'[m.src])
                      /\ m.last_term = last_log_term(log'[m.src])
    BY DEF RequestsShowLog
  <2>1. CASE \E q \in rpcs : IsVoteRequest(m, q)
    <3>1. PICK q \in rpcs : IsVoteRequest(m, q)
      BY <2>1
    <3>2. m.src \in Node /\ m.term \in Nat
      BY <3>1, AppendTypes DEF IsVoteRequest
    <3>3. m.src # n
      <4>1. m.term <= current_term[m.src]
        BY <3>1 DEF VotesReached, IsVoteRequest
      <4> QED
        BY <1>2, <3>2, <4>1
    <3> QED
      BY <1>1, <1>3, <3>1, <3>2, <3>3 DEF RequestsShowLog, IsVoteRequest
  <2>2. CASE m.src = n /\ m.last_index = Len(log[n]) /\ m.last_term = last_log_term(log[n])
    BY <1>1, <2>2
  <2> QED
    BY <2>1, <2>2 DEF Campaigns
<1>9. LeaderOwnsLog' /\ IndexBounds'
  <2>1. \A p \in Node : role'[p] = "Leader" =>
          role[p] = "Leader" /\ current_term'[p] = current_term[p]
    BY <1>1, <1>3 DEF TypeOK
  <2> QED
    BY <1>1, <2>1 DEF LeaderOwnsLog, IndexBounds
<1>10. LogsFromLeaders' /\ LeadersFromLeaders' /\ RequestsFromLeaders'
  <2>1. LogsFromLeaders' /\ RequestsFromLeaders'
    BY <1>1, <1>4, LogsKept, RequestsKept DEF Campaigns
  <2> QED
    BY <1>1, <2>1 DEF LeadersFromLeaders, FromLeader
<1>11. RepliesFromLeaders'
  BY <1>4, RepliesKept DEF RepliesFromLeaders, KeepsAcks, Campaigns
<1>12. Blocked(n)'
  <2> SUFFICES ASSUME NEW k \in 1..Len(log[n]), log[n][k] > t
               PROVE  \E V \in SUBSET Node :
                        /\ Cardinality(V) >= Quorum
                        /\ \A p \in V : /\ current_term'[p] > t
                                        /\ <<p, t, n>> \notin ballots'
    BY <1>1, <1>2 DEF Blocked
  <2> DEFINE u == log[n][k]
  <2>1. u \in DOMAIN leader_log /\ u \in Nat
    BY LogTypes DEF LogsFromLeaders, FromLeader
  <2>2. PICK e \in elected : e[1] = u
    BY <2>1 DEF LeadersRecorded
  <2>3. PICK V \in SUBSET Node : /\ Cardinality(V) >= Quorum
                                 /\ \A v \in V : <<v, u, e[2]>> \in ballots
    BY <2>2 DEF VotingInv, LeadersHaveQuorum
  <2>4. ASSUME NEW v \in V PROVE current_term'[v] > t /\ <<v, t, n>> \notin ballots'
    <3>1. u <= current_term[v] /\ current_term[v] \in Nat
      BY <2>3, LogTypes DEF VotingInv, BallotsPersisted
    <3>2. v # n
      BY <1>2, <2>1, <3>1
    <3>3. <<v, t, n>> \notin ballots
      BY <1>2 DEF VotesReached
    <3> QED
      BY <1>1, <1>2, <1>3, <2>1, <3>1, <3>2, <3>3
  <2> QED
    BY <2>3, <2>4
<1>13. FutureBlocked'
  <2>1. \A b \in ballots' : b \in ballots \/ current_term[b[1]] <= b[2]
    BY <1>1, <1>2
  <2>2. \A c \in Node \ {n} : Blocked(c)'
    BY <1>4, <2>1, BlockedKept
  <2> QED
    BY <1>12, <2>2 DEF FutureBlocked
<1> QED
  BY <1>5, <1>6, <1>7, <1>8, <1>9, <1>10, <1>11, <1>13

\* A vote: its candidate has reached the term.
LEMMA VoteLineage ==
    ASSUME TypeOK, TypeOK', LineageInv, NEW m \in rpcs, Votes(m)
    PROVE  LineageInv'
<1> USE DEF LineageInv
<1> DEFINE b0 == <<m.dst, m.term, m.src>>
<1>1. /\ TermsGrow /\ KeepsPowers /\ KeepsVoteRequests /\ KeepsAppends /\ KeepsAcks
      /\ UNCHANGED <<log, elected, leader_log>>
      /\ ballots' = ballots \cup {b0}
  BY DEF Votes
<1>2. /\ m.src \in Node /\ m.dst \in Node /\ m.term \in Nat
      /\ current_term[m.dst] \in Nat /\ current_term[m.src] \in Nat
      /\ current_term'[m.src] \in Nat
  BY AppendTypes, LogTypes, LogTypesAfter
<1>3. LeaderLogsGrow
  BY <1>1, LeaderLogsSame
<1>4. LeadersRecorded' /\ CandidatesFresh' /\ RequestsShowLog'
  BY <1>1, RecordedKept, FreshKept, ShowLogKept
<1>5. LeaderOwnsLog' /\ LogsFromLeaders' /\ RequestsFromLeaders' /\ IndexBounds'
  BY <1>1, <1>3, OwnsKept, LogsKept, RequestsKept, BoundsKept
<1>6. LeadersFromLeaders'
  BY <1>1 DEF LeadersFromLeaders, FromLeader
<1>7. RepliesFromLeaders'
  BY <1>1, <1>3, RepliesKept DEF RepliesFromLeaders, KeepsAcks
<1>8. FutureBlocked'
  <2>1. \A b \in ballots' : b \in ballots \/ current_term[b[1]] <= b[2]
    BY <1>1, <1>2 DEF Votes
  <2> QED
    BY <1>1, <2>1, BlockedKept DEF FutureBlocked, KeepsPowers
<1>9. VotesReached'
  <2>1. ASSUME NEW b \in ballots' PROVE b[2] <= current_term'[b[3]]
    <3>1. CASE b \in ballots
      <4>1. b[2] \in Nat /\ b[3] \in Node
        BY <3>1 DEF TypeOK
      <4>2. b[2] <= current_term[b[3]] /\ current_term[b[3]] <= current_term'[b[3]]
        BY <1>1, <3>1, <4>1 DEF VotesReached, TermsGrow
      <4> QED
        BY <4>1, <4>2, LogTypes, LogTypesAfter
    <3>2. CASE b = b0
      <4>1. m.term <= current_term[m.src] /\ current_term[m.src] <= current_term'[m.src]
        BY <1>1, <1>2 DEF VotesReached, TermsGrow, Votes
      <4> QED
        BY <1>2, <3>2, <4>1
    <3> QED
      BY <1>1, <3>1, <3>2
  <2>2. ASSUME NEW q \in rpcs', q.type = "RequestVoteRequest"
        PROVE  q.term <= current_term'[q.src]
    <3>1. CASE FromSittingLeader(q)
      BY <3>1, LogTypesAfter DEF FromSittingLeader
    <3>2. CASE \E r \in rpcs : IsVoteRequest(q, r)
      <4>1. PICK r \in rpcs : IsVoteRequest(q, r)
        BY <3>2
      <4>2. q.term \in Nat /\ q.src \in Node
        BY <4>1, AppendTypes DEF IsVoteRequest
      <4>3. q.term <= current_term[q.src] /\ current_term[q.src] <= current_term'[q.src]
        BY <1>1, <4>1, <4>2 DEF VotesReached, TermsGrow, IsVoteRequest
      <4> QED
        BY <4>2, <4>3, LogTypes, LogTypesAfter
    <3> QED
      BY <1>1, <2>2, <3>1, <3>2 DEF KeepsVoteRequests
  <2> QED
    BY <2>1, <2>2 DEF VotesReached
<1> QED
  BY <1>4, <1>5, <1>6, <1>7, <1>8, <1>9

\* A win: the term had no leader, and the log of the new one holds no entry
\* of that term or of a later one.
LEMMA WinIsFirst ==
    ASSUME TypeOK, VotingInv, LineageInv, NEW n \in Node, NEW Q \in SUBSET Node, Wins(n, Q)
    PROVE  /\ current_term[n] \notin DOMAIN leader_log
           /\ \A k \in 1..Len(log[n]) : log[n][k] < current_term[n]
<1> USE DEF LineageInv
<1> DEFINE t == current_term[n]
<1>1. /\ role[n] = "Candidate" /\ t \in Nat /\ Cardinality(Q) >= Quorum
      /\ \A v \in Q : <<v, t, n>> \in ballots
  BY LogTypes DEF Wins
<1>2. ASSUME t \in DOMAIN leader_log PROVE FALSE
  <2>1. PICK e \in elected : e[1] = t
    BY <1>2 DEF LeadersRecorded
  <2>2. PICK P \in SUBSET Node : /\ Cardinality(P) >= Quorum
                                 /\ \A v \in P : <<v, e[1], e[2]>> \in ballots
    BY DEF VotingInv, LeadersHaveQuorum
  <2>3. PICK v \in P : v \in Q
    BY <1>1, <2>2, QuorumsIntersect
  <2>4. e[2] = n
    BY <1>1, <2>1, <2>2, <2>3 DEF VotingInv, OneBallotPerTerm
  <2>5. e \in Nat \X Node
    BY DEF TypeOK
  <2>6. <<t, n>> \in elected
    BY <2>1, <2>4, <2>5
  <2> QED
    BY <1>1, <2>6 DEF CandidatesFresh
<1>3. ASSUME NEW k \in 1..Len(log[n]) PROVE log[n][k] < t
  <2>1. log[n][k] \in DOMAIN leader_log /\ log[n][k] \in Nat
    BY LogTypes DEF LogsFromLeaders, FromLeader
  <2>2. ASSUME log[n][k] > t PROVE FALSE
    <3>1. PICK V \in SUBSET Node : /\ Cardinality(V) >= Quorum
                                   /\ \A p \in V : <<p, t, n>> \notin ballots
      BY <1>1, <2>2 DEF FutureBlocked, Blocked
    <3>2. PICK v \in V : v \in Q
      BY <1>1, <3>1, QuorumsIntersect
    <3> QED
      BY <1>1, <3>1, <3>2
  <2> QED
    BY <1>1, <1>2, <2>1, <2>2
<1> QED
  BY <1>2, <1>3

\* A leadership is won: its log is recorded under a term that had none.
LEMMA WinLineage ==
    ASSUME TypeOK, TypeOK', VotingInv, LineageInv,
           NEW n \in Node, NEW Q \in SUBSET Node, Wins(n, Q)
    PROVE  LineageInv'
<1> USE DEF LineageInv
<1> DEFINE t == current_term[n]
<1>1. /\ role[n] = "Candidate" /\ role' = [role EXCEPT ![n] = "Leader"]
      /\ elected' = elected \cup {<<t, n>>}
      /\ leader_log' = [u \in DOMAIN leader_log \cup {t} |->
                           IF u = t THEN log[n] ELSE leader_log[u]]
      /\ UNCHANGED <<current_term, log, ballots>>
      /\ KeepsVoteRequests /\ KeepsAppends /\ KeepsAcks
  BY DEF Wins, into_leader, hardState
<1>2. t \in Nat /\ t \notin DOMAIN leader_log /\ \A k \in 1..Len(log[n]) : log[n][k] < t
  BY WinIsFirst, LogTypes
<1>3. /\ DOMAIN leader_log' = DOMAIN leader_log \cup {t} /\ leader_log'[t] = log[n]
      /\ \A u \in DOMAIN leader_log : leader_log'[u] = leader_log[u]
  BY <1>1, <1>2
<1>4. TermsGrow /\ KeepsPowersBut({n}) /\ LeaderLogsGrow
  <2>1. TermsGrow
    BY <1>1, LogTypes DEF TermsGrow
  <2>2. KeepsPowersBut({n})
    BY <1>1 DEF KeepsPowersBut, Wins, into_leader, TypeOK
  <2>3. LeaderLogsGrow
    BY <1>3, LogTypes DEF LeaderLogsGrow, Agree
  <2> QED
    BY <2>1, <2>2, <2>3
<1>5. LeadersRecorded'
  <2>1. DOMAIN leader_log' = {e[1] : e \in elected'}
    <3>1. DOMAIN leader_log = {e[1] : e \in elected}
      BY DEF LeadersRecorded
    <3>2. ASSUME NEW e \in elected' PROVE e[1] \in DOMAIN leader_log'
      BY <1>1, <1>3, <3>1
    <3>3. ASSUME NEW u \in DOMAIN leader_log' PROVE \E e \in elected' : u = e[1]
      <4>1. u = t => u = <<t, n>>[1]
        OBVIOUS
      <4> QED
        BY <1>1, <1>3, <3>1, <4>1
    <3> QED
      BY <3>2, <3>3
  <2>2. 0 < t
    BY <1>1, <1>2 DEF CandidatesFresh
  <2>3. \A e \in elected' : 0 < e[1] /\ e[1] <= current_term'[e[2]]
    BY <1>1, <1>2, <2>2 DEF LeadersRecorded
  <2> QED
    BY <2>1, <2>3 DEF LeadersRecorded
<1>6. \A p \in Node \ {n} : role'[p] = role[p]
  BY <1>1 DEF TypeOK
<1>7. role'[n] = "Leader"
  BY <1>1 DEF TypeOK
<1>8. CandidatesFresh'
  BY <1>1, <1>6, <1>7 DEF CandidatesFresh
<1>9. VotesReached'
  BY <1>1, <1>4, ReachedKept
<1>10. RequestsShowLog'
  <2> SUFFICES ASSUME NEW m \in rpcs', m.type = "RequestVoteRequest",
                      role'[m.src] = "Candidate", m.term = current_term'[m.src]
               PROVE  /\ m.last_index = Len(log'[m.src])
                      /\ m.last_term = last_log_term(log'[m.src])
    BY DEF RequestsShowLog
  <2>1. PICK q \in rpcs : IsVoteRequest(m, q)
    BY <1>1 DEF KeepsVoteRequests, FromSittingLeader
  <2>2. m.src \in Node
    BY <2>1, AppendTypes DEF IsVoteRequest
  <2>3. role[m.src] = "Candidate"
    BY <1>6, <1>7, <2>2
  <2> QED
    BY <1>1, <2>1, <2>3 DEF RequestsShowLog, IsVoteRequest
<1>11. LeaderOwnsLog'
  BY <1>1, <1>3, <1>6 DEF LeaderOwnsLog
<1>12. LogsFromLeaders' /\ RequestsFromLeaders'
  BY <1>1, <1>4, LogsKept, RequestsKept
<1>13. LeadersFromLeaders'
  <2> SUFFICES ASSUME NEW u \in DOMAIN leader_log', NEW k \in 1..Len(leader_log'[u])
               PROVE  FromLeader(leader_log[u], k)' /\ leader_log'[u][k] <= u
    BY DEF LeadersFromLeaders
  <2>1. CASE u \in DOMAIN leader_log
    <3>1. /\ FromLeader(leader_log[u], k) /\ leader_log[u][k] <= u
          /\ leader_log[u] \in Seq(Nat) /\ k \in Nat /\ leader_log'[u] = leader_log[u]
      BY <1>3, <2>1, LogTypes DEF LeadersFromLeaders
    <3>2. FromLeader(leader_log[u], k)'
      BY <1>4, <3>1, FromLeaderKept DEF FromLeader
    <3> QED
      BY <3>1, <3>2
  <2>2. CASE u = t
    <3>1. leader_log'[u] = log[n] /\ log[n] \in Seq(Nat) /\ k \in Nat
      BY <1>3, <2>2, LogTypes
    <3>2. FromLeader(log[n], k) /\ log[n][k] < t /\ log[n][k] \in Nat
      BY <1>2, <3>1, LogTypes DEF LogsFromLeaders, FromLeader
    <3>3. FromLeader(leader_log[u], k)'
      BY <1>4, <3>1, <3>2, FromLeaderKept DEF FromLeader
    <3> QED
      BY <1>2, <2>2, <3>1, <3>2, <3>3
  <2> QED
    BY <1>3, <2>1, <2>2
<1>14. RepliesFromLeaders'
  BY <1>1, <1>4, RepliesKept DEF RepliesFromLeaders, KeepsAcks
<1>15. FutureBlocked'
  <2>1. \A c \in Node \ {n} : Blocked(c)'
    BY <1>1, <1>4, BlockedKept
  <2>2. Blocked(n)'
    BY <1>7 DEF Blocked
  <2> QED
    BY <2>1, <2>2 DEF FutureBlocked
<1>16. IndexBounds'
  <2>1. /\ next_index' = [next_index EXCEPT ![n] = [p \in Node |-> Len(log[n]) + 1]]
        /\ match_index' = [match_index EXCEPT ![n] = [p \in Node |-> 0]]
    BY DEF Wins, into_leader, initial_next_index
  <2>2. \A p \in Node : next_index'[n][p] = Len(log[n]) + 1 /\ match_index'[n][p] = 0
    BY <2>1 DEF TypeOK
  <2>3. Len(log[n]) \in Nat
    BY LogTypes
  <2>4. \A a \in Node \ {n} : next_index'[a] = next_index[a] /\ match_index'[a] = match_index[a]
    BY <2>1 DEF TypeOK
  <2>5. \A p \in Node : match_index'[n][p] <= Len(log'[n]) /\ next_index'[n][p] <= Len(log'[n]) + 1
    BY <1>1, <2>2, <2>3
  <2> QED
    BY <1>1, <1>6, <2>4, <2>5 DEF IndexBounds
<1> QED
  BY <1>5, <1>8, <1>9, <1>10, <1>11, <1>12, <1>13, <1>14, <1>15, <1>16

\* Appending an entry leaves the ones before it alone.
LEMMA AppendIs ==
    ASSUME NEW lg \in Seq(Nat), NEW t \in Nat
    PROVE  /\ Append(lg, t) \in Seq(Nat)
           /\ Len(Append(lg, t)) = Len(lg) + 1
           /\ Agree(Append(lg, t), lg, Len(lg))
           /\ Append(lg, t)[Len(lg) + 1] = t
<1>1. Len(lg) \in Nat
  BY LenProperties
<1>2. /\ Append(lg, t) \in Seq(Nat)
      /\ Len(Append(lg, t)) = Len(lg) + 1
      /\ \A i \in 1..Len(lg) : Append(lg, t)[i] = lg[i]
      /\ Append(lg, t)[Len(lg) + 1] = t
  BY AppendProperties
<1> QED
  BY <1>1, <1>2 DEF Agree

\* A proposal: the leader's log and the one recorded for its term, which no
\* other leader has, grow together.
LEMMA ProposeLineage ==
    ASSUME TypeOK, TypeOK', VotingInv, HintInv, LineageInv, NEW n \in Node, propose(n)
    PROVE  LineageInv'
<1> USE DEF LineageInv
<1> DEFINE t == current_term[n]
           old == log[n]
           new == Append(old, t)
<1>1. /\ role[n] = "Leader" /\ t \in Nat /\ old \in Seq(Nat) /\ Len(old) \in Nat
      /\ t \in DOMAIN leader_log /\ leader_log[t] = old
  BY LogTypes DEF propose, LeaderOwnsLog
<1>2. /\ new \in Seq(Nat) /\ Len(new) = Len(old) + 1 /\ Agree(new, old, Len(old))
      /\ new[Len(old) + 1] = t
  BY <1>1, AppendIs
<1>3. /\ log'[n] = new /\ \A p \in Node \ {n} : log'[p] = log[p]
      /\ UNCHANGED <<current_term, role, next_index, match_index, rpcs, ballots, elected>>
  BY DEF propose, hardState, roleState, TypeOK
<1>4. /\ DOMAIN leader_log' = DOMAIN leader_log /\ leader_log'[t] = new
      /\ \A u \in DOMAIN leader_log \ {t} : leader_log'[u] = leader_log[u]
  BY <1>1, <1>3 DEF propose, TypeOK
<1> HIDE DEF old, new
<1>5. /\ TermsGrow /\ KeepsPowersBut({n}) /\ LeaderLogsGrow
      /\ KeepsVoteRequests /\ KeepsAppends
  <2>1. TermsGrow /\ KeepsPowersBut({n})
    BY <1>3, LogTypes DEF TermsGrow, KeepsPowersBut
  <2>2. ASSUME NEW u \in DOMAIN leader_log
        PROVE  Agree(leader_log'[u], leader_log[u], Len(leader_log[u]))
    <3>1. CASE u = t
      BY <1>1, <1>2, <1>4, <3>1
    <3>2. CASE u # t
      BY <1>4, <3>2, LogTypes DEF Agree
    <3> QED
      BY <3>1, <3>2
  <2>3. KeepsVoteRequests /\ KeepsAppends
    BY <1>3 DEF KeepsVoteRequests, KeepsAppends, IsVoteRequest, IsAppend
  <2> QED
    BY <1>4, <2>1, <2>2, <2>3 DEF LeaderLogsGrow
<1>6. LeadersRecorded' /\ CandidatesFresh'
  BY <1>3, <1>4 DEF LeadersRecorded, CandidatesFresh
<1>7. VotesReached' /\ RequestsFromLeaders'
  BY <1>3, <1>5, ReachedKept, RequestsKept
<1>8. RequestsShowLog'
  <2>1. \A m \in rpcs : m.src \in Node
    BY AppendTypes
  <2> QED
    BY <1>1, <1>3, <2>1 DEF RequestsShowLog
<1>9. LeaderOwnsLog'
  <2> SUFFICES ASSUME NEW p \in Node \ {n}, role[p] = "Leader"
               PROVE  /\ current_term[p] \in DOMAIN leader_log'
                      /\ leader_log'[current_term[p]] = log[p]
    BY <1>1, <1>3, <1>4 DEF LeaderOwnsLog
  <2>1. <<t, n>> \in elected /\ <<current_term[p], p>> \in elected
    BY <1>1 DEF HintInv, SpeaksAsElected
  <2>2. ElectionSafety
    BY VotingInvImpliesSafety DEF VotingInv
  <2>3. current_term[p] # t
    BY <2>1, <2>2 DEF ElectionSafety
  <2> QED
    BY <1>4, <2>3 DEF LeaderOwnsLog
<1>10. ASSUME NEW k \in 1..Len(new)
       PROVE  new[k] \in DOMAIN leader_log' /\ Agree(new, leader_log'[new[k]], k) /\ new[k] <= t
  <2>1. k \in Nat /\ k > 0
    BY <1>1, <1>2
  <2>2. CASE k <= Len(old)
    <3>1. k \in 1..Len(old)
      BY <1>1, <2>1, <2>2
    <3>2. FromLeader(old, k) /\ old[k] <= t
      BY <1>1, <3>1 DEF LeadersFromLeaders
    <3>3. Agree(new, old, k) /\ new[k] = old[k]
      BY <1>1, <1>2, <2>1, <2>2, <3>1 DEF Agree
    <3>4. old[k] \in DOMAIN leader_log' /\ Agree(old, leader_log'[old[k]], k)
      BY <1>1, <1>5, <2>1, <3>2, FromLeaderKept
    <3>5. leader_log'[old[k]] \in Seq(Nat)
      BY <3>4, LogTypesAfter
    <3>6. Agree(new, leader_log'[old[k]], k)
      BY <1>1, <1>2, <2>1, <3>3, <3>4, <3>5, AgreeRules
    <3> QED
      BY <3>2, <3>3, <3>4, <3>6
  <2>3. CASE k = Len(old) + 1
    BY <1>1, <1>2, <1>4, <2>1, <2>3 DEF Agree
  <2> QED
    BY <1>1, <1>2, <2>1, <2>2, <2>3
<1>11. LogsFromLeaders'
  <2> SUFFICES ASSUME NEW p \in Node, NEW k \in 1..Len(log'[p])
               PROVE  log'[p][k] \in DOMAIN leader_log' /\ Agree(log'[p], leader_log'[log'[p][k]], k)
    BY DEF LogsFromLeaders, FromLeader
  <2>1. CASE p = n
    BY <1>3, <1>10, <2>1
  <2>2. CASE p # n
    <3>1. log'[p] = log[p] /\ log[p] \in Seq(Nat) /\ k \in Nat
      BY <1>3, <2>2, LogTypes
    <3>2. FromLeader(log[p], k)
      BY <3>1 DEF LogsFromLeaders
    <3> QED
      BY <1>5, <3>1, <3>2, FromLeaderKept
  <2> QED
    BY <2>1, <2>2
<1>12. LeadersFromLeaders'
  <2> SUFFICES ASSUME NEW u \in DOMAIN leader_log', NEW k \in 1..Len(leader_log'[u])
               PROVE  /\ leader_log'[u][k] \in DOMAIN leader_log'
                      /\ Agree(leader_log'[u], leader_log'[leader_log'[u][k]], k)
                      /\ leader_log'[u][k] <= u
    BY DEF LeadersFromLeaders, FromLeader
  <2>1. CASE u = t
    BY <1>4, <1>10, <2>1
  <2>2. CASE u # t
    <3>1. leader_log'[u] = leader_log[u] /\ leader_log[u] \in Seq(Nat) /\ k \in Nat
      BY <1>4, <2>2, LogTypes
    <3>2. FromLeader(leader_log[u], k) /\ leader_log[u][k] <= u
      BY <1>4, <3>1 DEF LeadersFromLeaders
    <3> QED
      BY <1>5, <3>1, <3>2, FromLeaderKept
  <2> QED
    BY <2>1, <2>2
<1>13. RepliesFromLeaders'
  BY <1>3, <1>5, RepliesKept DEF RepliesFromLeaders
<1>14. FutureBlocked'
  <2>1. \A c \in Node \ {n} : Blocked(c)'
    BY <1>3, <1>5, BlockedKept
  <2>2. Blocked(n)'
    BY <1>1, <1>3 DEF Blocked
  <2> QED
    BY <2>1, <2>2 DEF FutureBlocked
<1>15. IndexBounds'
  <2>1. \A p \in Node : match_index[n][p] \in Nat /\ next_index[n][p] \in Nat
    BY DEF TypeOK
  <2>2. \A p \in Node : match_index[n][p] <= Len(old) /\ next_index[n][p] <= Len(old) + 1
    BY <1>1 DEF IndexBounds, old
  <2>3. \A p \in Node : match_index[n][p] <= Len(new) /\ next_index[n][p] <= Len(new) + 1
    BY <1>1, <1>2, <2>1, <2>2
  <2> QED
    BY <1>3, <2>3 DEF IndexBounds
<1> QED
  BY <1>6, <1>7, <1>8, <1>9, <1>11, <1>12, <1>13, <1>14, <1>15

\* Capturing a round's parameters.
LEMMA HeartbeatLineage ==
    ASSUME TypeOK, TypeOK', LineageInv, NEW n \in Node, SendHeartbeat(n)
    PROVE  LineageInv'
<1> USE DEF LineageInv
<1>1. UNCHANGED <<current_term, role, log, next_index, match_index, ballots, elected, leader_log>>
  BY DEF SendHeartbeat, hardState, roleState, logState, history
<1>2. \A m \in rpcs' : m \in rpcs \/ m.type = "ReplicationRound"
  BY DEF SendHeartbeat
<1>3. KeepsVoteRequests /\ KeepsAppends /\ KeepsAcks
  BY <1>2 DEF KeepsVoteRequests, KeepsAppends, KeepsAcks, IsVoteRequest, IsAppend
<1>4. TermsGrow /\ KeepsPowers /\ LeaderLogsGrow
  BY <1>1, IdleKeepsPowers, LeaderLogsSame
<1>5. RequestsFromLeaders'
  BY <1>3, <1>4, RequestsKept
<1> QED
  BY <1>1, <1>3, <1>4, <1>5, SteadyLineage

\* The entries from an index on are a segment of the log.
LEMMA TailIs ==
    ASSUME NEW lg \in Seq(Nat), NEW next \in 1..(Len(lg) + 1)
    PROVE  LET tail == SubSeq(lg, next, Len(lg))
           IN  /\ tail \in Seq(Nat)
               /\ Len(tail) \in Nat /\ (next - 1) + Len(tail) = Len(lg)
               /\ \A k \in 1..Len(tail) : tail[k] = lg[(next - 1) + k]
<1> DEFINE tail == SubSeq(lg, next, Len(lg))
<1>1. Len(lg) \in Nat /\ next \in Nat /\ 1 <= next
  BY LenProperties
<1>2. \A i \in next..Len(lg) : lg[i] \in Nat
  BY <1>1
<1>3. CASE next <= Len(lg)
  <2>1. /\ tail \in Seq(Nat)
        /\ Len(tail) = Len(lg) - next + 1
        /\ \A k \in 1..(Len(lg) - next + 1) : tail[k] = lg[next + k - 1]
    BY <1>1, <1>2, <1>3, SubSeqProperties
  <2> HIDE DEF tail
  <2>2. (next - 1) + Len(tail) = Len(lg) /\ Len(tail) \in Nat
    BY <1>1, <1>3, <2>1, SMTT(30)
  <2>3. ASSUME NEW k \in 1..Len(tail) PROVE tail[k] = lg[(next - 1) + k]
    <3>1. k \in 1..(Len(lg) - next + 1) /\ (next - 1) + k = next + k - 1
      BY <1>1, <2>1
    <3> QED
      BY <2>1, <3>1
  <2> QED
    BY <2>1, <2>2, <2>3 DEF tail
<1>4. CASE next = Len(lg) + 1
  <2>1. tail = << >>
    BY <1>1, <1>4, SubSeqProperties
  <2> QED
    BY <1>1, <1>4, <2>1
<1> QED
  BY <1>1, <1>3, <1>4

\* Building an AppendEntries: it is a segment of the leader's log as it is
\* now, in a term no earlier than the round's.
LEMMA PreparedSegment ==
    ASSUME TypeOK, HintInv, LineageInv, NEW m \in rpcs, m.type = "ReplicationRound",
           role[m.src] = "Leader"
    PROVE  LET a == build_append_entries_request(m.src, m.dst, m)
               t == current_term[m.src]
           IN  /\ t \in DOMAIN leader_log /\ leader_log[t] = log[m.src]
               /\ m.term <= t
               /\ a.src = m.src /\ a.term = m.term
               /\ a.leader_commit = m.last_committed
               /\ a.prev_index + Len(a.entries) = Len(log[m.src])
               /\ SegmentOf(a, leader_log[t])
<1> USE DEF LineageInv
<1> DEFINE n == m.src
           t == current_term[n]
           lg == log[n]
           next == next_index[n][m.dst]
           a == build_append_entries_request(n, m.dst, m)
<1>1. n \in Node /\ m.dst \in Node /\ m.term \in Nat
  BY AppendTypes
<1>2. lg \in Seq(Nat) /\ Len(lg) \in Nat /\ t \in Nat
  BY <1>1, LogTypes
<1>3. t \in DOMAIN leader_log /\ leader_log[t] = lg
  BY <1>1 DEF LeaderOwnsLog
<1>4. m.term <= t
  <2>1. <<m.term, n>> \in elected
    BY DEF HintInv, SpeaksAsElected
  <2> QED
    BY <2>1 DEF LeadersRecorded
<1>5. /\ a.src = n /\ a.term = m.term /\ a.leader_commit = m.last_committed
      /\ a.prev_index = next - 1 /\ a.prev_term = get_term_at(lg, next - 1)
      /\ a.entries = SubSeq(lg, next, Len(lg))
  BY DEF build_append_entries_request
<1>6. next \in 1..(Len(lg) + 1)
  <2>1. next \in Nat \ {0}
    BY <1>1, SMTT(30) DEF TypeOK
  <2>2. next <= Len(lg) + 1
    BY <1>1 DEF IndexBounds
  <2> QED
    BY <1>2, <2>1, <2>2
<1> HIDE DEF n, t, lg, next, a
<1>7. /\ Len(a.entries) \in Nat /\ (next - 1) + Len(a.entries) = Len(lg)
      /\ \A k \in 1..Len(a.entries) : a.entries[k] = lg[(next - 1) + k]
  BY <1>2, <1>5, <1>6, TailIs
<1>8. a.prev_index > 0 => lg[a.prev_index] = a.prev_term
  <2>1. next - 1 > 0 => next - 1 \in 1..Len(lg)
    BY <1>2, <1>6
  <2> QED
    BY <1>5, <2>1 DEF get_term_at
<1>9. SegmentOf(a, lg)
  <2>1. a.prev_index + Len(a.entries) = Len(lg)
    BY <1>5, <1>7
  <2>2. a.prev_index + Len(a.entries) <= Len(lg)
    BY <1>2, <2>1
  <2>3. \A k \in 1..Len(a.entries) : a.entries[k] = lg[a.prev_index + k]
    BY <1>5, <1>7
  <2> QED
    BY <1>8, <2>2, <2>3 DEF SegmentOf
<1> QED
  BY <1>3, <1>4, <1>5, <1>7, <1>9 DEF n, t, lg, a

\* A round is prepared: the request is a segment of the log of a leader, of
\* the term the node leads by now.
LEMMA PrepareLineage ==
    ASSUME TypeOK, TypeOK', HintInv, LineageInv, NEW m \in rpcs, PrepareReplication(m)
    PROVE  LineageInv'
<1> USE DEF LineageInv
<1> DEFINE a == build_append_entries_request(m.src, m.dst, m)
<1>1. UNCHANGED <<current_term, role, log, next_index, match_index, ballots, elected, leader_log>>
  BY DEF PrepareReplication, hardState, roleState, logState, history
<1>2. \A q \in rpcs' : q \in rpcs \/ (role[m.src] = "Leader" /\ q = a)
  BY DEF PrepareReplication
<1>3. a.type = "AppendEntriesRequest"
  BY DEF build_append_entries_request
<1> HIDE DEF a
<1>4. KeepsVoteRequests /\ KeepsAcks
  BY <1>2, <1>3 DEF KeepsVoteRequests, KeepsAcks, IsVoteRequest
<1>5. TermsGrow /\ KeepsPowers /\ LeaderLogsGrow
  BY <1>1, IdleKeepsPowers, LeaderLogsSame
<1>6. RequestsFromLeaders'
  <2> SUFFICES ASSUME NEW q \in rpcs', q.type = "AppendEntriesRequest"
               PROVE  \E e \in DOMAIN leader_log :
                        /\ q.term <= e
                        /\ e <= current_term[q.src]
                        /\ SegmentOf(q, leader_log[e])
    BY <1>1 DEF RequestsFromLeaders, SegmentOf
  <2>1. CASE q \in rpcs
    BY <2>1 DEF RequestsFromLeaders
  <2>2. CASE role[m.src] = "Leader" /\ q = a
    <3>1. m.type = "ReplicationRound" /\ m.src \in Node
      BY AppendTypes DEF PrepareReplication
    <3>2. /\ current_term[m.src] \in DOMAIN leader_log
          /\ m.term <= current_term[m.src] /\ a.src = m.src /\ a.term = m.term
          /\ SegmentOf(a, leader_log[current_term[m.src]])
      BY <2>2, <3>1, PreparedSegment DEF a
    <3>3. current_term[m.src] \in Nat
      BY <3>1, LogTypes
    <3> QED
      BY <2>2, <3>2, <3>3
  <2> QED
    BY <1>2, <2>1, <2>2
<1> QED
  BY <1>1, <1>4, <1>5, <1>6, SteadyLineage

\* What a log is after it followed a leader's, entirely or up to a crash: it
\* goes on with one of the two, and keeps what agreed with the leader's.
LEMMA FollowedLog ==
    ASSUME TypeOK, LineageInv, NEW m \in rpcs, m.type = "AppendEntriesRequest",
           NEW e \in DOMAIN leader_log, SegmentOf(m, leader_log[e]),
           verify_log_consistency(log[m.dst], m.prev_index, m.prev_term)
    PROVE  LET lg == log[m.dst]
               cut == TruncateConflicts(lg, m.prev_index, m.entries)
               full == Reconciled(lg, m.prev_index, m.entries)
           IN  /\ \A new \in {cut, full} :
                    /\ new \in Seq(Nat)
                    /\ \A k \in 1..Len(new) : Agree(new, lg, k) \/ Agree(new, leader_log[e], k)
                    /\ \A c \in Nat : Agree(lg, leader_log[e], c) => Agree(new, leader_log[e], c)
               /\ Agree(full, leader_log[e], m.prev_index + Len(m.entries))
<1> USE DEF LineageInv
<1> DEFINE lg == log[m.dst]
           L == leader_log[e]
           prev == m.prev_index
           entries == m.entries
           cut == TruncateConflicts(lg, prev, entries)
           full == Reconciled(lg, prev, entries)
<1>1. /\ m.dst \in Node /\ prev \in Nat /\ entries \in Seq(Nat) /\ Len(entries) \in Nat
      /\ lg \in Seq(Nat) /\ Len(lg) \in Nat /\ L \in Seq(Nat) /\ Len(L) \in Nat
  BY AppendTypes, LogTypes
<1>2. /\ prev + Len(entries) <= Len(L)
      /\ prev > 0 => L[prev] = m.prev_term
      /\ \A k \in 1..Len(entries) : entries[k] = L[prev + k]
  BY DEF SegmentOf
<1>3. \A k \in 1..Len(lg) : lg[k] # 0 /\ FromLeader(lg, k)
  BY <1>1, EntriesPositive DEF LogsFromLeaders
<1>4. prev <= Len(lg) /\ Agree(lg, L, prev)
  <2>1. CASE prev = 0
    BY <1>1, <2>1 DEF Agree
  <2>2. CASE prev # 0
    <3>1. prev <= Len(lg) /\ get_term_at(lg, prev) = m.prev_term
      BY <2>2 DEF verify_log_consistency
    <3>2. prev \in 1..Len(lg) /\ prev \in 1..Len(L) /\ prev > 0
      BY <1>1, <1>2, <2>2, <3>1
    <3>3. lg[prev] = L[prev]
      BY <1>2, <3>1, <3>2 DEF get_term_at
    <3>4. FromLeader(lg, prev) /\ FromLeader(L, prev)
      BY <1>3, <3>2 DEF LeadersFromLeaders
    <3> QED
      BY <1>1, <3>1, <3>3, <3>4, SameEntry
  <2> QED
    BY <2>1, <2>2
<1> HIDE DEF lg, L, prev, entries
<1>5. /\ cut \in Seq(Nat) /\ Len(cut) \in Nat
      /\ prev <= Len(cut) /\ Len(cut) <= Len(lg)
      /\ \A j \in 1..Len(cut) : cut[j] = lg[j]
      /\ \A k \in 1..Len(entries) : prev + k <= Len(cut) => cut[prev + k] = entries[k]
      /\ \A c \in 0..Len(lg) :
             (\A k \in 1..Len(entries) : prev + k <= c => lg[prev + k] = entries[k])
             => c <= Len(cut)
  BY <1>1, <1>3, <1>4, TruncateKeeps, LenProperties
<1>6. /\ full \in Seq(Nat) /\ Len(full) \in Nat
      /\ Len(full) >= Len(cut) /\ Len(full) >= prev + Len(entries)
      /\ Len(full) = Len(cut) \/ Len(full) = prev + Len(entries)
      /\ \A j \in 1..Len(cut) : full[j] = cut[j]
      /\ \A j \in 1..Len(full) : j > Len(cut) => full[j] = entries[j - prev]
  <2>1. \A k \in 1..Len(lg) : lg[k] # 0
    BY <1>3
  <2>2. /\ full \in Seq(Nat)
        /\ Len(full) >= Len(cut) /\ Len(full) >= prev + Len(entries)
        /\ Len(full) = Len(cut) \/ Len(full) = prev + Len(entries)
        /\ \A j \in 1..Len(cut) : full[j] = cut[j]
        /\ \A j \in 1..Len(full) : j > Len(cut) => full[j] = entries[j - prev]
    BY <1>1, <1>4, <2>1, ReconciledIs
  <2> HIDE DEF cut, full
  <2> QED
    BY <2>2, LenProperties
<1> HIDE DEF cut, full
<1>7. ASSUME NEW c \in Nat, Agree(lg, L, c)
      PROVE  Agree(cut, L, c) /\ Agree(full, L, c)
  <2>1. c \in 0..Len(lg) /\ c <= Len(L) /\ \A j \in 1..c : lg[j] = L[j]
    <3>1. c <= Len(lg) /\ c <= Len(L) /\ \A j \in 1..c : lg[j] = L[j]
      BY <1>7 DEF Agree
    <3>2. c \in 0..Len(lg)
      BY <1>1, <3>1
    <3> QED
      BY <3>1, <3>2
  <2>2. ASSUME NEW k \in 1..Len(entries), prev + k <= c PROVE lg[prev + k] = entries[k]
    <3>1. prev + k \in 1..c
      BY <1>1, <2>2
    <3> QED
      BY <1>2, <2>1, <3>1
  <2>3. c <= Len(cut)
    BY <1>5, <2>1, <2>2
  <2>4. \A j \in 1..c : j \in 1..Len(cut)
    BY <1>5, <2>3
  <2>5. \A j \in 1..c : cut[j] = L[j] /\ full[j] = L[j]
    BY <1>5, <1>6, <2>1, <2>4
  <2>6. c <= Len(full)
    BY <1>5, <1>6, <2>3
  <2> QED
    BY <2>1, <2>3, <2>5, <2>6 DEF Agree
<1>8. Agree(full, L, prev + Len(entries))
  <2>1. ASSUME NEW j \in 1..(prev + Len(entries)) PROVE full[j] = L[j]
    <3>1. j \in Nat /\ j > 0 /\ j \in 1..Len(full)
      BY <1>1, <1>6
    <3>2. CASE j <= prev
      <4>1. j \in 1..prev /\ j \in 1..Len(cut)
        BY <1>1, <1>5, <3>1, <3>2
      <4> QED
        BY <1>4, <1>5, <1>6, <4>1 DEF Agree
    <3>3. CASE j > prev
      <4>1. j - prev \in 1..Len(entries) /\ prev + (j - prev) = j
        BY <1>1, <3>1, <3>3
      <4>2. entries[j - prev] = L[j]
        BY <1>2, <4>1
      <4>3. CASE j <= Len(cut)
        <5>1. j \in 1..Len(cut)
          BY <1>5, <3>1, <4>3
        <5>2. cut[j] = entries[j - prev]
          BY <1>5, <4>1, <4>3
        <5> QED
          BY <1>6, <4>2, <5>1, <5>2
      <4>4. CASE j > Len(cut)
        BY <1>6, <3>1, <4>2, <4>4
      <4> QED
        BY <1>5, <3>1, <4>3, <4>4
    <3> QED
      BY <1>1, <3>1, <3>2, <3>3
  <2> QED
    BY <1>2, <1>6, <2>1 DEF Agree
<1>9. ASSUME NEW k \in 1..Len(cut) PROVE Agree(cut, lg, k)
  <2>1. k \in Nat /\ k <= Len(cut) /\ k <= Len(lg) /\ \A j \in 1..k : j \in 1..Len(cut)
    BY <1>1, <1>5
  <2> QED
    BY <1>5, <2>1 DEF Agree
<1>10. ASSUME NEW k \in 1..Len(full) PROVE Agree(full, lg, k) \/ Agree(full, L, k)
  <2>1. k \in Nat /\ k <= Len(full)
    BY <1>6
  <2>2. CASE Len(full) = Len(cut)
    <3>1. Agree(cut, lg, k)
      BY <1>9, <2>2
    <3>2. Agree(full, cut, k)
      <4>1. \A j \in 1..k : j \in 1..Len(cut)
        BY <1>5, <2>1, <2>2
      <4> QED
        BY <1>6, <2>1, <2>2, <4>1 DEF Agree
    <3> QED
      BY <1>1, <1>5, <1>6, <2>1, <3>1, <3>2, AgreeRules
  <2>3. CASE Len(full) = prev + Len(entries)
    BY <1>1, <1>6, <1>8, <2>1, <2>3, AgreeRules
  <2> QED
    BY <1>6, <2>2, <2>3
<1>11. ASSUME NEW new \in {cut, full}
       PROVE  /\ new \in Seq(Nat)
              /\ \A k \in 1..Len(new) : Agree(new, lg, k) \/ Agree(new, L, k)
              /\ \A c \in Nat : Agree(lg, L, c) => Agree(new, L, c)
  BY <1>5, <1>6, <1>7, <1>9, <1>10
<1> QED
  BY <1>8, <1>11 DEF lg, L, prev, entries, cut, full

\* An AppendEntries that its receiver follows, entirely or up to a crash.
LEMMA FollowLineage ==
    ASSUME TypeOK, TypeOK', LineageInv, NEW m \in rpcs, Accepts(m) \/ Crashes(m)
    PROVE  LineageInv'
<1> USE DEF LineageInv
<1> DEFINE p == m.dst
           lg == log[p]
           cut == TruncateConflicts(lg, m.prev_index, m.entries)
           full == Reconciled(lg, m.prev_index, m.entries)
<1>1. PICK new \in {cut, full} : Follows(m, new)
  BY DEF Accepts, Crashes
<1>2. /\ m.type = "AppendEntriesRequest" /\ m.term >= current_term[p]
      /\ verify_log_consistency(lg, m.prev_index, m.prev_term)
      /\ log' = [log EXCEPT ![p] = new]
      /\ current_term' = [current_term EXCEPT ![p] = m.term]
      /\ KeepsPowers /\ KeepsVoteRequests /\ KeepsAppends
      /\ UNCHANGED <<ballots, elected, leader_log>>
  BY <1>1 DEF Follows
<1>3. /\ p \in Node /\ m.src \in Node /\ m.term \in Nat
      /\ m.prev_index \in Nat /\ Len(m.entries) \in Nat
  BY <1>2, AppendTypes
<1>4. TermsGrow /\ LeaderLogsGrow
  <2>1. \A q \in Node : current_term'[q] = IF q = p THEN m.term ELSE current_term[q]
    BY <1>2 DEF TypeOK
  <2>2. \A q \in Node : current_term[q] \in Nat
    BY LogTypes
  <2>3. TermsGrow
    BY <1>2, <1>3, <2>1, <2>2 DEF TermsGrow
  <2> QED
    BY <1>2, <2>3, LeaderLogsSame
<1>5. PICK e \in DOMAIN leader_log :
        m.term <= e /\ e <= current_term[m.src] /\ SegmentOf(m, leader_log[e])
  BY <1>2 DEF RequestsFromLeaders
<1>6. /\ new \in Seq(Nat)
      /\ \A k \in 1..Len(new) : Agree(new, lg, k) \/ Agree(new, leader_log[e], k)
  BY <1>2, <1>5, FollowedLog
<1>7. LeadersRecorded' /\ CandidatesFresh' /\ VotesReached' /\ RequestsShowLog'
  BY <1>2, <1>4, RecordedKept, FreshKept, ReachedKept, ShowLogKept
<1>8. LeaderOwnsLog' /\ RequestsFromLeaders' /\ IndexBounds'
  BY <1>2, <1>4, OwnsKept, RequestsKept, BoundsKept
<1>9. LeadersFromLeaders'
  BY <1>2 DEF LeadersFromLeaders, FromLeader
<1>10. FutureBlocked'
  BY <1>2, <1>4, BlockedKept DEF FutureBlocked, KeepsPowers
<1>11. LogsFromLeaders'
  <2> SUFFICES ASSUME NEW q \in Node, NEW k \in 1..Len(log'[q]) PROVE FromLeader(log'[q], k)
    BY <1>2 DEF LogsFromLeaders, FromLeader
  <2>1. CASE q # p
    BY <1>2, <2>1 DEF LogsFromLeaders, TypeOK
  <2>2. CASE q = p
    <3>5. log'[q] = new
      BY <1>2, <2>2 DEF TypeOK
    <3>6. /\ lg \in Seq(Nat) /\ Len(lg) \in Nat
          /\ leader_log[e] \in Seq(Nat) /\ Len(leader_log[e]) \in Nat
      BY <1>3, <1>5, LogTypes
    <3>1. /\ log'[q] = new /\ k \in Nat /\ k > 0 /\ lg \in Seq(Nat) /\ Len(lg) \in Nat
          /\ leader_log[e] \in Seq(Nat) /\ Len(leader_log[e]) \in Nat
      BY <3>5, <3>6
    <3>2. CASE Agree(new, lg, k)
      <4>1. k \in 1..Len(lg)
        BY <3>1, <3>2 DEF Agree
      <4>2. FromLeader(lg, k)
        BY <1>3, <4>1 DEF LogsFromLeaders
      <4> QED
        BY <1>6, <3>1, <3>2, <4>2, FromLeaderShared
    <3>3. CASE Agree(new, leader_log[e], k)
      <4>1. k \in 1..Len(leader_log[e])
        BY <3>1, <3>3 DEF Agree
      <4>2. FromLeader(leader_log[e], k)
        BY <1>5, <4>1 DEF LeadersFromLeaders
      <4> QED
        BY <1>6, <3>1, <3>3, <4>2, FromLeaderShared
    <3> QED
      BY <1>6, <3>1, <3>2, <3>3
  <2> QED
    BY <2>1, <2>2
<1>12. RepliesFromLeaders'
  <2> SUFFICES ASSUME NEW q \in rpcs', q.type = "AppendEntriesResponse", q.success
               PROVE  \E u \in DOMAIN leader_log' :
                        /\ q.round <= u
                        /\ u <= current_term'[q.dst]
                        /\ q.sent_prev_index + q.sent_len <= Len(leader_log'[u])
    BY DEF RepliesFromLeaders
  <2>1. CASE q \in rpcs
    BY <1>4, <2>1, RepliesKept
  <2>2. CASE /\ q.dst = m.src /\ q.round = m.term
             /\ q.sent_prev_index = m.prev_index /\ q.sent_len = Len(m.entries)
    <3>1. m.prev_index + Len(m.entries) <= Len(leader_log[e])
      BY <1>5 DEF SegmentOf
    <3>2. e <= current_term'[m.src]
      <4>1. current_term[m.src] <= current_term'[m.src] /\ e \in Nat
            /\ current_term[m.src] \in Nat /\ current_term'[m.src] \in Nat
        BY <1>3, <1>4, <1>5, LogTypes, LogTypesAfter DEF TermsGrow
      <4> QED
        BY <1>5, <4>1
    <3> QED
      BY <1>2, <1>5, <2>2, <3>1, <3>2
  <2> QED
    BY <2>1, <2>2 DEF Accepts, Crashes, KeepsAcks
<1> QED
  BY <1>7, <1>8, <1>9, <1>10, <1>11, <1>12

\* A successful answer of the leader's own term acknowledges a part of its log.
LEMMA AckWithinLog ==
    ASSUME TypeOK, LineageInv, NEW m \in rpcs, m.type = "AppendEntriesResponse", m.success,
           role[m.dst] = "Leader", m.round = current_term[m.dst]
    PROVE  m.sent_prev_index + m.sent_len <= Len(log[m.dst])
<1> USE DEF LineageInv
<1>1. m.dst \in Node /\ current_term[m.dst] \in Nat
  BY AppendTypes, LogTypes
<1>2. PICK e \in DOMAIN leader_log :
        /\ m.round <= e /\ e <= current_term[m.dst]
        /\ m.sent_prev_index + m.sent_len <= Len(leader_log[e])
  BY DEF RepliesFromLeaders
<1>3. e = current_term[m.dst]
  BY <1>1, <1>2, LogTypes
<1> QED
  BY <1>1, <1>2, <1>3 DEF LeaderOwnsLog

\* What one entry of a table of tables becomes.
LEMMA NestedUpdate ==
    ASSUME NEW S, NEW f \in [Node -> [Node -> S]], NEW n \in Node, NEW p \in Node, NEW v
    PROVE  \A a, b \in Node :
              [f EXCEPT ![n][p] = v][a][b] = IF a = n /\ b = p THEN v ELSE f[a][b]
<1> SUFFICES ASSUME NEW a \in Node, NEW b \in Node
             PROVE  [f EXCEPT ![n][p] = v][a][b] = IF a = n /\ b = p THEN v ELSE f[a][b]
  OBVIOUS
<1>1. [f EXCEPT ![n][p] = v][a] = IF a = n THEN [f[n] EXCEPT ![p] = v] ELSE f[a]
  OBVIOUS
<1>2. f[n] \in [Node -> S]
  OBVIOUS
<1> QED
  BY <1>1, <1>2

\* An answer: the leader's view of the peer stays within its log.
LEMMA HearsLineage ==
    ASSUME TypeOK, TypeOK', LineageInv, NEW m \in rpcs, Hears(m.dst, m)
    PROVE  LineageInv'
<1> USE DEF LineageInv
<1> DEFINE n == m.dst
           p == m.src
           new_match == m.sent_prev_index + m.sent_len
<1>1. /\ role[n] = "Leader" /\ m.type = "AppendEntriesResponse" /\ m.round = current_term[n]
      /\ ReconcileIndices(n, m) /\ rpcs' = rpcs \ {m}
      /\ UNCHANGED <<current_term, role, log, ballots, elected, leader_log>>
  BY DEF Hears
<1>2. n \in Node /\ p \in Node /\ new_match \in Nat /\ m.last_log_index \in Nat
  BY <1>1, AppendTypes
<1>9. /\ next_index \in [Node -> [Node -> Nat \ {0}]]
      /\ match_index \in [Node -> [Node -> Nat]]
  BY DEF TypeOK
<1>3. TermsGrow /\ LeaderLogsGrow /\ KeepsVoteRequests /\ KeepsAppends /\ KeepsAcks
  <2>1. TermsGrow
    BY <1>1, LogTypes DEF TermsGrow
  <2>2. KeepsVoteRequests /\ KeepsAppends /\ KeepsAcks
    BY <1>1 DEF KeepsVoteRequests, KeepsAppends, KeepsAcks, IsVoteRequest, IsAppend
  <2> QED
    BY <1>1, <2>1, <2>2, LeaderLogsSame
<1>4. LeadersRecorded' /\ CandidatesFresh' /\ LeaderOwnsLog'
  BY <1>1 DEF LeadersRecorded, CandidatesFresh, LeaderOwnsLog
<1>5. VotesReached' /\ LogsFromLeaders' /\ RequestsFromLeaders'
  BY <1>1, <1>3, ReachedKept, LogsKept, RequestsKept
<1>6. RequestsShowLog' /\ LeadersFromLeaders' /\ FutureBlocked'
  BY <1>1 DEF RequestsShowLog, LeadersFromLeaders, FromLeader, FutureBlocked, Blocked
<1>7. RepliesFromLeaders'
  BY <1>3, RepliesKept DEF RepliesFromLeaders, KeepsAcks
<1>8. IndexBounds'
  <2> DEFINE len == Len(log[n])
             next == next_index[n][p]
  <2>1. /\ len \in Nat /\ next \in Nat /\ next > 0 /\ next <= len + 1
    <3>1. len \in Nat
      BY <1>2, LogTypes
    <3>2. next \in Nat \ {0}
      BY <1>2, <1>9
    <3>3. next <= len + 1
      BY <1>1, <1>2 DEF IndexBounds
    <3> QED
      BY <3>1, <3>2, <3>3
  <2>2. CASE /\ m.success
             /\ next_index' = [next_index EXCEPT ![n][p] = new_match + 1]
             /\ match_index' = [match_index EXCEPT ![n][p] = new_match]
    <3>1. new_match <= len
      BY <1>1, <2>2, AckWithinLog
    <3>2. new_match + 1 <= len + 1
      BY <1>2, <2>1, <3>1
    <3> HIDE DEF new_match
    <3>3. ASSUME NEW a \in Node, NEW b \in Node
          PROVE  /\ next_index'[a][b] = IF a = n /\ b = p THEN new_match + 1 ELSE next_index[a][b]
                 /\ match_index'[a][b] = IF a = n /\ b = p THEN new_match ELSE match_index[a][b]
      BY <1>2, <1>9, <2>2, NestedUpdate
    <3> QED
      BY <1>1, <3>1, <3>2, <3>3 DEF IndexBounds
  <2>3. CASE UNCHANGED <<next_index, match_index>>
    BY <1>1, <2>3 DEF IndexBounds
  <2>4. CASE /\ next_index' = [next_index EXCEPT ![n][p] = Backoff(@, m.last_log_index)]
             /\ UNCHANGED match_index
    <3> DEFINE back == Backoff(next, m.last_log_index)
    <3>1. back <= len + 1
      <4>1. CASE m.last_log_index > 0
        <5>1. back = Min({next, m.last_log_index + 1})
          BY <4>1 DEF Backoff
        <5>2. back <= next /\ back \in {next, m.last_log_index + 1}
          <6>1. m.last_log_index + 1 \in Nat
            BY <1>2
          <6> HIDE DEF back
          <6> QED
            BY <2>1, <5>1, <6>1, MinOfTwo
        <5> HIDE DEF back
        <5> QED
          BY <1>2, <2>1, <5>2
      <4>2. CASE ~ (m.last_log_index > 0)
        <5>1. back = Max({next - 1, 1})
          BY <4>2 DEF Backoff
        <5>2. next - 1 \in Nat
          BY <2>1
        <5>3. back \in {next - 1, 1}
          BY <5>1, <5>2, MaxOfTwo
        <5> HIDE DEF back
        <5> QED
          BY <2>1, <5>3
      <4> QED
        BY <4>1, <4>2
    <3>2. ASSUME NEW a \in Node, NEW b \in Node
          PROVE  next_index'[a][b] = IF a = n /\ b = p THEN back ELSE next_index[a][b]
      BY <1>2, <1>9, <2>4, NestedUpdate
    <3> HIDE DEF back
    <3> QED
      BY <1>1, <2>4, <3>1, <3>2 DEF IndexBounds
  <2> QED
    BY <1>1, <2>2, <2>3, <2>4 DEF ReconcileIndices
<1> QED
  BY <1>4, <1>5, <1>6, <1>7, <1>8

-----------------------------------------------------------------------------
(* Log matching *)

\* Every step preserves the invariant.
LEMMA LineageStep ==
    TypeOK /\ TypeOK' /\ VotingInv /\ HintInv /\ LineageInv /\ [Next]_vars => LineageInv'
<1> SUFFICES ASSUME TypeOK, TypeOK', VotingInv, HintInv, LineageInv, [Next]_vars
             PROVE  LineageInv'
  OBVIOUS
<1>1. CASE Tame
  <2>1. LeaderLogsGrow /\ RequestsFromLeaders
    BY <1>1, LeaderLogsSame DEF Tame, LineageInv
  <2>2. RequestsFromLeaders'
    BY <1>1, <2>1, RequestsKept DEF Tame
  <2> QED
    BY <1>1, <2>2, SteadyLineage DEF Tame
<1>2. StepKind
  BY StepKinds
<1> QED
  BY <1>1, <1>2, CampaignLineage, VoteLineage, WinLineage, ProposeLineage, HeartbeatLineage,
     PrepareLineage, FollowLineage, HearsLineage DEF StepKind

\* The invariants of elections and of logs together.
RaftInv == TypeOK /\ VotingInv /\ HintInv /\ LineageInv

\* They hold in every reachable state.
LEMMA RaftInvHolds == Spec => []RaftInv
<1>1. Init => RaftInv
  <2> SUFFICES ASSUME Init PROVE RaftInv
    OBVIOUS
  <2>1. TypeOK
    <3>1. <<>> \in Seq(Nat)
      OBVIOUS
    <3> QED
      BY <3>1 DEF Init, TypeOK, Roles
  <2>2. VotingInv
    BY DEF Init, VotingInv, BallotsPersisted, OneBallotPerTerm, GrantsAreBallots,
           VotesAreOfTheCampaign, LeadersHaveQuorum
  <2>3. HintInv
    BY DEF Init, HintInv, LeaderHintIsElected, SpeaksAsElected
  <2>4. LeadersRecorded /\ CandidatesFresh /\ VotesReached /\ RequestsShowLog
    BY DEF Init, LeadersRecorded, CandidatesFresh, VotesReached, RequestsShowLog
  <2>5. LeaderOwnsLog /\ LeadersFromLeaders /\ RequestsFromLeaders /\ RepliesFromLeaders
        /\ FutureBlocked /\ IndexBounds
    BY DEF Init, LeaderOwnsLog, LeadersFromLeaders, RequestsFromLeaders, RepliesFromLeaders,
           FutureBlocked, Blocked, IndexBounds
  <2>6. LogsFromLeaders
    BY DEF Init, LogsFromLeaders
  <2> QED
    BY <2>1, <2>2, <2>3, <2>4, <2>5, <2>6 DEF RaftInv, LineageInv
<1>2. RaftInv /\ [Next]_vars => RaftInv'
  BY TypeStep, VotingStep, HintStep, LineageStep DEF RaftInv
<1> QED
  BY <1>1, <1>2, PTL DEF Spec

\* Two logs with an entry of one term at an index are identical up to it.
LEMMA LineageMatches ==
    ASSUME TypeOK, LineageInv
    PROVE  LogMatching
<1> USE DEF LineageInv
<1> SUFFICES ASSUME NEW a \in Node, NEW b \in Node, NEW i \in 1..Len(log[a]),
                    get_term_at(log[b], i) = log[a][i]
             PROVE  SubSeq(log[a], 1, i) = SubSeq(log[b], 1, i)
  BY DEF LogMatching
<1>1. /\ log[a] \in Seq(Nat) /\ log[b] \in Seq(Nat)
      /\ Len(log[a]) \in Nat /\ Len(log[b]) \in Nat /\ i \in Nat /\ i >= 1
  BY LogTypes
<1>2. log[a][i] # 0
  BY EntriesPositive
<1>3. i \in 1..Len(log[b]) /\ log[b][i] = log[a][i]
  BY <1>2 DEF get_term_at
<1>4. FromLeader(log[a], i) /\ FromLeader(log[b], i)
  BY <1>3 DEF LogsFromLeaders
<1>5. Agree(log[a], log[b], i)
  BY <1>1, <1>3, <1>4, SameEntry
<1>6. i <= Len(log[a]) /\ i <= Len(log[b]) /\ \A j \in 1..i : log[a][j] = log[b][j]
  BY <1>5 DEF Agree
<1>7. /\ \A j \in 1..i : log[a][j] \in Nat
      /\ \A j \in 1..i : log[b][j] \in Nat
  BY <1>1, <1>6, SMTT(30)
<1>8. /\ SubSeq(log[a], 1, i) \in Seq(Nat) /\ Len(SubSeq(log[a], 1, i)) = i
      /\ \A j \in 1..i : SubSeq(log[a], 1, i)[j] = log[a][j]
  BY <1>1, <1>7, SubSeqProperties
<1>9. /\ SubSeq(log[b], 1, i) \in Seq(Nat) /\ Len(SubSeq(log[b], 1, i)) = i
      /\ \A j \in 1..i : SubSeq(log[b], 1, i)[j] = log[b][j]
  BY <1>1, <1>7, SubSeqProperties
<1> QED
  BY <1>6, <1>8, <1>9, SeqEqual

\* Log matching: however late a round is prepared and wherever a follower
\* crashes while it reconciles its log, two logs that share an entry are
\* identical up to it, for any cluster.
THEOREM LogsMatch == Spec => []LogMatching
<1>1. RaftInv => LogMatching
  BY LineageMatches DEF RaftInv
<1> QED
  BY <1>1, RaftInvHolds, PTL
=============================================================================
