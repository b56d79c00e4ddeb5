---------------------------- MODULE RaftCatchUp ----------------------------
(***************************************************************************)
(* Replication under a stable leader: after the election of Lead in term 3 *)
(* no timer but its heartbeat expires, and a message sent again and again  *)
(* gets through.  The question is whether the retries of                   *)
(* process_replication_response bring every peer to the leader's log.      *)
(***************************************************************************)
EXTENDS Raft, SequencesExt

CONSTANTS
    Lead,           \* the leader of term 3
    FollowerLogs    \* the logs its peers may have at its election

ASSUME LeadAssumption == Lead \in Node

\* The log Lead was elected with: an entry of term 1 and one of term 2.
LeaderLog == <<1, 2>>

\* The nodes of which Lead can have had the vote.
Voters(logs) ==
    {p \in Node : is_log_up_to_date(logs[p], [last_index |-> Len(LeaderLog),
                                              last_term |-> last_log_term(LeaderLog)])}

\* The nodes whose log does not contradict the leader's: those that can have
\* voted for the leader of term 2, and that leader.
Agreeing(logs) == {p \in Node : IsPrefix(logs[p], LeaderLog) \/ IsPrefix(LeaderLog, logs[p])}

\* The moment of Lead's election, when its requests have reached everyone: a
\* quorum has voted for it, and a quorum went along with the leader of term 2.
\* The history variables start here.
CatchUpInit ==
    /\ log \in {lgs \in [Node -> FollowerLogs \cup {LeaderLog}] :
                    /\ lgs[Lead] = LeaderLog
                    /\ Cardinality(Voters(lgs)) >= Quorum
                    /\ Cardinality(Agreeing(lgs)) >= Quorum}
    /\ current_term = [n \in Node |-> 3]
    /\ voted_for = [n \in Node |-> IF n \in Voters(log) THEN Lead ELSE None]
    /\ last_committed = [n \in Node |-> 0]
    /\ role = [n \in Node |-> IF n = Lead THEN "Leader" ELSE "Follower"]
    /\ leader_id = [n \in Node |-> None]
    /\ votes_received = [n \in Node |-> {}]
    /\ next_index = [n \in Node |-> [p \in Node |->
                        IF n = Lead THEN Len(LeaderLog) + 1 ELSE 1]]
    /\ match_index = [n \in Node |-> [p \in Node |-> 0]]
    /\ pre_votes_granted = [n \in Node |-> [k \in PreVotes |-> {}]]
    /\ step_down = [n \in Node |-> FALSE]
    /\ rpcs = {}
    /\ restarts = 0
    /\ ballots = {<<p, 3, Lead>> : p \in Voters(log)}
    /\ elected = {<<3, Lead>>}
    /\ leader_log = [t \in {3} |-> LeaderLog]
    /\ decided = {}

StableNext ==
    \/ propose(Lead)
    \/ SendHeartbeat(Lead)
    \/ \E m \in rpcs : \/ PrepareReplication(m)
                       \/ handle_append_entries(m)
                       \/ process_replication_response(m)

\* Every heartbeat tick starts a round for each peer; rpc_timeout ends every
\* attempt, so the rounds go on; a request or response repeated forever is not
\* lost forever.
RoundFor(p) == \E m \in rpcs' \ rpcs : m.type = "ReplicationRound" /\ m.dst = p
Answered(p) == \E m \in rpcs' \ rpcs : m.type = "AppendEntriesResponse" /\ m.src = p

PreparedFor(p) == \E m \in rpcs : m.dst = p /\ PrepareReplication(m)
HandledBy(p) == \E m \in rpcs : m.dst = p /\ handle_append_entries(m)
ResumedFrom(p) == \E m \in rpcs : m.src = p /\ process_replication_response(m)

Fairness ==
    \A p \in Peers(Lead) :
        /\ SF_vars(SendHeartbeat(Lead) /\ RoundFor(p))
        /\ WF_vars(PreparedFor(p))
        /\ SF_vars(HandledBy(p) /\ Answered(p))
        /\ WF_vars(ResumedFrom(p))

CatchUpSpec == CatchUpInit /\ [][StableNext]_vars /\ Fairness

-----------------------------------------------------------------------------
\* Once the leader has proposed an entry of its own term, every peer ends up
\* with exactly the leader's log and with everything in it committed: the
\* back-off of next_index, the conflict truncation in reconcile_log and the
\* quorum commit have to work together.
PeersCatchUp ==
    \A p \in Node :
        Len(log[Lead]) = MaxLog ~>
            log[p] = log[Lead] /\ last_committed[p] = Len(log[p])
============================================================================
