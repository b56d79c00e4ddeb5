------------------------------ MODULE Gateway ------------------------------
(***************************************************************************)
(* The ingress of a node (gateway): every request is a handler that runs   *)
(* between its awaits. A mutation passes the sequence firewall, waits for  *)
(* the mutation lock, is judged by the policy oracle on the inventory of   *)
(* that moment, proposed, and answered when its index is committed. A      *)
(* query verifies leadership with a read epoch, waits for the version it   *)
(* asked for, and reads.                                                   *)
(*                                                                         *)
(* A handler outlives the client that stopped waiting for it (live is      *)
(* FALSE) and may be dropped at any await from then on.                    *)
(***************************************************************************)
EXTENDS Consensus

CONSTANTS
    Slots,      \* bound on the requests in flight: 1..n
    Item,       \* the grocery item all intents are about
    Clock       \* per node: what its clock says, skew included

VARIABLES
    handlers,           \* per slot: a handler, or Free
    current_read_epoch, confirmed_read_epoch,   \* per node, of Leader
    acks_in_flight      \* per node: a quorum's acknowledgements still under way

probe == <<current_read_epoch, confirmed_read_epoch, acks_in_flight>>

Free == [at |-> "free"]

\* A request on its way to node n.
Request(c, r, n) ==
    [at |-> "sent", live |-> TRUE, client |-> c, node |-> n, op |-> r.op,
     seq |-> r.seq, intent |-> r.intent, min |-> r.min]

GatewayInit ==
    /\ handlers = [h \in Slots |-> Free]
    /\ current_read_epoch = [n \in Node |-> 0]
    /\ confirmed_read_epoch = [n \in Node |-> 0]
    /\ acks_in_flight = [n \in Node |-> FALSE]

Busy == {h \in Slots : handlers[h].at # "free"}

\* Handler h goes on as r.
GoOn(h, r) == handlers' = [handlers EXCEPT ![h] = r]

-----------------------------------------------------------------------------
(* Answers *)

Answer(s, hint) == [status |-> s, hint |-> hint]

\* Unavailable, DeadlineExceeded, Internal, Aborted: the client tries elsewhere.
Transient == Answer("Transient", None)

\* InvalidArgument, FailedPrecondition: the client gives up.
Invalid == Answer("Invalid", None)

\* A follower knows the leader that last wrote to it, or none.
Hints(n) == {None} \cup {m \in Node \ {n} : Newest(m)}

redirection_response(n, hint) == Answer("Rejected", hint)

is_poisoned(n) == store[n].poisoned

\* Every consensus error is transient to the client.
map_consensus_error == Transient

-----------------------------------------------------------------------------
(* The sequence firewall *)

\* Variant: a gap is let through, as if only repetitions were checked.
passes_firewall_gap(record, seq) == seq > record.seq

\* The next sequence of the client, 1 for a client without a session.
passes_firewall(record, seq) == seq = record.seq + 1

\* A repetition gets the recorded outcome, anything else a rejection.
enforce_sequence_firewall(record, seq) ==
    IF seq # 0 /\ seq = record.seq THEN Answer(record.status, None)
    ELSE Answer("Rejected", None)

-----------------------------------------------------------------------------
(* Mutations *)

\* What authorize_mutation and authorize_query answer a node that may not serve.
Unauthorized(n) ==
    IF is_poisoned(n) THEN {Transient}
    ELSE IF ~ is_leader(n) THEN {redirection_response(n, hint) : hint \in Hints(n)}
    ELSE {}

\* Steps 1 and 2: the answers of a request that goes no further.
Refusals(r) ==
    LET record == check_session(store[r.node], r.client)
    IN  IF r.op = "mutate" /\ Unauthorized(r.node) = {} /\ ~ passes_firewall(record, r.seq)
        THEN {enforce_sequence_firewall(record, r.seq)}
        ELSE Unauthorized(r.node)

Admit(h) ==
    LET r == handlers[h]
    IN  /\ r.at = "sent" /\ r.op = "mutate"
        /\ Unauthorized(r.node) = {}
        /\ passes_firewall(check_session(store[r.node], r.client), r.seq)
        /\ GoOn(h, [r EXCEPT !.at = "queued"])
        /\ UNCHANGED probe

mutation_lock_free(n) ==
    \A g \in Busy : handlers[g].node = n =>
        handlers[g].at \notin {"evaluating", "awaiting"}

\* Steps 3 to 5: with the lock, an intent that does not normalise is refused ...
normalizes(r) == r.intent # "malformed"

quantity(items) == IF Item \in DOMAIN items THEN items[Item].quantity ELSE 0

\* ... and the inventory is read, once, for the evaluation.
EnterCriticalSection(h) ==
    LET r == handlers[h]
    IN  /\ r.at = "queued"
        /\ mutation_lock_free(r.node)
        /\ normalizes(r)
        /\ GoOn(h, [at |-> "evaluating", live |-> r.live, client |-> r.client,
                    node |-> r.node, seq |-> r.seq, intent |-> r.intent,
                    seen |-> quantity(get_inventory(store[r.node]))])
        /\ UNCHANGED probe

\* resolve_semantic_mutation ends in a verdict (whatever the oracle said, and
\* however often it was asked) or in an error.
MutationFor(r, status) ==
    [client |-> r.client, seq |-> r.seq, status |-> status, key |-> Item,
     qty |-> IF r.intent = "delete" THEN 0 ELSE r.seen + 1,
     is_delete |-> r.intent = "delete", time |-> Clock[r.node]]

\* VetoError::Timeout and RpcFailure; a mismatched trace id; the node was
\* demoted during the evaluation, or between the second check and propose.
EvaluationFailures(r) ==
    {Transient, Invalid} \cup
        IF is_leader(r.node) THEN {} ELSE Unauthorized(r.node) \cup {map_consensus_error}

\* Steps 6 and 7: a verdict, the second look at the authority and the append
\* under the node's write lock. Nothing is read or written between them, so
\* they are one step, at the moment of the append. in_term is history: nothing
\* below looks at it.
commit_to_consensus(h) ==
    LET r == handlers[h]
    IN  /\ r.at = "evaluating"
        /\ is_leader(r.node)
        /\ \E status \in {"Committed", "Vetoed"} :
            /\ propose(r.node, MutationFor(r, status))
            /\ GoOn(h, [at |-> "awaiting", live |-> r.live, client |-> r.client,
                        node |-> r.node, status |-> status,
                        index |-> Len(log[r.node]) + 1, in_term |-> leading[r.node]])
        /\ UNCHANGED probe

\* ... then look at the progress channel until the index is committed. The
\* channel keeps the latest value only: what happens between two looks is not
\* seen. Variant: the proposal is answered at once.
await_commit_not(n, index) == is_leader(n)

await_commit(n, index) == is_leader(n) /\ committed[n] >= index

\* Answered, or not the leader any more, or consensus_timeout.
build_mutation_response(r) ==
    {map_consensus_error} \cup
        IF await_commit(r.node, r.index) THEN {Answer(r.status, None)} ELSE {}

-----------------------------------------------------------------------------
(* Queries *)

\* A new epoch is opened when the last one is confirmed; otherwise the query
\* joins the one under way, and no new round is started.
prepare_read_probe(n) ==
    IF confirmed_read_epoch[n] = current_read_epoch[n]
    THEN current_read_epoch[n] + 1 ELSE current_read_epoch[n]

\* late: acknowledgements of rounds before the epoch are still under way.
\* newest and quiet are history: this node was the newest leader, it opened
\* the epoch for this query, and no late acknowledgement was to come.
verify_leadership(h) ==
    LET r == handlers[h]
        target == prepare_read_probe(r.node)
    IN  /\ r.at = "sent" /\ r.op = "query"
        /\ Unauthorized(r.node) = {}
        /\ \E late \in BOOLEAN :
            /\ late => target > current_read_epoch[r.node]
            /\ GoOn(h, [at |-> "probing", live |-> r.live, client |-> r.client,
                        node |-> r.node, min |-> r.min,
                        horizon |-> committed[r.node], epoch |-> target,
                        in_term |-> leading[r.node], newest |-> Newest(r.node),
                        quiet |-> /\ target > current_read_epoch[r.node]
                                  /\ ~ late /\ ~ acks_in_flight[r.node]])
            /\ acks_in_flight' = [acks_in_flight EXCEPT ![r.node] = @ \/ late]
        /\ current_read_epoch' = [current_read_epoch EXCEPT ![r.node] = target]
        /\ UNCHANGED confirmed_read_epoch

\* While an epoch is open, peers of a quorum acknowledge a round, the probe's
\* own or any other; none does once it has voted for a newer leader.
Heartbeat(n) ==
    /\ current_read_epoch[n] # confirmed_read_epoch[n]
    /\ Newest(n)
    /\ ~ acks_in_flight[n]
    /\ acks_in_flight' = [acks_in_flight EXCEPT ![n] = TRUE]
    /\ UNCHANGED <<handlers, current_read_epoch, confirmed_read_epoch>>

\* Variant: no acknowledgement is needed.
acknowledge_heartbeat_unasked(n) ==
    is_leader(n) /\ current_read_epoch[n] # confirmed_read_epoch[n]

\* The acknowledgements arrive in the leader's term, and carry no epoch.
acknowledge_heartbeat(n) == is_leader(n) /\ acks_in_flight[n]

ReceiveAcks(n) ==
    /\ acknowledge_heartbeat(n)
    /\ acks_in_flight' = [acks_in_flight EXCEPT ![n] = FALSE]
    /\ confirmed_read_epoch' = [confirmed_read_epoch EXCEPT ![n] = current_read_epoch[n]]
    /\ UNCHANGED <<handlers, current_read_epoch>>

\* A new leadership starts with fresh epochs, and the acknowledgements of the
\* last one are ignored.
ForgetProbe(n) ==
    /\ current_read_epoch' = [current_read_epoch EXCEPT ![n] = 0]
    /\ confirmed_read_epoch' = [confirmed_read_epoch EXCEPT ![n] = 0]
    /\ acks_in_flight' = [acks_in_flight EXCEPT ![n] = FALSE]

Verified(h) ==
    LET r == handlers[h]
    IN  /\ r.at = "probing"
        /\ leading[r.node] = r.in_term
        /\ confirmed_read_epoch[r.node] >= r.epoch
        /\ r.min <= r.horizon
        /\ GoOn(h, [r EXCEPT !.at = "fencing"])
        /\ UNCHANGED probe

\* Timed out: an error. Demoted: redirected by the status of before. Verified,
\* but the version asked for is not committed here: refused.
ProbeFailures(r) ==
    {Transient} \cup
    CASE leading[r.node] # r.in_term -> {redirection_response(r.node, None)}
      [] leading[r.node] = r.in_term /\ confirmed_read_epoch[r.node] >= r.epoch
            /\ r.min > r.horizon -> {Invalid}
      [] OTHER -> {}

\* await_apply, where a version was asked for.
\* Variant: the fence is passed when the version is committed.
await_apply_committed(n, version) == committed[n] >= version

await_apply(n, version) == current_version(store[n]) >= version

PassFence(h) ==
    LET r == handlers[h]
    IN  /\ r.at = "fencing"
        /\ r.min # 0 => await_apply(r.node, r.min)
        /\ GoOn(h, [r EXCEPT !.at = "reading"])
        /\ UNCHANGED probe

get_items(r) == {Answer("Items", None)}

-----------------------------------------------------------------------------

\* A step of handler h that answers nothing yet.
Proceed(h) ==
    \/ Admit(h) \/ EnterCriticalSection(h)
    \/ verify_leadership(h) \/ Verified(h) \/ PassFence(h)

\* The answers handler r may end with in its next step.
Answers(r) ==
    CASE r.at = "sent" -> Refusals(r)
      [] r.at = "queued" ->
            IF mutation_lock_free(r.node) /\ ~ normalizes(r) THEN {Invalid} ELSE {}
      [] r.at = "evaluating" -> EvaluationFailures(r)
      [] r.at = "awaiting" -> build_mutation_response(r)
      [] r.at = "probing" -> ProbeFailures(r)
      [] r.at = "fencing" -> {Transient}
      [] r.at = "reading" -> get_items(r)

=============================================================================
