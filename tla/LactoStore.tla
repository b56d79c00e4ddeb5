----------------------------- MODULE LactoStore -----------------------------
(***************************************************************************)
(* The replicated inventory (lacto-fsm): what one store holds, what        *)
(* applying a committed mutation does to it, and what a snapshot carries.  *)
(* A store is a value here; the modules that use it hold one per node.     *)
(*                                                                         *)
(* A mutation is a record                                                  *)
(*   [client, seq, status, key, qty, is_delete, time]                      *)
(* whose quantity is already absolute: apply overwrites, it does not add.  *)
(***************************************************************************)
EXTENDS Naturals, Sequences, SequencesExt

\* Trees and metadata of a new database. items and sessions are functions on
\* the keys and clients present.
new == [items |-> << >>, sessions |-> << >>, time |-> 0, applied |-> 0,
        poisoned |-> FALSE]

NoSession == [seq |-> 0, status |-> "None", index |-> 0]

get_session_record(st, c) ==
    IF c \in DOMAIN st.sessions THEN st.sessions[c] ELSE NoSession

\* What the sequence firewall asks of it: check_session(client_id, 0).
check_session(st, c) == get_session_record(st, c)

get_inventory(st) == st.items

current_version(st) == st.applied

max_timestamp(t1, t2) == IF t1 > t2 THEN t1 ELSE t2

item_from_mutation(index, m) ==
    [quantity |-> m.qty, last_modified_by |-> m.client, version |-> index]

\* function with one more, or one fewer, argument
With(f, x, v) == [y \in DOMAIN f \cup {x} |-> IF y = x THEN v ELSE f[y]]
Without(f, x) == [y \in DOMAIN f \ {x} |-> f[y]]

\* The transaction over the three trees.
Committed(st, index, m) ==
    [items |-> IF m.status # "Committed" THEN st.items
               ELSE IF m.is_delete THEN Without(st.items, m.key)
               ELSE With(st.items, m.key, item_from_mutation(index, m)),
     sessions |-> With(st.sessions, m.client,
                       [seq |-> m.seq, status |-> m.status, index |-> index]),
     time |-> max_timestamp(m.time, st.time),
     applied |-> index,
     poisoned |-> FALSE]

\* Variant: an entry whose sequence was seen is applied again.
is_duplicate_older(st, m) == m.seq < get_session_record(st, m.client).seq

is_duplicate(st, m) == m.seq <= get_session_record(st, m.client).seq

advance_last_applied_for_duplicate(st, index) == [st EXCEPT !.applied = index]

validate_log_monotonicity(st, index) == index = st.applied + 1

\* A poisoned store refuses everything. Decoding failures, unknown statuses,
\* malformed client ids and missing event times poison it too; the gateway,
\* the only writer of entries, produces none of them.
apply(st, index, m) ==
    IF st.poisoned THEN st
    ELSE IF ~ validate_log_monotonicity(st, index) THEN [st EXCEPT !.poisoned = TRUE]
    ELSE IF is_duplicate(st, m) THEN advance_last_applied_for_duplicate(st, index)
    ELSE IF m.seq > get_session_record(st, m.client).seq + 1 THEN [st EXCEPT !.poisoned = TRUE]
    ELSE Committed(st, index, m)

\* Variant: the sessions are not part of the snapshot.
snapshot_without_sessions(st) ==
    [items |-> st.items, sessions |-> << >>, time |-> st.time]

snapshot(st) == [items |-> st.items, sessions |-> st.sessions, time |-> st.time]

\* The label is the index the snapshot was announced with.
install_snapshot(st, label, snap) ==
    IF st.poisoned THEN st
    ELSE [items |-> snap.items, sessions |-> snap.sessions, time |-> snap.time,
          applied |-> label, poisoned |-> FALSE]

\* The reference: the store after a sequence of mutations.
Replay(ms) ==
    LET after[i \in 0..Len(ms)] ==
            IF i = 0 THEN new ELSE apply(after[i - 1], after[i - 1].applied + 1, ms[i])
    IN  after[Len(ms)]

=============================================================================
