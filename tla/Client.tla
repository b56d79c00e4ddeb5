------------------------------- MODULE Client -------------------------------
(***************************************************************************)
(* Clients (client-cli): sequence numbers, the write-ahead log of intents, *)
(* the retry loop with its list of known nodes, and start-up recovery.     *)
(*                                                                         *)
(* saved and wal and known_nodes are on disk; the rest dies with the       *)
(* process. The REPL runs one command at a time.                           *)
(***************************************************************************)
EXTENDS Naturals, Sequences, SequencesExt, FiniteSetsExt

CONSTANTS
    Clients,
    Intents,            \* what a user may ask for
    Seeds,              \* the nodes given on the command line, in order
    max_retries,        \* known_nodes.len() + MAX_KNOWN_NODES in the code
    MAX_KNOWN_NODES,
    MaxSequence,        \* bound on the mutations of a client
    MaxClientCrashes    \* bound on the crashes of all clients

ASSUME RetriesAssumption == max_retries \in Nat \ {0} /\ MAX_KNOWN_NODES \in Nat \ {0}

VARIABLES
    saved,          \* sequence_id of the state file
    wal,            \* per client: the intent of each pending sequence
    known_nodes,    \* per client: nodes, the one to try first at the head
    point,          \* where the client is
    current,        \* the request it executes: [op, seq, intent, min]
    retry_count,
    recovering,     \* BOOLEAN: the command comes from recover_pending_intents
    connected,      \* BOOLEAN: a channel to the first known node is open
    sends, client_crashes,      \* history: requests and crashes so far
    told            \* history: the sequences whose outcome was reported

disk == <<saved, wal, known_nodes>>
session == <<point, current, retry_count, recovering, connected>>
clientVars == <<disk, session, sends, client_crashes, told>>

Idle == [op |-> "none", seq |-> 0, intent |-> "none", min |-> 0]
mutation(s, i) == [op |-> "mutate", seq |-> s, intent |-> i, min |-> 0]
query(v) == [op |-> "query", seq |-> 0, intent |-> "none", min |-> v]

-----------------------------------------------------------------------------
(* The state file and the write-ahead log *)

\* Variant: the counter is kept in memory only.
save_sequence_not(c, s) == UNCHANGED saved

save_sequence(c, s) == saved' = [saved EXCEPT ![c] = s]

truncate(nodes) == SubSeq(nodes, 1, Min({Len(nodes), MAX_KNOWN_NODES}))

\* The nodes of the state file after a start with further nodes on the command
\* line, which come first.
load_or_init(nodes, overriding) ==
    LET prepend(n, list) == <<n>> \o Remove(list, n)
    IN  truncate(FoldRight(prepend, truncate(overriding), truncate(nodes)))

record_success(nodes, n) == truncate(<<n>> \o Remove(nodes, n))

record_hint(nodes, n) == record_success(nodes, n)

rotate_nodes(nodes) ==
    IF Len(nodes) > 1 THEN Append(Tail(nodes), Head(nodes)) ELSE nodes

wal_append(w, s, i) == [t \in DOMAIN w \cup {s} |-> IF t = s THEN i ELSE w[t]]
wal_remove(w, s) == [t \in DOMAIN w \ {s} |-> w[t]]

\* The log yields its intents in the order of their sequence numbers: the first.
recover(w) == mutation(Min(DOMAIN w), w[Min(DOMAIN w)])

ClientInit ==
    /\ saved = [c \in Clients |-> 0]
    /\ wal = [c \in Clients |-> << >>]
    /\ known_nodes = [c \in Clients |-> load_or_init(<< >>, Seeds)]
    /\ point = [c \in Clients |-> "prompt"]
    /\ current = [c \in Clients |-> Idle]
    /\ retry_count = [c \in Clients |-> 0]
    /\ recovering = [c \in Clients |-> FALSE]
    /\ connected = [c \in Clients |-> FALSE]
    /\ sends = 0
    /\ client_crashes = 0
    /\ told = {}

-----------------------------------------------------------------------------
(* Executing one request *)

\* The request c executes next, starting a new retry loop.
Execute(c, r, p) ==
    /\ current' = [current EXCEPT ![c] = r]
    /\ retry_count' = [retry_count EXCEPT ![c] = 0]
    /\ point' = [point EXCEPT ![c] = p]

\* propose_mutation up to the sequence number ...
next_sequence_id(c, i) ==
    /\ point[c] = "prompt"
    /\ saved[c] < MaxSequence
    /\ save_sequence(c, saved[c] + 1)
    /\ Execute(c, mutation(saved[c] + 1, i), "assigned")
    /\ UNCHANGED <<wal, known_nodes, recovering, connected, sends, client_crashes, told>>

\* ... and the fsynced append, before anything is sent.
append(c) ==
    /\ point[c] = "assigned"
    /\ wal' = [wal EXCEPT ![c] = wal_append(@, current[c].seq, current[c].intent)]
    /\ point' = [point EXCEPT ![c] = "sending"]
    /\ UNCHANGED <<saved, known_nodes, current, retry_count, recovering, connected,
                   sends, client_crashes, told>>

query_state(c, v) ==
    /\ point[c] = "prompt"
    /\ Execute(c, query(v), "sending")
    /\ UNCHANGED <<disk, recovering, connected, sends, client_crashes, told>>

\* An error ends the command. During recovery it ends the process, since main
\* returns it.
Fail(c) ==
    /\ point' = [point EXCEPT ![c] = IF recovering[c] THEN "down" ELSE "prompt"]
    /\ current' = [current EXCEPT ![c] = Idle]
    /\ retry_count' = [retry_count EXCEPT ![c] = 0]
    /\ recovering' = [recovering EXCEPT ![c] = FALSE]
    /\ connected' = [connected EXCEPT ![c] = @ /\ ~ recovering[c]]

\* The loop is exhausted, or get_or_connect fails.
GiveUp(c) ==
    /\ point[c] = "sending"
    /\ retry_count[c] >= max_retries \/ ~ connected[c]
    /\ Fail(c)
    /\ UNCHANGED <<disk, sends, client_crashes, told>>

\* The request goes to the first known node.
send(c) ==
    /\ point[c] = "sending"
    /\ retry_count[c] < max_retries
    /\ sends' = sends + 1
    /\ retry_count' = [retry_count EXCEPT ![c] = @ + 1]
    /\ point' = [point EXCEPT ![c] = "waiting"]
    /\ connected' = [connected EXCEPT ![c] = TRUE]
    /\ UNCHANGED <<disk, current, recovering, client_crashes, told>>

\* Rejected with a hint: the hint is tried next. Rejected without one, or an
\* error other than the two below: the next known node.
reconcile_routing_failure(c, hint, none) ==
    /\ known_nodes' = [known_nodes EXCEPT
            ![c] = IF hint # none THEN record_hint(@, hint) ELSE rotate_nodes(@)]
    /\ point' = [point EXCEPT ![c] = "sending"]
    /\ connected' = [connected EXCEPT ![c] = FALSE]
    /\ UNCHANGED <<saved, wal, current, retry_count, recovering, told>>

\* The intents recover_pending_intents still has to settle, lowest first.
Continue(c, w) ==
    /\ IF recovering[c] /\ DOMAIN w # {}
       THEN /\ Execute(c, recover(w), "sending")
            /\ UNCHANGED recovering
       ELSE /\ Execute(c, Idle, "prompt")
            /\ recovering' = [recovering EXCEPT ![c] = FALSE]

\* A response with a terminal status: the intent leaves the log, the user (or
\* the recovery log) is told.
terminal(status) == status \in {"Committed", "Vetoed"}

execute_mutation(c, answer) ==
    LET w == IF terminal(answer.status) THEN wal_remove(wal[c], current[c].seq) ELSE wal[c]
    IN  /\ wal' = [wal EXCEPT ![c] = w]
        /\ told' = told \cup {[client |-> c, seq |-> current[c].seq]}
        /\ Continue(c, w)
        /\ UNCHANGED <<saved, known_nodes, connected>>

\* What execute_with_retry makes of an answer. Success records the node that
\* answered, which is the first of the list already.
receive(c, answer, none) ==
    /\ point[c] = "waiting"
    /\ CASE answer.status \in {"Rejected", "Transient"} ->
                reconcile_routing_failure(c, answer.hint, none)
         [] answer.status = "Invalid" -> Fail(c) /\ UNCHANGED <<disk, told>>
         [] answer.status = "Items" ->
                /\ Execute(c, Idle, "prompt")
                /\ UNCHANGED <<disk, recovering, connected, told>>
         [] OTHER -> execute_mutation(c, answer)
    /\ UNCHANGED <<sends, client_crashes>>

-----------------------------------------------------------------------------
(* Crashes and restarts *)

ClientCrash(c) ==
    /\ point[c] # "down"
    /\ client_crashes < MaxClientCrashes
    /\ client_crashes' = client_crashes + 1
    /\ Execute(c, Idle, "down")
    /\ recovering' = [recovering EXCEPT ![c] = FALSE]
    /\ connected' = [connected EXCEPT ![c] = FALSE]
    /\ UNCHANGED <<disk, sends, told>>

\* main: with or without nodes on the command line, then
\* recover_pending_intents.
restart(c) ==
    /\ point[c] = "down"
    /\ \E overriding \in {<< >>, Seeds} :
          known_nodes' = [known_nodes EXCEPT ![c] = load_or_init(@, overriding)]
    /\ IF DOMAIN wal[c] = {}
       THEN Execute(c, Idle, "prompt") /\ UNCHANGED recovering
       ELSE /\ Execute(c, recover(wal[c]), "sending")
            /\ recovering' = [recovering EXCEPT ![c] = TRUE]
    /\ UNCHANGED <<saved, wal, connected, sends, client_crashes, told>>

=============================================================================
