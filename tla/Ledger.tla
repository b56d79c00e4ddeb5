------------------------------- MODULE Ledger -------------------------------
(***************************************************************************)
(* The whole service: clients with their write-ahead logs, the gateways    *)
(* they talk to, and the replicated stores behind them. Requests may be    *)
(* lost, delayed past their timeout and repeated; leaders change under     *)
(* running handlers; clients crash and recover.                            *)
(***************************************************************************)
EXTENDS Gateway, Client

CONSTANT MaxEffort  \* bound on requests, client crashes and changes of leader together

ASSUME LedgerAssumption ==
    /\ Clock \in [Node -> Nat]
    /\ MaxSequence \in Nat

\* History: the outcomes told by a handler whose node lost the leadership it
\* proposed in and was elected again.
VARIABLE regained

vars == <<raft, fsm, handlers, probe, clientVars, regained>>

Init ==
    /\ ConsensusInit
    /\ GatewayInit
    /\ ClientInit
    /\ regained = {}

-----------------------------------------------------------------------------

\* Requests sent, clients crashed and leaders replaced so far.
Effort == sends + client_crashes + (IF term = 0 THEN 0 ELSE term - 1)

\* Client c stops waiting. Its mutation goes on without it; a query, which
\* would change nothing but a read epoch, ends.
IsQuery(r) == r.at \in {"probing", "fencing", "reading"} \/ (r.at = "sent" /\ r.op = "query")

Orphaned(c) ==
    [h \in Slots |->
        IF h \notin Busy \/ handlers[h].client # c THEN handlers[h]
        ELSE IF IsQuery(handlers[h]) THEN Free ELSE [handlers[h] EXCEPT !.live = FALSE]]

\* Versions a user may ask for: any answer's state_version, or none.
Versions == {0} \cup {i \in 1..Len(chosen) : chosen[i].status = "Committed"}

Command(c) ==
    /\ \/ \E i \in Intents : next_sequence_id(c, i)
       \/ append(c)
       \/ \E v \in Versions : query_state(c, v)
       \/ GiveUp(c)
       \/ restart(c)
    /\ UNCHANGED <<raft, fsm, handlers, probe, regained>>

\* Client c sends to node n, the first one it knows.
Send(c, n) ==
    /\ Busy # Slots
    /\ Effort < MaxEffort
    /\ Head(known_nodes[c]) = n
    /\ send(c)
    /\ GoOn(Min(Slots \ Busy), Request(c, current[c], n))
    /\ UNCHANGED <<raft, fsm, probe, regained>>

\* The deadline of the request passes at the client, or its connection breaks.
Timeout(c) ==
    /\ receive(c, Transient, None)
    /\ handlers' = Orphaned(c)
    /\ UNCHANGED <<raft, fsm, probe, regained>>

Crash(c) ==
    /\ Effort < MaxEffort
    /\ ClientCrash(c)
    /\ handlers' = Orphaned(c)
    /\ UNCHANGED <<raft, fsm, probe, regained>>

\* A handler nobody waits for is dropped: the server's own deadline, or the
\* closed connection, or a request that was lost on the way.
Drop(h) ==
    /\ h \in Busy /\ ~ handlers[h].live
    /\ GoOn(h, Free)
    /\ UNCHANGED <<raft, fsm, probe, clientVars, regained>>

Handle(h) ==
    /\ Proceed(h)
    /\ UNCHANGED <<raft, fsm, clientVars, regained>>

HandleProposal(h) ==
    /\ commit_to_consensus(h)
    /\ UNCHANGED <<chosen, committed, leading, term, fsm, clientVars, regained>>

\* r waits, and the leadership it proposed in is over.
Outlived(r) == r.at = "awaiting" /\ leading[r.node] # r.in_term

Reply(h) ==
    /\ h \in Busy
    /\ \E answer \in Answers(handlers[h]) :
          IF handlers[h].live THEN receive(handlers[h].client, answer, None)
          ELSE UNCHANGED clientVars
    /\ regained' = regained \cup (IF Outlived(handlers[h]) THEN told' \ told ELSE {})
    /\ GoOn(h, Free)
    /\ UNCHANGED <<raft, fsm, probe>>

\* The epochs are part of the Leader role.
Replicate ==
    /\ ConsensusNext
    /\ UNCHANGED <<handlers, clientVars, regained>>
    /\ Effort' <= MaxEffort
    /\ LET lost == {n \in Node : is_leader(n) /\ leading'[n] = 0}
       IN  IF lost = {} THEN UNCHANGED probe ELSE \A n \in lost : ForgetProbe(n)

Probe ==
    /\ \E n \in Node : Heartbeat(n) \/ ReceiveAcks(n)
    /\ UNCHANGED <<raft, fsm, clientVars, regained>>

Next ==
    \/ \E c \in Clients : Command(c) \/ Timeout(c) \/ Crash(c) \/ \E n \in Node : Send(c, n)
    \/ \E h \in Slots : Handle(h) \/ HandleProposal(h) \/ Reply(h) \/ Drop(h)
    \/ Replicate
    \/ Probe

Spec == Init /\ [][Next]_vars

-----------------------------------------------------------------------------
(* Properties *)

\* The effective entry of each (client, sequence) among the chosen ones.
Recorded == Replay(chosen).sessions

LastRecorded(c) == IF c \in DOMAIN Recorded THEN Recorded[c].seq ELSE 0

Points == {"prompt", "assigned", "sending", "waiting", "down"}

\* Every variable has its type; a store is never ahead of its node's commit
\* index, and only a client that waits has a live handler.
TypeOK ==
    /\ committed \in [Node -> 0..Len(chosen)]
    /\ leading \in [Node -> 0..term]
    /\ \A n \in Node : store[n].applied <= committed[n]
    /\ saved \in [Clients -> 0..MaxSequence]
    /\ \A c \in Clients : DOMAIN wal[c] \subseteq 1..saved[c]
    /\ point \in [Clients -> Points]
    /\ retry_count \in [Clients -> 0..max_retries]
    /\ \A h \in Busy : handlers[h].live => point[handlers[h].client] = "waiting"

\* No store ever meets a sequence gap, which would poison every node of the
\* cluster at the same entry: the firewall reads a store that may lag behind
\* what is committed, and before the lock is taken.
NoStorePoisons == \A n \in Node : ~ store[n].poisoned

\* A store reflects exactly the committed prefix it covers, whether it applied
\* every entry or restored a snapshot newer than its label and replayed the
\* entries in between on top of it.
StoresFollowTheLog ==
    \A n \in Node :
        [store[n] EXCEPT !.applied = covered[n]] = Replay(SubSeq(chosen, 1, covered[n]))

\* All entries for a sequence number stem from the same command, although it
\* is sent again by retries, by later incarnations of the client and by
\* handlers that outlived both.
OneIntentPerSequence ==
    \A i, j \in 1..Len(chosen) :
        chosen[i].client = chosen[j].client /\ chosen[i].seq = chosen[j].seq
            => chosen[i].is_delete = chosen[j].is_delete

\* Whoever was told an outcome (and dropped the intent from its write-ahead
\* log) has its sequence number in the committed history; unless the handler
\* missed that its node had lost the leadership it proposed in, and saw the node
\* lead again: await_commit then takes whatever is committed at the index for
\* the proposal.
ToldIsRecorded == \A t \in told \ regained : t.seq <= LastRecorded(t.client)

\* A query that opened its own read epoch on a quiet leader and was verified
\* has been asked of the newest leader.
VerifiedQueryIsAuthoritative ==
    \A h \in Busy : handlers[h].at \in {"fencing", "reading"} /\ handlers[h].quiet
        => handlers[h].newest

\* A query reads a store that covers the version it asked for.
FencedQuerySeesVersion ==
    \A h \in Busy : handlers[h].at = "reading" =>
        covered[handlers[h].node] >= handlers[h].min

\* The outcome a store has recorded for a sequence number never changes, and
\* sessions and the clinical clock never go back; except on a follower that was
\* restored from a snapshot newer than its label, and is restored again from a
\* leader that has not applied as much.
SessionsAdvance ==
    [][\A n \in Node : covered'[n] >= covered[n] =>
        /\ store'[n].time >= store[n].time
        /\ \A c \in DOMAIN store[n].sessions :
            LET old == store[n].sessions[c]
                nu  == store'[n].sessions[c]
            IN  c \in DOMAIN store'[n].sessions /\ (nu = old \/ nu.seq > old.seq)]_vars

Contract == INSTANCE ReplicatedLog
    WITH learned <- [n \in Node |-> Mutations(SubSeq(log[n], 1, committed[n]))]

\* What the nodes apply is what raft-engine promises them, and no more is used
\* of it: the contract that RaftContract shows the detailed model to keep.
ReliesOnContract == Contract!Spec

-----------------------------------------------------------------------------
(* What the documents promise and the code does not keep *)

\* Every effective addition has been computed from the quantity it replaces
\* (ADR 007: the oracle has a perfectly up-to-date view of the inventory).
NoLostUpdate ==
    \A i \in 1..Len(chosen) :
        LET before == Replay(SubSeq(chosen, 1, i - 1))
            m == chosen[i]
        IN  m.status = "Committed" /\ ~ m.is_delete /\ ~ is_duplicate(before, m)
            => m.qty = quantity(before.items) + 1

=============================================================================
