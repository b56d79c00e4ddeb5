------------------------------ MODULE MCLedger ------------------------------
(***************************************************************************)
(* Instances of Ledger for TLC, within budgets.                            *)
(***************************************************************************)
EXTENDS Ledger

CONSTANTS a, b, c1, Budgets

VARIABLE budget     \* what this behaviour may spend

SeedList == <<a, b>>

OneSeed == <<a>>

\* The clock of one node is ahead.
Skewed == [n \in Node |-> IF n = a THEN 2 ELSE 1]

\* One client does everything it can, and crashes; the leader changes once. What
\* it sends first is not a delete, and only the first mutation may be malformed.
Alone ==
    /\ \A d \in Clients \ {c1} : point[d] = "prompt" /\ saved[d] = 0
    /\ Effort <= 3 /\ term <= 2
    /\ current[c1].intent = "malformed" => current[c1].seq = 1
    /\ current[c1].intent = "delete" => sends > 0

\* Two clients add one item each, and wait, while a node loses the lead to the
\* other and gains it again and the appliers lag; the second client starts under
\* the second leader.
Contended ==
    /\ \A c \in Clients : /\ point[c] # "down" /\ saved[c] <= IF c = c1 \/ term > 1 THEN 1 ELSE 0
                          /\ current[c].op # "query" /\ current[c].intent \in {"add", "none"}
    /\ \A h \in Busy : handlers[h].live
    /\ \A n \in Node : Len(log[n]) <= 1 /\ store[n].applied = 0

Within ==
    /\ budget = "alone" => Alone
    /\ budget = "contended" => Contended

MCInit == Init /\ budget \in Budgets

MCNext == Next /\ UNCHANGED budget /\ Within'

MCSpec == MCInit /\ [][MCNext]_<<vars, budget>>
=============================================================================
