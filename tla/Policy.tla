------------------------------- MODULE Policy -------------------------------
(***************************************************************************)
(* From a line typed at the client's prompt to a mutation of the           *)
(* inventory: the REPL's parser, the gateway's scrubber, the loop that     *)
(* asks the policy oracle, the oracle's own check of what the language     *)
(* model said, and the stabilizer. Each mutation is committed and applied  *)
(* before the next command starts; Ledger has the cases where it is not.   *)
(*                                                                         *)
(* A text is a sequence of words and separators, a number a string that    *)
(* Number maps to ten-thousandths if it parses.                            *)
(***************************************************************************)
EXTENDS Units, FiniteSets

CONSTANTS
    Lines,              \* what may be typed: [cmd, args]
    Answers,            \* what the language model may say
    Number,             \* numeric strings -> ten-thousandths
    Lower,              \* capitalised words -> lower case
    veto_max_retries,
    MaxRequests         \* bound on the commands

ASSUME RetriesAssumption == veto_max_retries \in Nat

ASSUME NumberAssumption == \A s \in DOMAIN Number : Number[s] \in Int

VARIABLES
    inventory,      \* key -> [quantity, unit, display_unit], for the keys present
    stage,          \* "idle" or "evaluating"
    intent,         \* the ScrubbedIntent being evaluated
    attempt,
    verdict,        \* how the last command ended
    requests,       \* history: commands so far
    typed           \* history: key -> what was typed for the item since it was set

vars == <<inventory, stage, intent, attempt, verdict, requests, typed>>

NoIntent == [operation |-> "None", item_key |-> << >>, quantity |-> 0]

\* status is Committed, Vetoed, Refused or Error.
Verdict(status, op) == [status |-> status, op |-> op]

NoVerdict == Verdict("None", "None")

Init ==
    /\ inventory = << >>
    /\ stage = "idle"
    /\ intent = NoIntent
    /\ attempt = 0
    /\ verdict = NoVerdict
    /\ requests = 0
    /\ typed = << >>

-----------------------------------------------------------------------------
(* Texts *)

Separators == {" ", "-", "_"}

lowercase(w) == IF w \in DOMAIN Lower THEN Lower[w] ELSE w

to_lowercase(text) == [i \in DOMAIN text |-> lowercase(text[i])]

\* Words in lower case, runs of separators collapsed, none at either end.
slugify(text) ==
    LET extend(out, w) ==
            CASE w \notin Separators -> Append(out, lowercase(w))
              [] w \in Separators /\ (out = << >> \/ Last(out) = "_") -> out
              [] OTHER -> Append(out, "_")
        slug == FoldLeft(extend, << >>, text)
    IN  IF slug # << >> /\ Last(slug) = "_" THEN Front(slug) ELSE slug

GroceryCategory ==
    {"PrimaryFlora", "AnimalSecretions", "FleshAndMarrow", "ShelfStableCarbohydrates",
     "CulturedDoughs", "LiquefiedHydration", "CondimentsAndCatalysts",
     "NutrientSparseCommodities", "EthanolSolutions", "BiomedicalMaintenance",
     "SanitizationAndUtility", "AnomalousInputs"}

parsed(s) == IF s \in DOMAIN Number THEN {Number[s]} ELSE {}

-----------------------------------------------------------------------------
(* The prompt *)

Operation == [add |-> "Add", subtract |-> "Subtract", sub |-> "Subtract", set |-> "Set"]

\* MutationArgs: <item_key> <quantity> [unit] [category], each of any form.
\* The unit only reaches the oracle's prompt.
MutationArgs(args, op) ==
    IF Len(args) \notin 2..4 THEN {}
    ELSE {[operation |-> op, item_key |-> args[1], quantity |-> args[2],
           category |-> IF Len(args) = 4 THEN args[4] ELSE ""]}

\* The intent of a mutation command; queries are in Ledger.
parse(line) ==
    CASE line.cmd \in DOMAIN Operation -> MutationArgs(line.args, Operation[line.cmd])
      [] line.cmd \in {"delete", "del", "rm"} /\ Len(line.args) = 1 ->
            {[operation |-> "Delete", item_key |-> line.args[1], quantity |-> "",
              category |-> ""]}
      [] OTHER -> {}

\* The scrubber: an absent quantity is 0, which only Delete has.
normalize_intent(i) ==
    IF /\ i.quantity # "" => \E q \in parsed(i.quantity) : q >= 0
       /\ i.category # "" => i.category \in GroceryCategory
       /\ i.item_key # << >>
       /\ (i.operation = "Delete") = (i.quantity = "")
    THEN {[operation |-> i.operation, item_key |-> to_lowercase(i.item_key),
           quantity |-> IF i.quantity = "" THEN 0 ELSE Number[i.quantity]]}
    ELSE {}

-----------------------------------------------------------------------------
(* The oracle (ai-veto) *)

\* Variant: two anomalous units may share an item key.
splits_identity_not(key, unit) == TRUE

\* The key of an item in an anomalous unit ends with the unit.
splits_identity(key, unit) ==
    LET k == to_lowercase(key)
    IN  Registry[unit].dimension = "Anomalous" =>
            Len(k) >= 2 /\ SubSeq(k, Len(k) - 1, Len(k)) = <<"_", unit>>

validate_semantic_integrity(a) ==
    /\ a.category \in GroceryCategory
    /\ resolve_symbol(a.unit) # {}
    /\ a.key # << >>
    /\ splits_identity(a.key, a.unit)

\* The response for what the model said, if it is one. An absent multiplier is
\* the registry's.
evaluate_proposal(a) ==
    IF ~ validate_semantic_integrity(a) THEN {}
    ELSE {[is_approved |-> a.is_approved, category |-> a.category, key |-> a.key,
           unit |-> a.unit,
           multipliers |-> IF a.custom_multiplier = "" THEN {Registry[a.unit].multiplier}
                           ELSE {10 * n : n \in parsed(a.custom_multiplier)}]}

-----------------------------------------------------------------------------
(* The stabilizer *)

\* Variant: the oracle's multiplier wins over the registry's.
oracle_decides_always(entry) == TRUE

oracle_decides(entry) == entry.is_contextual

\* Strictly positive, or refused.
verify_unit_stabilization(qty, o) ==
    LET converted ==
            IF oracle_decides(Registry[o.unit])
            THEN UNION {parse_and_convert_with_multiplier(qty, o.unit, m) : m \in o.multipliers}
            ELSE parse_and_convert(qty, o.unit)
    IN  IF resolve_symbol(o.unit) = {} \/ o.multipliers = {} THEN {}
        ELSE {b \in converted : b.value > 0}

Accumulates(op) == op \in {"Add", "Subtract"}

enforce_physical_invariants(op, key, new) ==
    Accumulates(op) /\ key \in DOMAIN inventory =>
        Registry[inventory[key].unit].dimension = new.dimension

\* Variant: a subtraction may go below zero.
not_negative_unchecked(value) == TRUE

not_negative(value) == value >= 0

\* An operation on an item that is not there takes the quantity as it is, a
\* subtraction too.
apply_arithmetic_accumulation(op, key, new) ==
    IF ~ Accumulates(op) \/ key \notin DOMAIN inventory THEN {new}
    ELSE LET existing == parse_and_convert(inventory[key].quantity, inventory[key].unit)
         IN  {r \in UNION {IF op = "Add" THEN add(e, new) ELSE sub(e, new) : e \in existing}
                : not_negative(r.value)}

\* The quantity the item will have, in its base unit.
validate_and_stabilize(i, o) ==
    IF o.category \notin GroceryCategory \/ slugify(o.key) # o.key THEN {}
    ELSE IF i.operation = "Delete" THEN {[value |-> 0, dimension |-> "Count"]}
    ELSE UNION {apply_arithmetic_accumulation(i.operation, o.key, b) :
                 b \in {b \in verify_unit_stabilization(i.quantity, o) :
                            enforce_physical_invariants(i.operation, o.key, b)}}

-----------------------------------------------------------------------------
(* The state machine *)

\* Variant: a vetoed mutation is carried out.
carried_out_vetoed(status) == TRUE

carried_out(status) == status = "Committed"

\* The inventory after the log entry of a mutation, vetoed or not.
Applied(status, i, key, b, display_unit) ==
    IF ~ carried_out(status) THEN inventory
    ELSE IF i.operation = "Delete" THEN [k \in DOMAIN inventory \ {key} |-> inventory[k]]
    ELSE [k \in DOMAIN inventory \cup {key} |->
            IF k # key THEN inventory[k]
            ELSE [quantity |-> b.value, unit |-> base_unit[b.dimension],
                  display_unit |-> display_unit]]

\* The entry of a veto.
Nothing == [value |-> 0, dimension |-> "Count"]

\* History: the total of what was typed for an item and in how many commands,
\* as long as all of them are in one unit of the registry, and the amounts have
\* their four places. It begins when the item is set or first added to.
Untracked == [tracked |-> FALSE, total |-> 0, times |-> 0]

Counted(i, o, b) ==
    LET adds == Accumulates(i.operation) /\ o.key \in DOMAIN inventory
        old  == IF adds THEN typed[o.key]
                ELSE [tracked |-> i.operation # "Subtract", total |-> 0, times |-> 0]
        sign == IF i.operation = "Subtract" THEN -1 ELSE 1
        new  == IF /\ old.tracked
                   /\ adds => inventory[o.key].display_unit = o.unit
                   /\ ~ Registry[o.unit].is_contextual
                   /\ FourPlaces(b.value)
                THEN [tracked |-> TRUE, total |-> old.total + sign * i.quantity,
                      times |-> old.times + 1]
                ELSE Untracked
    IN  IF i.operation = "Delete" THEN [k \in DOMAIN typed \ {o.key} |-> typed[k]]
        ELSE [k \in DOMAIN typed \cup {o.key} |-> IF k = o.key THEN new ELSE typed[k]]

-----------------------------------------------------------------------------

Finish(v) ==
    /\ verdict' = v
    /\ stage' = "idle"
    /\ intent' = NoIntent
    /\ attempt' = 0

\* A command is typed; the gateway refuses what it cannot normalise.
execute_command(line) ==
    /\ stage = "idle"
    /\ requests < MaxRequests
    /\ requests' = requests + 1
    /\ \E i \in parse(line) :
        IF normalize_intent(i) = {}
        THEN Finish(Verdict("Refused", i.operation))
        ELSE /\ intent' \in normalize_intent(i)
             /\ stage' = "evaluating"
             /\ UNCHANGED <<attempt, verdict>>
    /\ UNCHANGED <<inventory, typed>>

Retry ==
    /\ attempt < veto_max_retries
    /\ attempt' = attempt + 1
    /\ UNCHANGED <<inventory, stage, intent, verdict, requests, typed>>

\* Timeout, RPC failure (a hallucination is one) or a response without the
\* request's trace id. The last attempt's error is the command's.
evaluate_policy_fails ==
    /\ stage = "evaluating"
    /\ \/ Retry
       \/ /\ attempt = veto_max_retries
          /\ Finish(Verdict("Error", intent.operation))
          /\ UNCHANGED <<inventory, requests, typed>>

\* One attempt with a response: vetoed, stabilised, or, when the attempts are
\* used up, vetoed for the answer that did not stabilise.
resolve_semantic_mutation(a) ==
    /\ stage = "evaluating"
    /\ \E o \in evaluate_proposal(a) :
        LET stabilized == IF o.is_approved THEN validate_and_stabilize(intent, o) ELSE {}
        IN  \/ /\ o.is_approved /\ stabilized = {}
               /\ Retry
            \/ /\ stabilized = {}
               /\ o.is_approved => attempt = veto_max_retries
               /\ inventory' = Applied("Vetoed", intent, o.key, Nothing, "units")
               /\ Finish(Verdict("Vetoed", intent.operation))
               /\ UNCHANGED <<requests, typed>>
            \/ \E b \in stabilized :
               /\ inventory' = Applied("Committed", intent, o.key, b, o.unit)
               /\ typed' = Counted(intent, o, b)
               /\ Finish(Verdict("Committed", intent.operation))
               /\ UNCHANGED requests

Next ==
    \/ \E line \in Lines : execute_command(line)
    \/ evaluate_policy_fails
    \/ \E a \in Answers : resolve_semantic_mutation(a)

Spec == Init /\ [][Next]_vars

-----------------------------------------------------------------------------
(* Properties *)

\* Whatever the language model says, the inventory holds non-negative amounts
\* in base units under canonical keys.
TypeOK ==
    /\ stage \in {"idle", "evaluating"}
    /\ attempt \in 0..veto_max_retries
    /\ \A k \in DOMAIN inventory :
        /\ slugify(k) = k
        /\ inventory[k].quantity >= 0 /\ IsDecimal(inventory[k].quantity)
        /\ \E d \in DOMAIN base_unit : inventory[k].unit = base_unit[d]

\* What a query shows for an item, in the unit of its last mutation.
Shown(item) == convert_to_display_value(item.quantity, item.display_unit)

\* So many roundings to the base unit, of about half of its last place each,
\* do not add up to half of the last place that is shown in a larger unit.
RoundsAway(times, multiplier) ==
    multiplier % One = 0 \/ 5 * times <= 4 * (multiplier \div One)

\* A query shows exactly the total of what was typed for an item since it was
\* set, when all of it was in one unit of the registry, however often commands
\* were repeated and whatever was vetoed, refused or retried in between: the
\* roundings to the base unit and back cancel out, the oracle cannot redefine
\* a unit, and a rejected answer leaves no trace. It holds while amounts have
\* their four places (beyond, decimals lose them) and for so many commands as
\* the unit is large (362 for a pound, 22 for an ounce), no limit applying to
\* multipliers without a fraction.
DisplayFollowsCommands ==
    \A k \in DOMAIN inventory :
        /\ k \in DOMAIN typed
        /\ typed[k].tracked
           /\ RoundsAway(typed[k].times, Registry[inventory[k].display_unit].multiplier)
           => Shown(inventory[k]) = {typed[k].total}

\* Handfuls are never added to bunches: an accumulating command on an item in
\* an anomalous unit is in the unit the item was recorded in.
AnomalousUnitsNeverMix ==
    [][\A k \in DOMAIN inventory \cap DOMAIN inventory' :
        inventory'[k] # inventory[k] /\ inventory[k].unit = "misc" /\ Accumulates(verdict'.op)
            => inventory'[k].display_unit = inventory[k].display_unit]_vars

=============================================================================
