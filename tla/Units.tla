------------------------------- MODULE Units -------------------------------
(***************************************************************************)
(* The unit registry (common/src/units.rs): conversion of a quantity to    *)
(* the base unit of its dimension and back for display, with the rounding  *)
(* of both and with the limits of the decimals they are computed in.       *)
(*                                                                         *)
(* Quantities count ten-thousandths (SI_STABILIZATION_PRECISION is 4) and  *)
(* multipliers hundred-thousandths. An operator that computes a quantity   *)
(* is the set of the results it may have; it fails when there is none.     *)
(***************************************************************************)
EXTENDS Integers, Sequences, SequencesExt

CONSTANT DecimalMax     \* the largest mantissa of a Decimal, 2^96 - 1 in the code

ASSUME DecimalAssumption == DecimalMax \in Nat /\ DecimalMax >= 10000

One == 100000

Entry(d, m) == [dimension |-> d, multiplier |-> m, is_contextual |-> FALSE]
Contextual(d) == [dimension |-> d, multiplier |-> One, is_contextual |-> TRUE]

\* One spelling per unit; of the anomalous ones, which share an entry, three.
Registry ==
    [g |-> Entry("Mass", One), kg |-> Entry("Mass", 1000 * One),
     lb |-> Entry("Mass", 45359237), oz |-> Entry("Mass", 2834952),
     ml |-> Entry("Volume", One), l |-> Entry("Volume", 1000 * One),
     gal |-> Entry("Volume", 378541178), fl_oz |-> Entry("Volume", 2957353),
     units |-> Entry("Count", One), dozens |-> Entry("Count", 12 * One),
     packs |-> Contextual("Count"),
     misc |-> Contextual("Anomalous"), handful |-> Contextual("Anomalous"),
     bunch |-> Contextual("Anomalous")]

resolve_symbol(symbol) == IF symbol \in DOMAIN Registry THEN {Registry[symbol]} ELSE {}

base_unit == [Mass |-> "g", Volume |-> "ml", Count |-> "units", Anomalous |-> "misc"]

-----------------------------------------------------------------------------

(* Decimals (rust_decimal): a mantissa and a scale that floats. A result    *)
(* with too many places for its mantissa loses the last ones silently, and  *)
(* only one with no places left to lose is an overflow. The library rounds  *)
(* first where its mantissa ends and round_dp then at four places, so what  *)
(* is within a twentieth of the middle may be sent either way; ties, which  *)
(* the code sends to the even neighbour, are among them.                    *)

\* The result at four places for n + r/d.
round_dp(n, r, d) ==
    {m \in {n} : 2 * r <= d + d \div 10} \cup {m \in {n + 1} : 2 * r >= d - d \div 10}

\* The last place of a Decimal with 4, 3, 2, 1 and 0 places.
Grains == {1, 10, 100, 1000, 10000}

IsDecimal(v) == \E g \in Grains : v % g = 0 /\ v \div g <= DecimalMax

\* The Decimals among the multiples of each grain that enclose v.
Enclosing(v) == {w \in {g * (v \div g + up) : g \in Grains, up \in 0..1} : IsDecimal(w)}

\* What becomes of v: itself if it is a Decimal, or else a Decimal next to it
\* on either side. (Negative values are kept: none is ever stored.)
Kept(v) ==
    LET around == Enclosing(v)
    IN  {w \in around : \A u \in around : ~ (w < u /\ u <= v) /\ ~ (v <= u /\ u < w)}

\* So far below the limit, a value has all of its four places, and has not
\* been rounded down from where it would not have.
FourPlaces(v) == v <= DecimalMax - 10

-----------------------------------------------------------------------------

\* qty * multiplier, the integral part of the multiplier first.
convert_to_base_val(qty, multiplier) ==
    LET whole == qty * (multiplier \div One)
        part  == qty * (multiplier % One)
    IN  UNION {Kept(v) : v \in round_dp(whole + part \div One, part % One, One)}

\* The physical quantity of qty in a unit: a value and its dimension.
parse_and_convert_with_multiplier(qty, symbol, multiplier) ==
    UNION {{[value |-> v, dimension |-> e.dimension] : v \in convert_to_base_val(qty, multiplier)}
            : e \in resolve_symbol(symbol)}

parse_and_convert(qty, symbol) ==
    UNION {parse_and_convert_with_multiplier(qty, symbol, e.multiplier)
            : e \in resolve_symbol(symbol)}

\* The dimensional fence of the arithmetic operators.
add(a, b) ==
    {[a EXCEPT !.value = v] : v \in
        IF a.dimension = b.dimension THEN Kept(a.value + b.value) ELSE {}}

sub(a, b) ==
    {[a EXCEPT !.value = v] : v \in
        IF a.dimension = b.dimension THEN Kept(a.value - b.value) ELSE {}}

-----------------------------------------------------------------------------

\* A quotient n with remainder r, after one more factor f of the dividend.
Shift(acc, f, divisor) ==
    [n |-> acc.n * f + (acc.r * f) \div divisor, r |-> (acc.r * f) % divisor]

\* Long division, one place further: the factors of ten one at a time.
NextPlace(acc, divisor) == Shift(Shift(acc, 2, divisor), 5, divisor)

\* The quotient of base and multiplier to four places. A multiplier counts
\* hundred-thousandths, so the division is carried five places further.
Quotient(base, multiplier) ==
    LET p0 == [n |-> base \div multiplier, r |-> base % multiplier]
        p1 == NextPlace(p0, multiplier)
        p2 == NextPlace(p1, multiplier)
        p3 == NextPlace(p2, multiplier)
        p4 == NextPlace(p3, multiplier)
        p5 == NextPlace(p4, multiplier)
    IN  UNION {Kept(v) : v \in round_dp(p5.n, p5.r, multiplier)}

\* A contextual unit cannot be reversed: its multiplier was the oracle's.
convert_to_display_value(base, symbol) ==
    UNION {Quotient(base, e.multiplier) : e \in {x \in resolve_symbol(symbol) : ~ x.is_contextual}}

=============================================================================
