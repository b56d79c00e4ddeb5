---------------------------- MODULE PolicyProofs ----------------------------
(***************************************************************************)
(* Proofs about Policy, for every set of command lines and of answers of   *)
(* the language model, every number of retries and every size of the       *)
(* mantissa: the inventory is well formed, what is shown of an item is the *)
(* total of what was typed for it, and anomalous units never mix.          *)
(***************************************************************************)
EXTENDS Policy, TLAPS

-----------------------------------------------------------------------------
(* Decimal arithmetic *)

\* Multiplication distributes over sums and differences.
LEMMA Distributes ==
    ASSUME NEW a \in Int, NEW b \in Int, NEW c \in Int
    PROVE  (a + b) * c = a * c + b * c /\ (a - b) * c = a * c - b * c
  BY SMTT(30)

\* Rounding to four places moves a number by at most eleven twentieths of the
\* last one, and leaves it where it is if there is nothing to round.
LEMMA RoundNear ==
    ASSUME NEW n \in Int, NEW d \in Nat \ {0}, NEW r \in 0..(d - 1), NEW v \in round_dp(n, r, d)
    PROVE  /\ v \in Int
           /\ v \in {n, n + 1}
           /\ r = 0 => v = n
           /\ 20 * (v * d - (n * d + r)) \in -(11 * d)..(11 * d)
<1> DEFINE t == d \div 10
<1>1. t \in Int /\ 10 * t <= d /\ t >= 0
  OBVIOUS
<1>2. (v = n /\ 2 * r <= d + t) \/ (v = n + 1 /\ 2 * r >= d - t)
  BY DEF round_dp
<1> HIDE DEF t
<1>3. CASE v = n /\ 2 * r <= d + t
  <2>1. v * d - (n * d + r) = -r
    BY <1>3, SMTT(30)
  <2>2. QED
    BY <1>1, <1>3, <2>1
<1>4. CASE v = n + 1 /\ 2 * r >= d - t
  <2>1. (n + 1) * d = n * d + d
    BY SMTT(30)
  <2>2. v * d - (n * d + r) = d - r
    BY <1>4, <2>1
  <2>3. QED
    BY <1>1, <1>4, <2>2
<1>5. QED
  BY <1>2, <1>3, <1>4

\* There is always a result.
LEMMA RoundIs ==
    ASSUME NEW n \in Int, NEW d \in Nat \ {0}, NEW r \in 0..(d - 1)
    PROVE  round_dp(n, r, d) # {}
<1>1. d \div 10 \in Int /\ d \div 10 >= 0
  OBVIOUS
<1>2. 2 * r <= d + d \div 10 \/ 2 * r >= d - d \div 10
  BY <1>1
<1>3. QED
  BY <1>2 DEF round_dp

\* A value within the limit is a Decimal, with all of its places.
LEMMA KeptSame ==
    ASSUME NEW v \in Int, v <= DecimalMax
    PROVE  Kept(v) = {v}
<1>1. 1 \in Grains /\ v % 1 = 0 /\ v \div 1 = v
  BY DEF Grains
<1>2. IsDecimal(v)
  BY <1>1 DEF IsDecimal
<1>3. v = 1 * (v \div 1 + 0) /\ 0 \in 0..1
  BY <1>1
<1>4. v \in Enclosing(v)
  BY <1>1, <1>2, <1>3 DEF Enclosing
<1>5. \A w \in Enclosing(v) : w \in Int
  BY DEF Enclosing, Grains
<1>6. QED
  BY <1>4, <1>5 DEF Kept

\* What is kept is a Decimal, and if it is well within the limit then nothing
\* was lost: what is rounded down from beyond the limit stays near it.
LEMMA KeptIs ==
    ASSUME NEW v \in Int, NEW w \in Kept(v)
    PROVE  /\ w \in Int
           /\ IsDecimal(w)
           /\ FourPlaces(w) => w = v /\ v <= DecimalMax
<1>1. w \in Enclosing(v) /\ \A u \in Enclosing(v) : ~ (w < u /\ u <= v)
  BY DEF Kept
<1>2. PICK g \in Grains, up \in 0..1 : w = g * (v \div g + up)
  BY <1>1 DEF Enclosing
<1>3. IsDecimal(w)
  BY <1>1 DEF Enclosing
<1>4. w \in Int /\ w > v - 10000
  BY <1>2 DEF Grains
<1>5. CASE v <= DecimalMax
  BY <1>3, <1>4, <1>5, KeptSame
<1>6. CASE v > DecimalMax
  <2>1. ~ FourPlaces(w)
    <3>1. CASE v \div 10 <= DecimalMax
      <4> DEFINE u == 10 * (v \div 10 + 0)
      <4>1. u \in Int /\ u <= v /\ u > v - 10 /\ u % 10 = 0 /\ u \div 10 = v \div 10
        OBVIOUS
      <4>2. IsDecimal(u)
        BY <3>1, <4>1 DEF IsDecimal, Grains
      <4>3. u \in Enclosing(v)
        BY <4>2 DEF Enclosing, Grains
      <4> HIDE DEF u
      <4>4. QED
        BY <1>1, <1>4, <1>6, <4>1, <4>3, DecimalAssumption DEF FourPlaces
    <3>2. CASE v \div 10 > DecimalMax
      BY <1>4, <3>2, DecimalAssumption DEF FourPlaces
    <3>3. QED
      BY <3>1, <3>2, DecimalAssumption
  <2>2. QED
    BY <1>3, <1>4, <2>1
<1>7. QED
  BY <1>5, <1>6, DecimalAssumption

\* Dividing with remainder.
LEMMA Division ==
    ASSUME NEW a \in Int, NEW d \in Nat \ {0}
    PROVE  /\ a \div d \in Int
           /\ a % d \in 0..(d - 1)
           /\ a = (a \div d) * d + (a % d)
  OBVIOUS

\* One factor more keeps quotient and remainder in step with the dividend.
LEMMA ShiftIs ==
    ASSUME NEW d \in Nat \ {0}, NEW f \in Nat, NEW acc,
           acc.n \in Int, acc.r \in 0..(d - 1)
    PROVE  /\ Shift(acc, f, d).n \in Int
           /\ Shift(acc, f, d).r \in 0..(d - 1)
           /\ Shift(acc, f, d).n * d + Shift(acc, f, d).r = (acc.n * d + acc.r) * f
<1> DEFINE n == acc.n
           r == acc.r
           q == (r * f) \div d
           s == (r * f) % d
<1>0. n \in Int /\ r \in Int
  OBVIOUS
<1>1. q \in Int /\ s \in 0..(d - 1) /\ r * f = q * d + s
  <2>1. r * f \in Int
    BY <1>0
  <2>2. QED
    BY <2>1, Division
<1>2. Shift(acc, f, d).n = n * f + q /\ Shift(acc, f, d).r = s
  BY DEF Shift
<1> HIDE DEF n, r, q, s
<1>3. (n * f + q) * d + s = (n * d + r) * f
  <2>1. (n * f + q) * d = (n * d) * f + q * d
    BY <1>0, <1>1, SMTT(30)
  <2>2. (n * d + r) * f = (n * d) * f + r * f
    BY <1>0, SMTT(30)
  <2>3. (n * d) * f \in Int /\ q * d \in Int
    BY <1>0, <1>1
  <2>4. QED
    BY <1>1, <2>1, <2>2, <2>3
<1>4. n * f + q \in Int
  BY <1>0, <1>1
<1>5. (n * d + r) * f = (acc.n * d + acc.r) * f
  BY DEF n, r
<1>6. QED
  BY <1>1, <1>2, <1>3, <1>4, <1>5

\* One place further is ten times the dividend.
LEMMA NextPlaceIs ==
    ASSUME NEW d \in Nat \ {0}, NEW acc, acc.n \in Int, acc.r \in 0..(d - 1)
    PROVE  /\ NextPlace(acc, d).n \in Int
           /\ NextPlace(acc, d).r \in 0..(d - 1)
           /\ NextPlace(acc, d).n * d + NextPlace(acc, d).r = (acc.n * d + acc.r) * 10
<1> DEFINE half == Shift(acc, 2, d)
<1>1. /\ half.n \in Int /\ half.r \in 0..(d - 1)
      /\ half.n * d + half.r = (acc.n * d + acc.r) * 2
  BY ShiftIs
<1>2. NextPlace(acc, d) = Shift(half, 5, d)
  BY DEF NextPlace
<1> HIDE DEF half
<1>3. /\ Shift(half, 5, d).n \in Int /\ Shift(half, 5, d).r \in 0..(d - 1)
      /\ Shift(half, 5, d).n * d + Shift(half, 5, d).r = (half.n * d + half.r) * 5
  BY <1>1, ShiftIs
<1>4. acc.n * d + acc.r \in Int
  <2>1. acc.r \in Int
    OBVIOUS
  <2>2. QED
    BY <2>1
<1>5. QED
  BY <1>1, <1>2, <1>3, <1>4

\* The display conversion of an amount with its four places gives a result,
\* which is off by at most eleven twentieths of its last place.
LEMMA QuotientNear ==
    ASSUME NEW base \in Nat, FourPlaces(base), NEW d \in Nat, d >= One
    PROVE  /\ Quotient(base, d) # {}
           /\ \A s \in Quotient(base, d) :
                /\ s \in Int
                /\ 20 * (s * d - base * One) \in -(11 * d)..(11 * d)
<1> DEFINE p0 == [n |-> base \div d, r |-> base % d]
           p1 == NextPlace(p0, d)
           p2 == NextPlace(p1, d)
           p3 == NextPlace(p2, d)
           p4 == NextPlace(p3, d)
           p5 == NextPlace(p4, d)
           At(p) == p.n * d + p.r
           Sound(p) == p.n \in Int /\ p.r \in 0..(d - 1) /\ At(p) \in Int
<1> d \in Nat \ {0} /\ base \in Int
  BY DEF One
<1>0. ASSUME NEW p, p.n \in Int, p.r \in 0..(d - 1)
      PROVE  At(p) \in Int
  <2>1. p.r \in Int
    BY <1>0
  <2>2. QED
    BY <1>0, <2>1
<1>1. Sound(p0) /\ At(p0) = base
  <2>1. base \div d \in Int /\ base % d \in 0..(d - 1) /\ base = (base \div d) * d + (base % d)
    BY Division
  <2>2. p0.n = base \div d /\ p0.r = base % d
    OBVIOUS
  <2> HIDE DEF p0
  <2>3. QED
    BY <2>1, <2>2
<1>2. Quotient(base, d) = UNION {Kept(v) : v \in round_dp(p5.n, p5.r, d)}
  BY DEF Quotient
<1>3. ASSUME NEW p, Sound(p)
      PROVE  Sound(NextPlace(p, d)) /\ At(NextPlace(p, d)) = At(p) * 10
  BY <1>0, <1>3, NextPlaceIs
<1> HIDE DEF p0, p1, p2, p3, p4, p5, Sound, At
<1>4. Sound(p1) /\ At(p1) = At(p0) * 10
  BY <1>1, <1>3 DEF p1
<1>5. Sound(p2) /\ At(p2) = At(p1) * 10
  BY <1>4, <1>3 DEF p2
<1>6. Sound(p3) /\ At(p3) = At(p2) * 10
  BY <1>5, <1>3 DEF p3
<1>7. Sound(p4) /\ At(p4) = At(p3) * 10
  BY <1>6, <1>3 DEF p4
<1>8. Sound(p5) /\ At(p5) = At(p4) * 10
  BY <1>7, <1>3 DEF p5
<1>9. At(p5) = base * One
  BY <1>1, <1>4, <1>5, <1>6, <1>7, <1>8 DEF One
<1>10. p5.n \in Int /\ p5.r \in 0..(d - 1) /\ p5.n * d + p5.r = base * One
  BY <1>8, <1>9 DEF Sound, At
<1>11. p5.n <= base
  <2> DEFINE n == p5.n
  <2>0. n \in Int /\ p5.r \in Int /\ p5.r >= 0 /\ One \in Nat
    BY <1>10 DEF One
  <2>1. n * d <= base * One
    <3>1. n * d \in Int /\ base * One \in Int
      BY <2>0
    <3>2. QED
      BY <1>10, <2>0, <3>1
  <2> HIDE DEF n
  <2>2. base * One <= base * d
    BY <2>0, SMTT(30)
  <2>3. n * d <= base * d
    <3>1. n * d \in Int /\ base * One \in Int /\ base * d \in Int
      BY <2>0
    <3>2. QED
      BY <2>1, <2>2, <3>1
  <2>4. n >= base + 1 => n * d >= (base + 1) * d
    BY <2>0, SMTT(30)
  <2>5. (base + 1) * d = base * d + d /\ base * d \in Int /\ n * d \in Int
    BY <2>0, Distributes
  <2>6. QED
    BY <2>0, <2>3, <2>4, <2>5 DEF n
<1>12. ASSUME NEW v \in round_dp(p5.n, p5.r, d)
       PROVE  /\ Kept(v) = {v}
              /\ v \in Int
              /\ 20 * (v * d - base * One) \in -(11 * d)..(11 * d)
  <2>1. /\ v \in Int /\ v \in {p5.n, p5.n + 1}
        /\ 20 * (v * d - (p5.n * d + p5.r)) \in -(11 * d)..(11 * d)
    BY <1>10, RoundNear
  <2>2. v <= DecimalMax
    BY <1>10, <1>11, <2>1, DecimalAssumption DEF FourPlaces
  <2>3. QED
    BY <1>10, <2>1, <2>2, KeptSame
<1>13. round_dp(p5.n, p5.r, d) # {}
  BY <1>10, RoundIs
<1>14. QED
  BY <1>2, <1>12, <1>13

\* A value in the base unit is a Decimal; with its four places it is off by at
\* most eleven twentieths of the last one, and not at all if the multiplier has
\* no fraction.
LEMMA ConvertNear ==
    ASSUME NEW qty \in Int, NEW m \in Int, NEW v \in convert_to_base_val(qty, m)
    PROVE  /\ v \in Int
           /\ IsDecimal(v)
           /\ FourPlaces(v) =>
                /\ 20 * (v * One - qty * m) \in -(11 * One)..(11 * One)
                /\ m % One = 0 => v * One = qty * m
<1> DEFINE whole == qty * (m \div One)
           part  == qty * (m % One)
           k == part \div One
           r == part % One
<1>1. One \in Nat \ {0} /\ One \in Int
  BY DEF One
<1>2. m \div One \in Int /\ m % One \in 0..(One - 1) /\ m = (m \div One) * One + (m % One)
  BY <1>1, Division
<1>3. whole \in Int /\ part \in Int
  BY <1>1, <1>2
<1>4. qty * m = whole * One + part
  <2> DEFINE a == m \div One
             b == m % One
  <2>1. a \in Int /\ b \in Int /\ m = a * One + b
    BY <1>1, <1>2
  <2> HIDE DEF a, b
  <2>2. qty * (a * 100000 + b) = (qty * a) * 100000 + qty * b
    BY <2>1, SMTT(30)
  <2>3. QED
    BY <2>1, <2>2 DEF One, a, b
<1>5. k \in Int /\ r \in 0..(One - 1) /\ part = k * One + r
  BY <1>1, <1>3, Division
<1>6. PICK n \in round_dp(whole + k, r, One) : v \in Kept(n)
  BY DEF convert_to_base_val
<1>6a. m % One = 0 => r = 0
  <2>1. m % One = 0 => part = 0
    BY <1>1, <1>2
  <2>2. part = 0 => r = 0
    BY DEF One
  <2>3. QED
    BY <2>1, <2>2
<1> HIDE DEF whole, part, k, r
<1>7. /\ n \in Int
      /\ r = 0 => n = whole + k
      /\ 20 * (n * One - ((whole + k) * One + r)) \in -(11 * One)..(11 * One)
  <2>1. whole + k \in Int
    BY <1>3, <1>5
  <2>2. QED
    BY <1>1, <1>5, <1>6, <2>1, RoundNear
<1>7a. v \in Int /\ IsDecimal(v) /\ (FourPlaces(v) => v = n)
  BY <1>6, <1>7, KeptIs
<1>8. (whole + k) * One + r = qty * m
  <2>1. (whole + k) * One = whole * One + k * One
    BY <1>1, <1>3, <1>5, Distributes
  <2>2. whole * One \in Int /\ k * One \in Int /\ r \in Int
    BY <1>1, <1>3, <1>5
  <2>3. QED
    BY <1>3, <1>4, <1>5, <2>1, <2>2
<1>9. FourPlaces(v) => 20 * (v * One - qty * m) \in -(11 * One)..(11 * One)
  BY <1>7, <1>7a, <1>8
<1>10. FourPlaces(v) /\ m % One = 0 => v * One = qty * m
  <2>1. m % One = 0 => (whole + k) * One + 0 = qty * m
    BY <1>6a, <1>8
  <2>2. (whole + k) * One \in Int
    BY <1>1, <1>3, <1>5
  <2>3. QED
    BY <1>6a, <1>7, <1>7a, <2>1, <2>2
<1>11. QED
  BY <1>7a, <1>9, <1>10

\* In the base unit itself nothing is rounded.
LEMMA ConvertWhole ==
    ASSUME NEW qty \in Int, NEW v \in convert_to_base_val(qty, One), FourPlaces(qty)
    PROVE  v = qty
<1>1. One \div One = 1 /\ One % One = 0
  BY DEF One
<1>2. qty * 1 = qty /\ qty * 0 = 0 /\ 0 \div One = 0 /\ 0 % One = 0
  BY DEF One
<1>3. qty * 1 + (qty * 0) \div One = qty /\ (qty * 0) % One = 0
  BY <1>2
<1>4. PICK n \in round_dp(qty, 0, One) : v \in Kept(n)
  BY <1>1, <1>3 DEF convert_to_base_val
<1>5. n = qty
  BY <1>4, RoundNear DEF One
<1>6. qty <= DecimalMax
  BY DecimalAssumption DEF FourPlaces
<1>7. QED
  BY <1>4, <1>5, <1>6, KeptSame

\* A multiple of a positive number that is less than one of it is zero.
LEMMA LessThanOne ==
    ASSUME NEW x \in Int, NEW m \in Int, m > 0, 100 * (x * m) <= 99 * m, 100 * (x * m) >= -(99 * m)
    PROVE  x = 0
<1>1. ~ (x >= 1)
  <2>1. x >= 1 => x * m >= m
    BY SMTT(30)
  <2>2. QED
    BY <2>1
<1>2. ~ (x <= -1)
  <2>1. x <= -1 => x * m <= -m
    BY SMTT(30)
  <2>2. QED
    BY <2>1
<1>3. QED
  BY <1>1, <1>2

\* An amount q in the base unit is within what n roundings can add up to of a
\* total in the unit of multiplier m.
Near(q, total, n, m) ==
    /\ 20 * (q * One - total * m) \in -(11 * (n * One))..(11 * (n * One))
    /\ m % One = 0 => q * One = total * m

\* If the roundings are few for the unit, the amount shown is the total.
LEMMA ShowsTotal ==
    ASSUME NEW m \in Int, NEW q \in Int, NEW total \in Int, NEW s \in Int, NEW n \in Nat,
           m >= One, Near(q, total, n, m), RoundsAway(n, m),
           20 * (s * m - q * One) \in -(11 * m)..(11 * m)
    PROVE  s = total
<1> DEFINE x == s - total
           a == q * One - total * m
<1>1. One \in Int /\ One > 0 /\ m > 0
  BY DEF One
<1>2. /\ x \in Int /\ x * m = s * m - total * m
      /\ s * m \in Int /\ total * m \in Int /\ q * One \in Int /\ n * One \in Int
  BY <1>1, Distributes
<1>3. a \in Int /\ x * m = (s * m - q * One) + a
  BY <1>2
<1>4. 100 * a <= 44 * m /\ 100 * a >= -(44 * m)
  <2>1. CASE m % One = 0
    <3>1. a = 0
      BY <1>2, <2>1 DEF Near
    <3>2. QED
      BY <1>1, <3>1
  <2>2. CASE 5 * n <= 4 * (m \div One)
    <3>1. 5 * (n * One) <= 4 * m
      BY <2>2 DEF One
    <3>2. 20 * a <= 11 * (n * One) /\ 20 * a >= -(11 * (n * One))
      BY <1>2 DEF Near
    <3> HIDE DEF a
    <3>3. QED
      BY <1>2, <1>3, <3>1, <3>2
  <2>3. QED
    BY <2>1, <2>2 DEF RoundsAway
<1> HIDE DEF x, a
<1>5. 100 * (x * m) <= 99 * m /\ 100 * (x * m) >= -(99 * m)
  BY <1>2, <1>3, <1>4
<1>6. x = 0
  BY <1>1, <1>2, <1>5, LessThanOne
<1>7. QED
  BY <1>6 DEF x

\* One more conversion adds one more rounding.
LEMMA OneMore ==
    ASSUME NEW m \in Int, NEW q \in Int, NEW total \in Int, NEW n \in Nat,
           NEW c \in Int, NEW given \in Int,
           Near(q, total, n, m), Near(c, given, 1, m)
    PROVE  Near(q + c, total + given, n + 1, m) /\ Near(q - c, total - given, n + 1, m)
<1>1. One \in Int
  BY DEF One
<1>2. /\ (q + c) * One = q * One + c * One /\ (q - c) * One = q * One - c * One
      /\ (total + given) * m = total * m + given * m
      /\ (total - given) * m = total * m - given * m
      /\ (n + 1) * One = n * One + 1 * One
  BY <1>1, Distributes
<1>3. /\ q * One \in Int /\ c * One \in Int /\ total * m \in Int /\ given * m \in Int
      /\ n * One \in Int /\ 1 * One \in Int
  BY <1>1
<1>4. /\ 20 * (q * One - total * m) \in -(11 * (n * One))..(11 * (n * One))
      /\ 20 * (c * One - given * m) \in -(11 * (1 * One))..(11 * (1 * One))
      /\ m % One = 0 => q * One = total * m /\ c * One = given * m
  BY DEF Near
<1>5. /\ 20 * ((q + c) * One - (total + given) * m)
            \in -(11 * ((n + 1) * One))..(11 * ((n + 1) * One))
      /\ m % One = 0 => (q + c) * One = (total + given) * m
  BY <1>2, <1>3, <1>4
<1>6. /\ 20 * ((q - c) * One - (total - given) * m)
            \in -(11 * ((n + 1) * One))..(11 * ((n + 1) * One))
      /\ m % One = 0 => (q - c) * One = (total - given) * m
  BY <1>2, <1>3, <1>4
<1>7. QED
  BY <1>5, <1>6 DEF Near

-----------------------------------------------------------------------------
(* The registry *)

\* Every unit has a dimension and is no smaller than the base unit of it, and
\* the base units are units.
LEMMA RegistryIs ==
    /\ \A u \in DOMAIN Registry :
        /\ Registry[u].dimension \in DOMAIN base_unit
        /\ Registry[u].multiplier \in Int /\ Registry[u].multiplier >= One
    /\ \A d \in DOMAIN base_unit :
        /\ base_unit[d] \in DOMAIN Registry
        /\ Registry[base_unit[d]].dimension = d
        /\ Registry[base_unit[d]].multiplier = One
<1>1. ASSUME NEW u \in DOMAIN Registry
      PROVE  /\ Registry[u].dimension \in DOMAIN base_unit
             /\ Registry[u].multiplier \in Int /\ Registry[u].multiplier >= One
  BY DEF Registry, base_unit, Entry, Contextual, One
<1>2. ASSUME NEW d \in DOMAIN base_unit
      PROVE  /\ base_unit[d] \in DOMAIN Registry
             /\ Registry[base_unit[d]].dimension = d
             /\ Registry[base_unit[d]].multiplier = One
  BY DEF Registry, base_unit, Entry, Contextual
<1>3. QED
  BY <1>1, <1>2

\* Only anomalous items are kept in the unit misc.
LEMMA MiscIsAnomalous ==
    ASSUME NEW d \in DOMAIN base_unit
    PROVE  base_unit[d] = "misc" <=> d = "Anomalous"
  BY DEF base_unit

\* What is converted is in the dimension of its unit, and a Decimal.
LEMMA ConvertedIs ==
    ASSUME NEW qty \in Int, NEW u, NEW m \in Int,
           NEW b \in parse_and_convert_with_multiplier(qty, u, m)
    PROVE  /\ u \in DOMAIN Registry
           /\ b.dimension = Registry[u].dimension
           /\ b.value \in convert_to_base_val(qty, m)
           /\ b.value \in Int /\ IsDecimal(b.value)
<1>1. u \in DOMAIN Registry /\ resolve_symbol(u) = {Registry[u]}
  BY DEF parse_and_convert_with_multiplier, resolve_symbol
<1>2. PICK v \in convert_to_base_val(qty, m) : b = [value |-> v, dimension |-> Registry[u].dimension]
  BY <1>1 DEF parse_and_convert_with_multiplier
<1>3. v \in Int /\ IsDecimal(v)
  BY ConvertNear
<1>4. QED
  BY <1>1, <1>2, <1>3

\* A unit's own multiplier is the registry's.
LEMMA ConvertedByRegistry ==
    ASSUME NEW qty, NEW u, NEW b \in parse_and_convert(qty, u)
    PROVE  /\ u \in DOMAIN Registry
           /\ b \in parse_and_convert_with_multiplier(qty, u, Registry[u].multiplier)
<1>1. u \in DOMAIN Registry /\ resolve_symbol(u) = {Registry[u]}
  BY DEF parse_and_convert, resolve_symbol
<1>2. QED
  BY <1>1 DEF parse_and_convert

-----------------------------------------------------------------------------
(* The inductive invariant *)

Operations == {"Add", "Subtract", "Set", "Delete"}

\* What is being evaluated went through the scrubber.
IntentInv ==
    /\ stage \in {"idle", "evaluating"}
    /\ attempt \in 0..veto_max_retries
    /\ stage = "evaluating" => intent.quantity \in Nat /\ intent.operation \in Operations

\* An item is kept in the base unit of the unit it was last given in, and an
\* item in an anomalous unit has that unit in its key.
ItemInv(k, item) ==
    /\ slugify(k) = k
    /\ item.quantity \in Nat /\ IsDecimal(item.quantity)
    /\ item.display_unit \in DOMAIN Registry
    /\ item.unit = base_unit[Registry[item.display_unit].dimension]
    /\ splits_identity(k, item.display_unit)

\* An item that is tracked holds, with four places and up to a rounding for
\* each command, what was typed for it.
TotalInv(item, t) ==
    t.tracked =>
        /\ t.total \in Int /\ t.times \in Nat
        /\ FourPlaces(item.quantity)
        /\ ~ Registry[item.display_unit].is_contextual
        /\ Near(item.quantity, t.total, t.times, Registry[item.display_unit].multiplier)

\* The inductive invariant.
PolicyInv ==
    /\ IntentInv
    /\ DOMAIN typed = DOMAIN inventory
    /\ \A k \in DOMAIN inventory :
        ItemInv(k, inventory[k]) /\ TotalInv(inventory[k], typed[k])

\* A response of the oracle names a unit of the registry, with numbers for
\* multipliers, and a key that ends with an anomalous unit.
LEMMA ResponseIs ==
    ASSUME NEW a, NEW o \in evaluate_proposal(a)
    PROVE  /\ o.unit \in DOMAIN Registry
           /\ o.multipliers \in SUBSET Int
           /\ splits_identity(o.key, o.unit)
<1>1. /\ validate_semantic_integrity(a)
      /\ o = [is_approved |-> a.is_approved, category |-> a.category, key |-> a.key,
              unit |-> a.unit,
              multipliers |-> IF a.custom_multiplier = "" THEN {Registry[a.unit].multiplier}
                              ELSE {10 * n : n \in parsed(a.custom_multiplier)}]
  BY DEF evaluate_proposal
<1>2. a.unit \in DOMAIN Registry /\ splits_identity(a.key, a.unit)
  BY <1>1 DEF validate_semantic_integrity, resolve_symbol
<1>3. Registry[a.unit].multiplier \in Int
  BY <1>2, RegistryIs
<1>4. \A n \in parsed(a.custom_multiplier) : n \in Int
  BY NumberAssumption DEF parsed
<1>5. \A n \in parsed(a.custom_multiplier) : 10 * n \in Int
  BY <1>4
<1>6. o.multipliers \in SUBSET Int
  BY <1>1, <1>3, <1>5
<1>7. QED
  BY <1>1, <1>2, <1>6

\* What passes the unit stabilization is positive, a Decimal and in the
\* dimension of its unit; in a unit that is not contextual it is the registry
\* that converts.
LEMMA StabilizedUnit ==
    ASSUME NEW qty \in Int, NEW o, o.multipliers \in SUBSET Int,
           NEW b \in verify_unit_stabilization(qty, o)
    PROVE  /\ o.unit \in DOMAIN Registry
           /\ b.value \in Nat \ {0} /\ IsDecimal(b.value)
           /\ b.dimension = Registry[o.unit].dimension
           /\ ~ Registry[o.unit].is_contextual =>
                b.value \in convert_to_base_val(qty, Registry[o.unit].multiplier)
<1>1. b.value > 0
  BY DEF verify_unit_stabilization
<1>2. CASE oracle_decides(Registry[o.unit])
  <2>1. PICK m \in o.multipliers : b \in parse_and_convert_with_multiplier(qty, o.unit, m)
    BY <1>2 DEF verify_unit_stabilization
  <2>2. QED
    BY <1>1, <1>2, <2>1, ConvertedIs, DecimalAssumption DEF oracle_decides
<1>3. CASE ~ oracle_decides(Registry[o.unit])
  <2>1. b \in parse_and_convert(qty, o.unit)
    BY <1>3 DEF verify_unit_stabilization
  <2>2. /\ o.unit \in DOMAIN Registry
        /\ b \in parse_and_convert_with_multiplier(qty, o.unit, Registry[o.unit].multiplier)
    BY <2>1, ConvertedByRegistry
  <2>3. QED
    BY <1>1, <2>2, ConvertedIs, RegistryIs, DecimalAssumption
<1>4. QED
  BY <1>2, <1>3

\* What accumulation makes of a stabilized quantity: the quantity itself, or,
\* as long as both amounts have their four places, the sum or difference with
\* what the item holds.
Accumulated(op, key, b, r) ==
    IF Accumulates(op) /\ key \in DOMAIN inventory
    THEN FourPlaces(inventory[key].quantity) /\ FourPlaces(r.value) =>
            /\ FourPlaces(b.value)
            /\ r.value = IF op = "Add" THEN inventory[key].quantity + b.value
                         ELSE inventory[key].quantity - b.value
    ELSE r = b

\* Conversion does not change what is in the base unit already.
LEMMA AccumulationIs ==
    ASSUME PolicyInv, NEW op, NEW key, NEW b, b.value \in Nat \ {0}, IsDecimal(b.value),
           enforce_physical_invariants(op, key, b),
           NEW r \in apply_arithmetic_accumulation(op, key, b)
    PROVE  /\ Accumulated(op, key, b, r)
           /\ r.value \in Nat /\ IsDecimal(r.value)
           /\ r.dimension = b.dimension
<1>1. CASE ~ (Accumulates(op) /\ key \in DOMAIN inventory)
  <2>1. r = b
    BY <1>1 DEF apply_arithmetic_accumulation
  <2>2. QED
    BY <1>1, <2>1 DEF Accumulated
<1>2. CASE Accumulates(op) /\ key \in DOMAIN inventory
  <2> DEFINE item == inventory[key]
  <2>1. ItemInv(key, item)
    BY <1>2 DEF PolicyInv
  <2>2. /\ item.quantity \in Nat
        /\ item.unit \in DOMAIN Registry
        /\ Registry[item.unit].multiplier = One
    BY <2>1, RegistryIs DEF ItemInv
  <2>3. Registry[item.unit].dimension = b.dimension
    BY <1>2 DEF enforce_physical_invariants
  <2>4. PICK e \in parse_and_convert(item.quantity, item.unit) :
            r \in IF op = "Add" THEN add(e, b) ELSE sub(e, b)
    BY <1>2 DEF apply_arithmetic_accumulation
  <2>5. r.value >= 0
    BY <1>2 DEF apply_arithmetic_accumulation, not_negative
  <2>6. e \in parse_and_convert_with_multiplier(item.quantity, item.unit, One)
    BY <2>2, ConvertedByRegistry
  <2>7. item.quantity \in Int /\ One \in Int
    BY <2>2 DEF One
  <2>8. /\ e.dimension = Registry[item.unit].dimension
        /\ e.value \in convert_to_base_val(item.quantity, One) /\ e.value \in Int
    BY <2>6, <2>7, ConvertedIs
  <2>9. FourPlaces(item.quantity) => e.value = item.quantity
    BY <2>7, <2>8, ConvertWhole
  <2>10. e = [value |-> e.value, dimension |-> e.dimension]
    BY <2>6 DEF parse_and_convert_with_multiplier
  <2>11. PICK v \in Kept(IF op = "Add" THEN e.value + b.value ELSE e.value - b.value) :
            r = [e EXCEPT !.value = v]
    BY <2>3, <2>4, <2>8 DEF add, sub
  <2>12. r.value = v /\ r.dimension = e.dimension
    BY <2>10, <2>11
  <2>13. e.value + b.value \in Int /\ e.value - b.value \in Int
    BY <2>8
  <2>14. /\ v \in Int /\ IsDecimal(v)
         /\ FourPlaces(v) => v = IF op = "Add" THEN e.value + b.value ELSE e.value - b.value
    <3>1. CASE op = "Add"
      BY <2>11, <2>13, <3>1, KeptIs
    <3>2. CASE op # "Add"
      BY <2>11, <2>13, <3>2, KeptIs
    <3>3. QED
      BY <3>1, <3>2
  <2>15. Accumulated(op, key, b, r)
    <3>1. SUFFICES ASSUME FourPlaces(item.quantity), FourPlaces(v)
                   PROVE  /\ FourPlaces(b.value)
                          /\ v = IF op = "Add" THEN item.quantity + b.value
                                 ELSE item.quantity - b.value
      BY <1>2, <2>12 DEF Accumulated
    <3>2. v = IF op = "Add" THEN item.quantity + b.value ELSE item.quantity - b.value
      BY <2>9, <2>14, <3>1
    <3>3. FourPlaces(b.value)
      BY <2>2, <2>5, <2>12, <2>14, <3>1, <3>2, DecimalAssumption DEF FourPlaces
    <3>4. QED
      BY <3>2, <3>3
  <2>16. QED
    BY <2>3, <2>5, <2>8, <2>12, <2>14, <2>15
<1>3. QED
  BY <1>1, <1>2

\* What the stabilizer lets through for a command other than a deletion.
LEMMA StabilizedIs ==
    ASSUME PolicyInv, stage = "evaluating", intent.operation # "Delete",
           NEW a, NEW o \in evaluate_proposal(a), NEW r \in validate_and_stabilize(intent, o)
    PROVE  \E b \in verify_unit_stabilization(intent.quantity, o) :
             /\ slugify(o.key) = o.key
             /\ r.value \in Nat /\ IsDecimal(r.value)
             /\ r.dimension = Registry[o.unit].dimension
             /\ Accumulated(intent.operation, o.key, b, r)
             /\ Accumulates(intent.operation) /\ o.key \in DOMAIN inventory =>
                    Registry[inventory[o.key].unit].dimension = Registry[o.unit].dimension
<1>1. slugify(o.key) = o.key
  BY DEF validate_and_stabilize
<1>2. PICK b \in verify_unit_stabilization(intent.quantity, o) :
        /\ enforce_physical_invariants(intent.operation, o.key, b)
        /\ r \in apply_arithmetic_accumulation(intent.operation, o.key, b)
  BY DEF validate_and_stabilize
<1>3. intent.quantity \in Int
  BY DEF PolicyInv, IntentInv
<1>4. /\ b.value \in Nat \ {0} /\ IsDecimal(b.value)
      /\ b.dimension = Registry[o.unit].dimension
  BY <1>2, <1>3, ResponseIs, StabilizedUnit
<1>5. /\ Accumulated(intent.operation, o.key, b, r)
      /\ r.value \in Nat /\ IsDecimal(r.value)
      /\ r.dimension = b.dimension
  BY <1>2, <1>4, AccumulationIs
<1>6. Accumulates(intent.operation) /\ o.key \in DOMAIN inventory =>
            Registry[inventory[o.key].unit].dimension = b.dimension
  BY <1>2 DEF enforce_physical_invariants
<1>7. QED
  BY <1>1, <1>2, <1>4, <1>5, <1>6

\* Committing keeps every item well formed.
LEMMA AppliedKeeps ==
    ASSUME PolicyInv, stage = "evaluating",
           NEW a, NEW o \in evaluate_proposal(a), NEW r \in validate_and_stabilize(intent, o),
           NEW k \in DOMAIN Applied("Committed", intent, o.key, r, o.unit)
    PROVE  ItemInv(k, Applied("Committed", intent, o.key, r, o.unit)[k])
<1>1. CASE intent.operation = "Delete"
  BY <1>1 DEF Applied, carried_out, PolicyInv
<1>2. CASE intent.operation # "Delete" /\ k # o.key
  BY <1>2 DEF Applied, carried_out, PolicyInv
<1>3. CASE intent.operation # "Delete" /\ k = o.key
  <2>1. Applied("Committed", intent, o.key, r, o.unit)[k] =
            [quantity |-> r.value, unit |-> base_unit[r.dimension], display_unit |-> o.unit]
    BY <1>3 DEF Applied, carried_out
  <2>2. /\ slugify(o.key) = o.key
        /\ r.value \in Nat /\ IsDecimal(r.value)
        /\ r.dimension = Registry[o.unit].dimension
    BY <1>3, StabilizedIs
  <2>3. o.unit \in DOMAIN Registry /\ splits_identity(o.key, o.unit)
    BY ResponseIs
  <2>4. QED
    BY <1>3, <2>1, <2>2, <2>3 DEF ItemInv
<1>4. QED
  BY <1>1, <1>2, <1>3

\* The items that are counted are the items that are there.
LEMMA CountedIs ==
    ASSUME PolicyInv, NEW o, NEW r
    PROVE  DOMAIN Counted(intent, o, r) = DOMAIN Applied("Committed", intent, o.key, r, o.unit)
  BY DEF Counted, Applied, carried_out, PolicyInv

\* Committing keeps what an item holds near what was typed for it.
LEMMA CountedKeeps ==
    ASSUME PolicyInv, stage = "evaluating",
           NEW a, NEW o \in evaluate_proposal(a), NEW r \in validate_and_stabilize(intent, o),
           NEW k \in DOMAIN Applied("Committed", intent, o.key, r, o.unit)
    PROVE  TotalInv(Applied("Committed", intent, o.key, r, o.unit)[k], Counted(intent, o, r)[k])
<1> DEFINE item == Applied("Committed", intent, o.key, r, o.unit)[k]
           t == Counted(intent, o, r)[k]
           m == Registry[o.unit].multiplier
           given == intent.quantity
           adds == Accumulates(intent.operation) /\ o.key \in DOMAIN inventory
           old == IF adds THEN typed[o.key]
                  ELSE [tracked |-> intent.operation # "Subtract", total |-> 0, times |-> 0]
           sign == IF intent.operation = "Subtract" THEN -1 ELSE 1
<1>1. CASE intent.operation = "Delete" \/ k # o.key
  <2>1. k \in DOMAIN inventory /\ item = inventory[k] /\ t = typed[k]
    BY <1>1 DEF Applied, carried_out, Counted, PolicyInv
  <2>2. QED
    BY <2>1 DEF PolicyInv
<1>2. CASE intent.operation # "Delete" /\ k = o.key
  <2>1. item = [quantity |-> r.value, unit |-> base_unit[r.dimension], display_unit |-> o.unit]
    BY <1>2 DEF Applied, carried_out
  <2>2. t = IF /\ old.tracked
               /\ adds => inventory[o.key].display_unit = o.unit
               /\ ~ Registry[o.unit].is_contextual
               /\ FourPlaces(r.value)
            THEN [tracked |-> TRUE, total |-> old.total + sign * given, times |-> old.times + 1]
            ELSE Untracked
    BY <1>2 DEF Counted
  <2>3. CASE ~ /\ old.tracked
               /\ adds => inventory[o.key].display_unit = o.unit
               /\ ~ Registry[o.unit].is_contextual
               /\ FourPlaces(r.value)
    BY <2>2, <2>3 DEF TotalInv, Untracked
  <2>4. CASE /\ old.tracked
             /\ adds => inventory[o.key].display_unit = o.unit
             /\ ~ Registry[o.unit].is_contextual
             /\ FourPlaces(r.value)
    <3>1. PICK c \in verify_unit_stabilization(given, o) :
            r.value \in Nat /\ Accumulated(intent.operation, o.key, c, r)
      BY <1>2, StabilizedIs
    <3>2. o.unit \in DOMAIN Registry /\ o.multipliers \in SUBSET Int /\ m \in Int /\ m >= One
      BY ResponseIs, RegistryIs
    <3>3. given \in Int
      BY DEF PolicyInv, IntentInv
    <3>4. c.value \in Int /\ c.value \in convert_to_base_val(given, m)
      BY <2>4, <3>1, <3>2, <3>3, StabilizedUnit
    <3>5. FourPlaces(c.value) => Near(c.value, given, 1, m)
      <4>1. FourPlaces(c.value) =>
                /\ 20 * (c.value * One - given * m) \in -(11 * One)..(11 * One)
                /\ m % One = 0 => c.value * One = given * m
        BY <3>2, <3>3, <3>4, ConvertNear
      <4>2. 1 * One = One
        BY DEF One
      <4>3. QED
        BY <4>1, <4>2 DEF Near
    <3>6. t = [tracked |-> TRUE, total |-> old.total + sign * given, times |-> old.times + 1]
      BY <2>2, <2>4
    <3>7. SUFFICES /\ old.total + sign * given \in Int /\ old.times + 1 \in Nat
                   /\ Near(r.value, old.total + sign * given, old.times + 1, m)
      BY <2>1, <2>4, <3>6 DEF TotalInv
    <3>8. CASE ~ adds
      <4>1. r = c /\ old.total = 0 /\ old.times = 0 /\ sign = 1
        BY <2>4, <3>1, <3>8 DEF Accumulated
      <4>2. 0 + 1 * given = given /\ 0 + 1 = 1
        BY <3>3
      <4>3. old.total + sign * given = given /\ old.times + 1 = 1
        BY <4>1, <4>2
      <4>4. QED
        BY <2>4, <3>3, <3>5, <4>1, <4>3
    <3>9. CASE adds
      <4>1. /\ TotalInv(inventory[o.key], old) /\ inventory[o.key].quantity \in Int
            /\ inventory[o.key].display_unit = o.unit
        BY <2>4, <3>9 DEF PolicyInv, ItemInv
      <4> DEFINE held == inventory[o.key].quantity
      <4>2. /\ old.total \in Int /\ old.times \in Nat /\ FourPlaces(held)
            /\ Near(held, old.total, old.times, m)
        BY <2>4, <4>1 DEF TotalInv
      <4>3. /\ FourPlaces(c.value)
            /\ r.value = IF intent.operation = "Add" THEN held + c.value ELSE held - c.value
        BY <2>4, <3>1, <3>9, <4>2 DEF Accumulated
      <4>4. Near(c.value, given, 1, m)
        BY <3>5, <4>3
      <4> HIDE DEF held, m, given, old
      <4>5. /\ Near(held + c.value, old.total + given, old.times + 1, m)
            /\ Near(held - c.value, old.total - given, old.times + 1, m)
        <5>1. held \in Int
          BY <4>1 DEF held
        <5>2. QED
          BY <3>2, <3>3, <3>4, <4>2, <4>4, <5>1, OneMore
      <4>6. CASE intent.operation = "Add"
        <5>1. sign = 1 /\ old.total + sign * given = old.total + given
          BY <3>3, <4>2, <4>6
        <5>2. QED
          BY <3>3, <4>2, <4>3, <4>5, <4>6, <5>1
      <4>7. CASE intent.operation = "Subtract"
        <5>1. sign = -1 /\ old.total + sign * given = old.total - given
          BY <3>3, <3>9, <4>2, <4>7
        <5>2. QED
          BY <3>3, <4>2, <4>3, <4>5, <4>7, <5>1
      <4>8. QED
        BY <3>9, <4>6, <4>7 DEF Accumulates
    <3>10. QED
      BY <3>8, <3>9
  <2>5. QED
    BY <2>3, <2>4
<1>3. QED
  BY <1>1, <1>2

\* A number that parses and is not negative is natural.
LEMMA ParsedIs ==
    ASSUME NEW t, NEW q \in parsed(t), q >= 0
    PROVE  Number[t] \in Nat
<1>1. t \in DOMAIN Number /\ q = Number[t]
  BY DEF parsed
<1>2. QED
  BY <1>1, NumberAssumption

\* The arguments of a command do not change what it does.
LEMMA ArgsOperation ==
    ASSUME NEW args, NEW op, NEW i \in MutationArgs(args, op)
    PROVE  i.operation = op
<1>1. \E x, y, c : i = [operation |-> op, item_key |-> x, quantity |-> y, category |-> c]
  BY Zenon DEF MutationArgs
<1>2. QED
  BY <1>1

\* The scrubber passes on what is typed as a natural number.
LEMMA ScrubbedIs ==
    ASSUME NEW line, NEW i \in parse(line), NEW j \in normalize_intent(i)
    PROVE  j.quantity \in Nat /\ j.operation \in Operations
<1>1. i.operation \in Operations
  <2>1. CASE line.cmd \in DOMAIN Operation
    <3>1. i \in MutationArgs(line.args, Operation[line.cmd])
      BY <2>1 DEF parse, Operation
    <3>2. i.operation = Operation[line.cmd]
      BY <3>1, ArgsOperation
    <3>3. QED
      BY <2>1, <3>2 DEF Operation, Operations
  <2>2. CASE line.cmd \notin DOMAIN Operation
    <3>1. i = [operation |-> "Delete", item_key |-> line.args[1], quantity |-> "",
               category |-> ""]
      BY <2>2 DEF parse
    <3>2. QED
      BY <3>1 DEF Operations
  <2>3. QED
    BY <2>1, <2>2
<1>2. /\ i.quantity # "" => \E q \in parsed(i.quantity) : q >= 0
      /\ j = [operation |-> i.operation, item_key |-> to_lowercase(i.item_key),
              quantity |-> IF i.quantity = "" THEN 0 ELSE Number[i.quantity]]
  BY DEF normalize_intent
<1>3. i.quantity # "" => Number[i.quantity] \in Nat
  BY <1>2, ParsedIs
<1>4. QED
  BY <1>1, <1>2, <1>3

-----------------------------------------------------------------------------
(* The steps *)

\* What a step does to the inventory: nothing, or what a committed command
\* does that was being evaluated.
Commits ==
    \E a \in Answers : \E o \in evaluate_proposal(a) :
        \E r \in validate_and_stabilize(intent, o) :
            /\ stage = "evaluating"
            /\ inventory' = Applied("Committed", intent, o.key, r, o.unit)
            /\ typed' = Counted(intent, o, r)
            /\ verdict' = Verdict("Committed", intent.operation)

\* A step that commits nothing leaves the inventory alone: the entry of a veto
\* is not carried out.
LEMMA StepsCommit ==
    ASSUME [Next]_vars
    PROVE  Commits \/ (inventory' = inventory /\ typed' = typed)
<1>1. ASSUME NEW line \in Lines, execute_command(line)
      PROVE  inventory' = inventory /\ typed' = typed
  BY <1>1 DEF execute_command
<1>2. CASE evaluate_policy_fails
  BY <1>2 DEF evaluate_policy_fails, Retry
<1>3. ASSUME NEW a \in Answers, resolve_semantic_mutation(a)
      PROVE  Commits \/ (inventory' = inventory /\ typed' = typed)
  <2>1. PICK o \in evaluate_proposal(a) :
            LET stabilized == IF o.is_approved THEN validate_and_stabilize(intent, o) ELSE {}
            IN  \/ /\ o.is_approved /\ stabilized = {}
                   /\ Retry
                \/ /\ stabilized = {}
                   /\ o.is_approved => attempt = veto_max_retries
                   /\ inventory' = Applied("Vetoed", intent, o.key, Nothing, "units")
                   /\ Finish(Verdict("Vetoed", intent.operation))
                   /\ UNCHANGED <<requests, typed>>
                \/ \E b \in stabilized :
                   /\ inventory' = Applied("Committed", intent, o.key, b, o.unit)
                   /\ typed' = Counted(intent, o, b)
                   /\ Finish(Verdict("Committed", intent.operation))
                   /\ UNCHANGED requests
    BY <1>3 DEF resolve_semantic_mutation
  <2> DEFINE stabilized == IF o.is_approved THEN validate_and_stabilize(intent, o) ELSE {}
  <2>2. stage = "evaluating"
    BY <1>3 DEF resolve_semantic_mutation
  <2>3. CASE Retry
    BY <2>3 DEF Retry
  <2>4. CASE inventory' = Applied("Vetoed", intent, o.key, Nothing, "units") /\ typed' = typed
    BY <2>4 DEF Applied, carried_out
  <2>5. ASSUME NEW b \in stabilized,
               inventory' = Applied("Committed", intent, o.key, b, o.unit),
               typed' = Counted(intent, o, b),
               Finish(Verdict("Committed", intent.operation))
        PROVE  Commits
    <3>1. b \in validate_and_stabilize(intent, o)
      OBVIOUS
    <3>2. verdict' = Verdict("Committed", intent.operation)
      BY <2>5 DEF Finish
    <3>3. QED
      BY <1>3, <2>2, <2>5, <3>1, <3>2 DEF Commits
  <2>6. QED
    BY <2>1, <2>3, <2>4, <2>5
<1>4. CASE UNCHANGED vars
  BY <1>4 DEF vars
<1>5. QED
  BY <1>1, <1>2, <1>3, <1>4 DEF Next

\* A step starts an evaluation of what the scrubber passed on, goes on with
\* one, or ends it.
LEMMA IntentKept ==
    ASSUME IntentInv, [Next]_vars
    PROVE  IntentInv'
<1>0. 0 \in 0..veto_max_retries
  BY RetriesAssumption
<1>1. ASSUME NEW line \in Lines, execute_command(line)
      PROVE  IntentInv'
  <2>1. PICK i \in parse(line) :
            IF normalize_intent(i) = {}
            THEN Finish(Verdict("Refused", i.operation))
            ELSE /\ intent' \in normalize_intent(i)
                 /\ stage' = "evaluating"
                 /\ UNCHANGED <<attempt, verdict>>
    BY <1>1 DEF execute_command
  <2>2. CASE stage' = "idle" /\ attempt' = 0
    BY <1>0, <2>2 DEF IntentInv
  <2>3. CASE intent' \in normalize_intent(i) /\ stage' = "evaluating" /\ attempt' = attempt
    <3>1. intent'.quantity \in Nat /\ intent'.operation \in Operations
      BY <2>3, ScrubbedIs
    <3>2. QED
      BY <2>3, <3>1 DEF IntentInv
  <2>4. QED
    BY <2>1, <2>2, <2>3 DEF Finish
<1>2. ASSUME Retry
      PROVE  IntentInv'
  BY <1>2, RetriesAssumption DEF Retry, IntentInv
<1>3. ASSUME NEW v, Finish(v)
      PROVE  IntentInv'
  BY <1>0, <1>3 DEF Finish, IntentInv
<1>4. CASE evaluate_policy_fails
  BY <1>2, <1>3, <1>4 DEF evaluate_policy_fails
<1>5. ASSUME NEW a \in Answers, resolve_semantic_mutation(a)
      PROVE  IntentInv'
  BY <1>2, <1>3, <1>5 DEF resolve_semantic_mutation
<1>6. CASE UNCHANGED vars
  BY <1>6 DEF vars, IntentInv
<1>7. QED
  BY <1>1, <1>4, <1>5, <1>6 DEF Next

\* Every step keeps the inductive invariant.
LEMMA PolicyKept ==
    ASSUME PolicyInv, [Next]_vars
    PROVE  PolicyInv'
<1>1. IntentInv'
  BY IntentKept DEF PolicyInv
<1>2. CASE Commits
  <2> DEFINE Done(o, r) == /\ stage = "evaluating"
                          /\ inventory' = Applied("Committed", intent, o.key, r, o.unit)
                          /\ typed' = Counted(intent, o, r)
  <2>0. PICK a \in Answers : \E o \in evaluate_proposal(a) :
            \E r \in validate_and_stabilize(intent, o) : Done(o, r)
    BY <1>2 DEF Commits
  <2>1. PICK o \in evaluate_proposal(a) : \E r \in validate_and_stabilize(intent, o) : Done(o, r)
    BY <2>0
  <2>2. PICK r \in validate_and_stabilize(intent, o) : Done(o, r)
    BY <2>1
  <2>3. DOMAIN typed' = DOMAIN inventory'
    BY <2>2, CountedIs
  <2>4. ASSUME NEW k \in DOMAIN inventory'
        PROVE  ItemInv(k, inventory'[k]) /\ TotalInv(inventory'[k], typed'[k])
    BY <2>1, <2>2, AppliedKeeps, CountedKeeps
  <2>5. QED
    BY <1>1, <2>3, <2>4 DEF PolicyInv
<1>3. CASE inventory' = inventory /\ typed' = typed
  BY <1>1, <1>3 DEF PolicyInv
<1>4. QED
  BY <1>2, <1>3, StepsCommit

\* The inductive invariant holds throughout: every item is an amount in the base
\* unit of its display unit, near what was typed for it, under a key that tells
\* anomalous units apart.
THEOREM PolicyInvariant == Spec => []PolicyInv
<1>1. Init => PolicyInv
  BY RetriesAssumption DEF Init, PolicyInv, IntentInv
<1>2. PolicyInv /\ [Next]_vars => PolicyInv'
  BY PolicyKept
<1>3. QED
  BY <1>1, <1>2, PTL DEF Spec

\* Whatever is typed and whatever the language model answers, the inventory
\* holds non-negative decimal amounts in base units under canonical keys.
THEOREM InventoryIsWellFormed == Spec => []TypeOK
<1>1. PolicyInv => TypeOK
  <2>1. ASSUME PolicyInv, NEW k \in DOMAIN inventory
        PROVE  /\ slugify(k) = k
               /\ inventory[k].quantity >= 0 /\ IsDecimal(inventory[k].quantity)
               /\ \E d \in DOMAIN base_unit : inventory[k].unit = base_unit[d]
    BY <2>1, RegistryIs DEF PolicyInv, ItemInv
  <2>2. QED
    BY <2>1 DEF PolicyInv, IntentInv, TypeOK
<1>2. QED
  BY <1>1, PolicyInvariant, PTL

\* Two anomalous units never meet under one key: both would be its ending.
LEMMA OneAnomalousUnit ==
    ASSUME NEW key, NEW u, NEW w,
           Registry[u].dimension = "Anomalous", Registry[w].dimension = "Anomalous",
           splits_identity(key, u), splits_identity(key, w)
    PROVE  u = w
<1> DEFINE k == to_lowercase(key)
           ending == SubSeq(k, Len(k) - 1, Len(k))
<1>1. ending = <<"_", u>> /\ ending = <<"_", w>>
  BY Zenon DEF splits_identity
<1> HIDE DEF ending
<1>2. <<"_", u>>[2] = u /\ <<"_", w>>[2] = w
  OBVIOUS
<1>3. ending[2] = u /\ ending[2] = w
  BY <1>1, <1>2, Zenon
<1>4. QED
  BY <1>3

\* An accumulating command on an item in an anomalous unit is in the unit the
\* item is recorded in.
LEMMA AnomalousStep ==
    ASSUME PolicyInv, [Next]_vars,
           NEW k \in DOMAIN inventory \cap DOMAIN inventory',
           inventory'[k] # inventory[k], inventory[k].unit = "misc", Accumulates(verdict'.op)
    PROVE  inventory'[k].display_unit = inventory[k].display_unit
<1>1. Commits
  BY StepsCommit
<1>2. PICK a \in Answers : \E o \in evaluate_proposal(a) :
            \E r \in validate_and_stabilize(intent, o) :
            /\ stage = "evaluating"
            /\ inventory' = Applied("Committed", intent, o.key, r, o.unit)
            /\ verdict'.op = intent.operation
  BY <1>1 DEF Commits, Verdict
<1>3. PICK o \in evaluate_proposal(a) :
            \E r \in validate_and_stabilize(intent, o) :
            /\ stage = "evaluating"
            /\ inventory' = Applied("Committed", intent, o.key, r, o.unit)
            /\ verdict'.op = intent.operation
  BY <1>2
<1>4. PICK r \in validate_and_stabilize(intent, o) :
            /\ stage = "evaluating"
            /\ inventory' = Applied("Committed", intent, o.key, r, o.unit)
            /\ verdict'.op = intent.operation
  BY <1>3
<1>5. intent.operation # "Delete" /\ Accumulates(intent.operation)
  BY <1>4 DEF Accumulates
<1>6. k = o.key /\ inventory'[k].display_unit = o.unit
  BY <1>4, <1>5 DEF Applied, carried_out
<1>7. ItemInv(k, inventory[k]) /\ o.unit \in DOMAIN Registry /\ splits_identity(o.key, o.unit)
  BY <1>3, ResponseIs DEF PolicyInv
<1>8. Registry[inventory[k].unit].dimension = Registry[o.unit].dimension
  BY <1>4, <1>5, <1>6, StabilizedIs
<1>9. Registry[inventory[k].display_unit].dimension = "Anomalous"
  <2>1. Registry[inventory[k].display_unit].dimension \in DOMAIN base_unit
    BY <1>7, RegistryIs DEF ItemInv
  <2>2. base_unit[Registry[inventory[k].display_unit].dimension] = "misc"
    BY <1>7 DEF ItemInv
  <2>3. QED
    BY <2>1, <2>2, MiscIsAnomalous
<1>10. Registry[o.unit].dimension = "Anomalous"
  <2>1. inventory[k].unit = base_unit[Registry[inventory[k].display_unit].dimension]
    BY <1>7 DEF ItemInv
  <2>2. Registry[inventory[k].unit].dimension = Registry[inventory[k].display_unit].dimension
    BY <1>7, <2>1, RegistryIs DEF ItemInv
  <2>3. QED
    BY <1>8, <1>9, <2>2
<1>11. inventory[k].display_unit = o.unit
  BY <1>6, <1>7, <1>9, <1>10, OneAnomalousUnit DEF ItemInv
<1>12. QED
  BY <1>6, <1>11

\* Handfuls are never added to bunches, whatever keys and units the language
\* model answers with: the identity of an anomalous item includes its unit.
THEOREM HandfulsAreNotBunches == Spec => AnomalousUnitsNeverMix
<1>1. PolicyInv /\ [Next]_vars =>
        [\A k \in DOMAIN inventory \cap DOMAIN inventory' :
            inventory'[k] # inventory[k] /\ inventory[k].unit = "misc" /\ Accumulates(verdict'.op)
                => inventory'[k].display_unit = inventory[k].display_unit]_vars
  BY AnomalousStep
<1>2. QED
  BY <1>1, PolicyInvariant, PTL DEF Spec, AnomalousUnitsNeverMix

\* What a query shows of an amount with its four places, in a unit of the
\* registry that is not contextual.
LEMMA ShownNear ==
    ASSUME NEW base \in Nat, FourPlaces(base), NEW u \in DOMAIN Registry,
           ~ Registry[u].is_contextual
    PROVE  /\ convert_to_display_value(base, u) # {}
           /\ \A s \in convert_to_display_value(base, u) :
                /\ s \in Int
                /\ 20 * (s * Registry[u].multiplier - base * One)
                    \in -(11 * Registry[u].multiplier)..(11 * Registry[u].multiplier)
<1>1. convert_to_display_value(base, u) = Quotient(base, Registry[u].multiplier)
  BY DEF convert_to_display_value, resolve_symbol
<1>2. Registry[u].multiplier \in Nat /\ Registry[u].multiplier >= One
  BY RegistryIs DEF One
<1>3. QED
  BY <1>1, <1>2, QuotientNear

\* A tracked item shows its total.
LEMMA ShowsTyped ==
    ASSUME PolicyInv, NEW k \in DOMAIN inventory, typed[k].tracked,
           RoundsAway(typed[k].times, Registry[inventory[k].display_unit].multiplier)
    PROVE  Shown(inventory[k]) = {typed[k].total}
<1> DEFINE item == inventory[k]
           t == typed[k]
           m == Registry[item.display_unit].multiplier
<1>1. ItemInv(k, item) /\ TotalInv(item, t)
  BY DEF PolicyInv
<1>2. /\ item.quantity \in Nat /\ item.display_unit \in DOMAIN Registry
      /\ t.total \in Int /\ t.times \in Nat /\ FourPlaces(item.quantity)
      /\ ~ Registry[item.display_unit].is_contextual
      /\ Near(item.quantity, t.total, t.times, m)
  BY <1>1 DEF ItemInv, TotalInv
<1>3. m \in Int /\ m >= One
  BY <1>2, RegistryIs
<1>4. Shown(item) = convert_to_display_value(item.quantity, item.display_unit)
  BY DEF Shown
<1>5. /\ Shown(item) # {}
      /\ \A s \in Shown(item) :
            s \in Int /\ 20 * (s * m - item.quantity * One) \in -(11 * m)..(11 * m)
  BY <1>2, <1>4, ShownNear
<1>6. RoundsAway(t.times, m)
  OBVIOUS
<1> HIDE DEF item, t, m
<1>7. ASSUME NEW s \in Shown(item)
      PROVE  s = t.total
  <2>1. s \in Int /\ 20 * (s * m - item.quantity * One) \in -(11 * m)..(11 * m)
    BY <1>5
  <2>2. item.quantity \in Int
    BY <1>2
  <2>3. QED
    BY <1>2, <1>3, <1>6, <2>1, <2>2, ShowsTotal
<1>8. Shown(item) = {t.total}
  BY <1>5, <1>7
<1>9. QED
  BY <1>8 DEF item, t

\* A query shows exactly the total of what was typed for an item in one unit of
\* the registry, for every quantity whose amounts keep their four places and
\* for as many commands as the unit allows: the conversions to the base unit
\* and back lose nothing, and what was vetoed, refused or retried in between,
\* with whatever answers, leaves no trace.
THEOREM DisplaysFollow == Spec => []DisplayFollowsCommands
<1>1. PolicyInv => DisplayFollowsCommands
  <2>1. ASSUME PolicyInv, NEW k \in DOMAIN inventory
        PROVE  /\ k \in DOMAIN typed
               /\ typed[k].tracked
                  /\ RoundsAway(typed[k].times, Registry[inventory[k].display_unit].multiplier)
                  => Shown(inventory[k]) = {typed[k].total}
    BY <2>1, ShowsTyped DEF PolicyInv
  <2>2. QED
    BY <2>1 DEF DisplayFollowsCommands
<1>2. QED
  BY <1>1, PolicyInvariant, PTL

=============================================================================
