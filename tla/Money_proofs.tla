----------------------------- MODULE Money_proofs -----------------------------
(***************************************************************************)
(* Proofs about the money kernel and its caller, for every width of the    *)
(* integer, every unit, rate and quantity.                                 *)
(*                                                                         *)
(* The provers evaluate no power, so that powers of ten are positive is a  *)
(* hypothesis of the lemmas and theorems that need it (PowersArePositive). *)
(* What a sequence of digits spells and what an allocation deals out are   *)
(* sums over data: TextRoundTrips, AllocationIsExact and the rounding of   *)
(* parsed text have no theorem here.                                       *)
(***************************************************************************)
EXTENDS MoneyCalc, TLAPS

MoneySpec == MoneyInit /\ [][MoneyNext]_moneyVars

PowersArePositive == \A k \in Nat : 10 ^ k > 0

(* Amounts are integers counted in known units.                            *)
MoneyTyped == money \in [minor : Int, unit : Units]

(* A result that is an amount fits the integer; that of a parse has been   *)
(* negated after its check and is an integer.                              *)
ResultsFit ==
    /\ work # Idle
    /\ work.op \notin {"to_major_string", "allocate"}
    /\ work.result.ok
    =>
        /\ work.result.minor \in Int
        /\ work.op # "parse" => work.result.minor \in Minors
        /\ work.op = "convert_to" => work.input.target \in Units

RatiosRounded == work.op # "parse" => RoundsAsDeclared

MoneyInv == MoneyTyped /\ ResultsFit /\ RatiosRounded

-------------------------------------------------------------------------------
(* Floored division.                                                       *)
LEMMA FloorFacts ==
    ASSUME NEW n \in Int, NEW d \in Nat \ {0}
    PROVE  /\ n \div d \in Int /\ n % d \in 0..(d - 1)
           /\ n = (n \div d) * d + (n % d)
           /\ n < 0 => n \div d < 0
           /\ n >= 0 => n \div d >= 0
<1>1. n \div d \in Int /\ n % d \in 0..(d - 1)
  BY SMT
<1>a. n = d * (n \div d) + (n % d)
  BY SMT
<1>b. n = (n \div d) * d + (n % d)
  BY <1>1, <1>a, SMT
<1>2. ASSUME NEW f \in Int, NEW m \in 0..(d - 1), n = f * d + m
      PROVE  (n < 0 => f < 0) /\ (n >= 0 => f >= 0)
  <2>1. f >= 0 => f * d >= 0
    BY SMT
  <2>2. f < 0 => f * d <= -d
    BY SMT
  <2> QED
    BY <1>2, <2>1, <2>2, SMT
<1> QED
  BY <1>1, <1>b, <1>2

(* IsRounding with its products named: rd is r * d, ad is Abs(r) * d and   *)
(* rn is r * n.                                                            *)
Rounded(r, rd, ad, rn, n, d, mode) ==
    LET off == Abs(n - rd)
    IN  CASE mode = "floor"    -> rd <= n /\ off < d
          [] mode = "ceiling"  -> rd >= n /\ off < d
          [] mode = "truncate" -> ad <= Abs(n) /\ rn >= 0 /\ off < d
          [] OTHER -> /\ 2 * off <= d
                      /\ 2 * off = d =>
                            \/ mode = "half_up" /\ ad > Abs(n)
                            \/ mode = "half_down" /\ ad < Abs(n)
                            \/ mode = "half_even" /\ r % 2 = 0

(* p is the floor f of the ratio times the divisor, m the remainder, and r *)
(* the floor or one more.                                                  *)
Quotient(r, rd, ad, rn, n, d, mode, f, m, p) ==
    /\ n \in Int /\ d \in Nat \ {0} /\ f \in Int /\ m \in 0..(d - 1)
    /\ p \in Int /\ r \in Int /\ rd \in Int /\ ad \in Int /\ rn \in Int
    /\ mode \in RoundingModes
    /\ n = p + m
    /\ n < 0 => p <= -d
    /\ n >= 0 => p >= 0
    /\ IF m # 0 /\ RoundsUp(mode, 2 * m, d, n < 0, f)
       THEN r = f + 1 /\ rd = p + d ELSE r = f /\ rd = p
    /\ ad = IF rd >= 0 THEN rd ELSE -rd
    /\ mode = "truncate" => rn >= 0

(* The six modes against the distance.                                     *)
LEMMA ModeFacts ==
    ASSUME NEW n, NEW d, NEW f, NEW m, NEW p, NEW r, NEW rd, NEW ad, NEW rn, NEW mode,
           Quotient(r, rd, ad, rn, n, d, mode, f, m, p)
    PROVE  Rounded(r, rd, ad, rn, n, d, mode)
<1> USE DEF Quotient
<1>1. f % 2 # 0 => (f + 1) % 2 = 0
  BY SMT
<1>8. CASE mode = "floor"
  BY <1>8, SMT DEF Rounded, Abs, RoundsUp
<1>9. CASE mode = "ceiling"
  BY <1>9, SMT DEF Rounded, Abs, RoundsUp
<1>10. CASE mode = "truncate"
  <2>1. RoundsUp(mode, 2 * m, d, n < 0, f) <=> n < 0
    BY <1>10 DEF RoundsUp
  <2>2. ad <= Abs(n) /\ rn >= 0 /\ Abs(n - rd) < d
    BY <1>10, <2>1, SMT DEF Abs
  <2> QED
    BY <1>10, <2>2 DEF Rounded
<1>11. CASE mode = "half_up"
  <2>1. RoundsUp(mode, 2 * m, d, n < 0, f) <=> (2 * m > d \/ (2 * m = d /\ n >= 0))
    BY <1>11 DEF RoundsUp
  <2>2. 2 * Abs(n - rd) <= d /\ (2 * Abs(n - rd) = d => ad > Abs(n))
    BY <2>1, SMT DEF Abs
  <2> QED
    BY <1>11, <2>2 DEF Rounded
<1>12. CASE mode = "half_down"
  <2>1. RoundsUp(mode, 2 * m, d, n < 0, f) <=> (2 * m > d \/ (2 * m = d /\ n < 0))
    BY <1>12 DEF RoundsUp
  <2>2. 2 * Abs(n - rd) <= d /\ (2 * Abs(n - rd) = d => ad < Abs(n))
    BY <2>1, SMT DEF Abs
  <2> QED
    BY <1>12, <2>2 DEF Rounded
<1>13. CASE mode = "half_even"
  <2>1. RoundsUp(mode, 2 * m, d, n < 0, f) <=> (2 * m > d \/ (2 * m = d /\ f % 2 # 0))
    BY <1>13 DEF RoundsUp
  <2>2. 2 * Abs(n - rd) <= d /\ (2 * Abs(n - rd) = d => r % 2 = 0)
    BY <1>1, <2>1, SMT DEF Abs
  <2> QED
    BY <1>13, <2>2 DEF Rounded
<1> QED
  BY <1>8, <1>9, <1>10, <1>11, <1>12, <1>13 DEF RoundingModes

(* Rounding a floored quotient gives what the mode assigns to the ratio.   *)
LEMMA RoundingFacts ==
    ASSUME NEW n \in Int, NEW d \in Nat \ {0}, NEW mode \in RoundingModes,
           NEW r \in Int,
           r = IF n % d # 0 /\ RoundsUp(mode, 2 * (n % d), d, n < 0, n \div d)
               THEN (n \div d) + 1 ELSE n \div d
    PROVE  IsRounding(r, n, d, mode)
<1> DEFINE f == n \div d
           m == n % d
           p == f * d
<1>1. f \in Int /\ m \in 0..(d - 1) /\ n = p + m /\ (n < 0 => f < 0) /\ (n >= 0 => f >= 0)
  BY FloorFacts
<1>2. r = IF m # 0 /\ RoundsUp(mode, 2 * m, d, n < 0, f) THEN f + 1 ELSE f
  OBVIOUS
<1> HIDE DEF f, m
<1>3. p \in Int /\ (f < 0 => p <= -d) /\ (f >= 0 => p >= 0)
  BY <1>1, SMT
<1>4. r * d \in Int /\ r * n \in Int /\ Abs(r) * d \in Int
  BY SMT DEF Abs
<1>5. r * d = IF r = f THEN p ELSE p + d
  BY <1>1, <1>2, SMT
<1>6. Abs(r) * d = IF r * d >= 0 THEN r * d ELSE -(r * d)
  BY SMT DEF Abs
<1>7. mode = "truncate" => r * n >= 0
  <2>1. CASE n < 0
    <3>1. r <= 0
      BY <1>1, <1>2, <2>1, SMT
    <3> QED
      BY <2>1, <3>1, SMT
  <2>2. CASE n >= 0
    <3>1. r >= 0
      BY <1>1, <1>2, <2>2, SMT
    <3> QED
      BY <2>2, <3>1, SMT
  <2> QED
    BY <2>1, <2>2, SMT
<1>8. IF m # 0 /\ RoundsUp(mode, 2 * m, d, n < 0, f)
      THEN r = f + 1 /\ r * d = p + d ELSE r = f /\ r * d = p
  BY <1>1, <1>2, <1>5, SMT
<1>9. Rounded(r, r * d, Abs(r) * d, r * n, n, d, mode)
  <2> DEFINE rd == r * d
             ad == Abs(r) * d
             rn == r * n
  <2>1. rd \in Int /\ ad \in Int /\ rn \in Int
    BY <1>4
  <2>2. IF m # 0 /\ RoundsUp(mode, 2 * m, d, n < 0, f)
        THEN r = f + 1 /\ rd = p + d ELSE r = f /\ rd = p
    BY <1>8
  <2>3. ad = IF rd >= 0 THEN rd ELSE -rd
    BY <1>6
  <2>4. mode = "truncate" => rn >= 0
    BY <1>7
  <2>5. n < 0 => p <= -d
    BY <1>1, <1>3
  <2>6. n >= 0 => p >= 0
    BY <1>1, <1>3
  <2>7. f \in Int /\ m \in 0..(d - 1) /\ p \in Int /\ n = p + m
    BY <1>1, <1>3
  <2> HIDE DEF p, rd, ad, rn
  <2>8. Rounded(r, rd, ad, rn, n, d, mode)
    <3>1. Quotient(r, rd, ad, rn, n, d, mode, f, m, p)
      BY <2>1, <2>2, <2>3, <2>4, <2>5, <2>6, <2>7 DEF Quotient
    <3> QED
      BY <3>1, ModeFacts
  <2> QED
    BY <2>8 DEF rd, ad, rn
<1> QED
  BY <1>9 DEF Rounded, IsRounding

(* DivRound: the result is the integer the mode assigns to the ratio of    *)
(* the arguments, whatever their signs, and it fits.                       *)
LEMMA DivRoundFacts ==
    ASSUME NEW n \in Int, NEW d \in Int, NEW mode \in RoundingModes,
           DivRound(n, d, mode).ok
    PROVE  /\ d # 0
           /\ DivRound(n, d, mode).minor \in Minors
           /\ IsRounding(DivRound(n, d, mode).minor, IF d < 0 THEN -n ELSE n, Abs(d), mode)
<1> DEFINE num == IF d < 0 THEN -n ELSE n
           den == IF d < 0 THEN -d ELSE d
           f == num \div den
           m == num % den
           up == RoundsUp(mode, 2 * m, den, num < 0, f)
           r == DivRound(n, d, mode).minor
<1>1. d # 0 /\ {num, den} \subseteq Minors
  BY DEF DivRound, Failed
<1>2. num \in Int /\ den \in Nat \ {0} /\ Abs(d) = den
  BY <1>1 DEF Abs
<1>3. f \in Int /\ m \in 0..(den - 1)
  BY <1>2, FloorFacts
<1>4. 2 * m = 0 <=> m = 0
  BY <1>3
<1>5. CASE m = 0
  <2>1. r = f
    BY <1>1, <1>4, <1>5 DEF DivRound, Done
  <2>2. f \in Minors
    <3>1. num = f * den
      <4>1. num = f * den + m
        BY <1>2, FloorFacts
      <4> HIDE DEF f, m, num, den
      <4> QED
        BY <1>2, <1>3, <1>5, <4>1, SMT
    <3>2. /\ num \in (-MaxMinor - 1)..MaxMinor /\ MaxMinor \in Nat
          /\ (f >= 0 => f <= f * den) /\ (f < 0 => f * den <= f)
      <4>1. num \in (-MaxMinor - 1)..MaxMinor /\ MaxMinor \in Nat
        BY <1>1, MaxMinorAssumption DEF Minors
      <4>2. (f >= 0 => f <= f * den) /\ (f < 0 => f * den <= f)
        <5> HIDE DEF f, den
        <5> QED
          BY <1>2, <1>3, SMT
      <4> QED
        BY <4>1, <4>2
    <3> HIDE DEF f, num, den
    <3> QED
      BY <1>3, <3>1, <3>2, SMT DEF Minors
  <2>3. r = IF m # 0 /\ up THEN f + 1 ELSE f
    BY <1>5, <2>1
  <2> HIDE DEF num, den, r
  <2>4. IsRounding(r, num, den, mode)
    BY <1>2, <1>3, <2>1, <2>3, RoundingFacts
  <2> QED
    BY <1>1, <1>2, <2>1, <2>2, <2>4 DEF num, r
<1>6. CASE m # 0
  <2>1. /\ DivRound(n, d, mode) = Checked(IF up THEN f + 1 ELSE f)
    BY <1>1, <1>4, <1>6 DEF DivRound, Failed
  <2>2. r = (IF up THEN f + 1 ELSE f) /\ r \in Minors
    BY <2>1 DEF Checked, Done, Failed
  <2>3. r = (IF m # 0 /\ up THEN f + 1 ELSE f) /\ r \in Int
    BY <1>3, <1>6, <2>2
  <2> HIDE DEF num, den, r
  <2>4. IsRounding(r, num, den, mode)
    BY <1>2, <2>3, RoundingFacts
  <2> QED
    BY <1>1, <1>2, <2>2, <2>4 DEF num, r
<1> QED
  BY <1>5, <1>6

-------------------------------------------------------------------------------
(* What each unit, rate and amount at hand is.                             *)
LEMMA UnitFacts ==
    ASSUME NEW u \in Units
    PROVE  u.scale \in 0..MaxScale /\ u.scale \in Nat /\ u.rounding \in RoundingModes
BY UnitsAssumption DEF MaxScale

(* A checked operation gives what fits.                                    *)
LEMMA CheckedFacts ==
    ASSUME NEW n, Checked(n).ok PROVE Checked(n).minor = n /\ n \in Minors
BY DEF Checked, Done, Failed

(* A rate's division, at the amount's own scale and rounding.              *)
LEMMA ApplyRateFacts ==
    ASSUME PowersArePositive, NEW a \in [minor : Int, unit : Units], NEW r \in Rates,
           ApplyRate(a, r).ok
    PROVE  /\ ApplyRate(a, r).minor \in Minors
           /\ IsRounding(ApplyRate(a, r).minor, a.minor * r.mantissa, 10 ^ r.scale,
                         a.unit.rounding)
<1> DEFINE n == a.minor * r.mantissa
           d == 10 ^ r.scale
<1>1. n \in Int /\ r.scale \in Nat /\ a.unit.rounding \in RoundingModes
  BY UnitFacts, RatesAssumption DEF MaxScale
<1>2. /\ {n, d} \subseteq Minors
      /\ ApplyRate(a, r) = DivRound(n, d, a.unit.rounding)
  BY DEF ApplyRate, Failed
<1>3. d \in Int /\ d > 0 /\ Abs(d) = d
  BY <1>1, <1>2, MaxMinorAssumption DEF Minors, PowersArePositive, Abs
<1> HIDE DEF n, d
<1>4. /\ DivRound(n, d, a.unit.rounding).minor \in Minors
      /\ IsRounding(DivRound(n, d, a.unit.rounding).minor, n, d, a.unit.rounding)
  BY <1>1, <1>2, <1>3, DivRoundFacts
<1> QED
  BY <1>2, <1>4 DEF n, d

(* A conversion's one division, at the target's scale and rounding.        *)
LEMMA ConvertFacts ==
    ASSUME PowersArePositive, NEW a \in [minor : Int, unit : Units], NEW u \in Units,
           NEW r \in Rates, ConvertTo(a, u, r).ok
    PROVE  /\ ConvertTo(a, u, r).minor \in Minors
           /\ IsRounding(ConvertTo(a, u, r).minor,
                         a.minor * r.mantissa * 10 ^ u.scale,
                         10 ^ (a.unit.scale + r.scale), u.rounding)
<1> DEFINE n == a.minor * r.mantissa * 10 ^ u.scale
           d == 10 ^ (r.scale + a.unit.scale)
<1>1. /\ r.scale \in Nat /\ a.unit.scale \in Nat /\ r.scale + a.unit.scale \in Nat
      /\ u.rounding \in RoundingModes
      /\ r.scale + a.unit.scale = a.unit.scale + r.scale
  BY UnitFacts, RatesAssumption DEF MaxScale
<1>2. /\ {n, d} \subseteq Minors
      /\ ConvertTo(a, u, r) = DivRound(n, d, u.rounding)
  BY DEF ConvertTo, Failed
<1>3. n \in Int /\ d \in Int /\ d > 0 /\ Abs(d) = d
  BY <1>1, <1>2, MaxMinorAssumption DEF Minors, PowersArePositive, Abs
<1> HIDE DEF n, d
<1>4. /\ DivRound(n, d, u.rounding).minor \in Minors
      /\ IsRounding(DivRound(n, d, u.rounding).minor, n, d, u.rounding)
  BY <1>1, <1>2, <1>3, DivRoundFacts
<1> QED
  BY <1>1, <1>2, <1>4 DEF n, d

(* A division by an integer of either sign.                                *)
LEMMA DivIntFacts ==
    ASSUME NEW a \in [minor : Int, unit : Units], NEW x \in Int, DivInt(a, x).ok
    PROVE  /\ DivInt(a, x).minor \in Minors
           /\ IsRounding(DivInt(a, x).minor, IF x < 0 THEN -a.minor ELSE a.minor,
                         Abs(x), a.unit.rounding)
BY DivRoundFacts, UnitFacts DEF DivInt

(* The sum of three amounts fits when every prefix does.                   *)
LEMMA SumFacts ==
    ASSUME NEW x, NEW y, NEW z, SumMoney(<<x, y, z>>).ok
    PROVE  SumMoney(<<x, y, z>>).minor \in Minors
<1> DEFINE amounts == <<x, y, z>>
           minor == [k \in DOMAIN amounts |-> amounts[k].minor]
<1>1. DOMAIN amounts = 1..3 /\ amounts # <<>>
  OBVIOUS
<1>2. FirstOf(minor, 3) = minor
  BY <1>1 DEF FirstOf
<1>3. /\ \A k \in DOMAIN amounts : Total(FirstOf(minor, k)) \in Minors
      /\ SumMoney(amounts) = Done(Total(minor))
  BY <1>1 DEF SumMoney, Failed
<1>4. Total(minor) \in Minors
  BY <1>1, <1>2, <1>3
<1> QED
  BY <1>3, <1>4 DEF Done

(* Text that is read is an integer, whatever its digits.                   *)
LEMMA ParseFacts ==
    ASSUME NEW text, NEW u \in Units, NEW mode \in {"exact", u.rounding},
           ParseWith(text, u, mode).ok
    PROVE  ParseWith(text, u, mode).minor \in Int
<1>1. Minors \subseteq Int
  BY MaxMinorAssumption DEF Minors
<1>2. ASSUME NEW n \in Int PROVE Signed(text.negative, n) \in Int
  BY DEF Signed
<1> DEFINE exact == Spelled(text.whole \o text.fraction)
           padding == 10 ^ (u.scale - Len(text.fraction))
           kept == SubSeq(text.fraction, 1, u.scale)
           excess == SubSeq(text.fraction, u.scale + 1, Len(text.fraction))
           den == 10 ^ Len(excess)
           magnitude == Spelled(text.whole \o kept) * den + Spelled(excess)
<1>3. CASE Len(text.fraction) <= u.scale
  <2>1. /\ exact * padding \in Minors
        /\ ParseWith(text, u, mode) = Done(Signed(text.negative, exact * padding))
    BY <1>3 DEF ParseWith, Failed
  <2>2. Signed(text.negative, exact * padding) \in Int
    BY <1>1, <1>2, <2>1
  <2> QED
    BY <2>1, <2>2 DEF Done
<1>4. CASE ~(Len(text.fraction) <= u.scale)
  <2>1. /\ {den, magnitude} \subseteq Minors /\ mode # "exact"
        /\ ParseWith(text, u, mode) = DivRound(Signed(text.negative, magnitude), den, mode)
    BY <1>4 DEF ParseWith, Failed
  <2>2. den \in Int /\ Signed(text.negative, magnitude) \in Int /\ mode \in RoundingModes
    BY <1>1, <1>2, <2>1, UnitFacts
  <2> HIDE DEF den, magnitude
  <2>3. DivRound(Signed(text.negative, magnitude), den, mode).minor \in Minors
    BY <2>1, <2>2, DivRoundFacts
  <2> QED
    BY <1>1, <2>1, <2>3
<1> QED
  BY <1>3, <1>4

-------------------------------------------------------------------------------
(* A result of an operation that does not round.                           *)
LEMMA ExactStep ==
    ASSUME MoneyTyped, NEW op, NEW input, NEW result, Compute(op, input, result),
           op \in {"checked_add", "checked_sub", "mul_int", "sum"},
           result.ok => result.minor \in Minors
    PROVE  MoneyInv'
<1>1. /\ money' = money
      /\ work' = [op |-> op, of |-> money, input |-> input, result |-> result]
  BY DEF Compute
<1>2. Minors \subseteq Int
  BY MaxMinorAssumption DEF Minors
<1> QED
  BY <1>1, <1>2 DEF MoneyInv, MoneyTyped, ResultsFit, RatiosRounded, RoundsAsDeclared

(* A result of an operation that rounds a ratio.                           *)
LEMMA RatioStep ==
    ASSUME MoneyTyped, NEW op, NEW input, NEW result, Compute(op, input, result),
           op \in {"div_int", "apply_rate", "convert_to"},
           op = "convert_to" => input.target \in Units,
           result.ok => /\ result.minor \in Minors
                        /\ IsRounding(result.minor, ExactRatio.num, ExactRatio.den,
                                      ExactRatio.mode)'
    PROVE  MoneyInv'
<1>1. /\ money' = money
      /\ work' = [op |-> op, of |-> money, input |-> input, result |-> result]
  BY DEF Compute
<1>2. Minors \subseteq Int
  BY MaxMinorAssumption DEF Minors
<1> QED
  BY <1>1, <1>2 DEF MoneyInv, MoneyTyped, ResultsFit, RatiosRounded, RoundsAsDeclared

(* An operation without an amount as its result.                           *)
LEMMA OtherStep ==
    ASSUME MoneyTyped, NEW op, NEW input, NEW result, Compute(op, input, result),
           op \in {"allocate", "to_major_string"}
    PROVE  MoneyInv'
BY DEF Compute, MoneyInv, MoneyTyped, ResultsFit, RatiosRounded, RoundsAsDeclared

(* Every operation keeps the amounts typed and rounds its ratio as the     *)
(* mode it declares says.                                                  *)
LEMMA MoneyStep ==
    ASSUME PowersArePositive, MoneyInv, [MoneyNext]_moneyVars
    PROVE  MoneyInv'
<1> USE DEF MoneyInv
<1>1. Minors \subseteq Int /\ money \in [minor : Int, unit : Units]
  BY MaxMinorAssumption DEF Minors, MoneyTyped
<1>2. CASE Add
  <2>1. PICK b \in Seeds : Compute("checked_add", b, AddMoney(money, b))
    BY <1>2 DEF Add
  <2>2. AddMoney(money, b).ok => AddMoney(money, b).minor \in Minors
    BY CheckedFacts DEF AddMoney, Failed
  <2> QED
    BY <2>1, <2>2, ExactStep
<1>3. CASE Subtract
  <2>1. PICK b \in Seeds : Compute("checked_sub", b, SubtractMoney(money, b))
    BY <1>3 DEF Subtract
  <2>2. SubtractMoney(money, b).ok => SubtractMoney(money, b).minor \in Minors
    BY CheckedFacts DEF SubtractMoney, Failed
  <2> QED
    BY <2>1, <2>2, ExactStep
<1>4. CASE Multiply
  <2>1. PICK q \in Quantities : Compute("mul_int", q, MulInt(money, q))
    BY <1>4 DEF Multiply
  <2>2. MulInt(money, q).ok => MulInt(money, q).minor \in Minors
    BY CheckedFacts DEF MulInt
  <2> QED
    BY <2>1, <2>2, ExactStep
<1>5. CASE Divide
  <2>1. PICK q \in Quantities : Compute("div_int", q, DivInt(money, q))
    BY <1>5 DEF Divide
  <2>2. work' = [op |-> "div_int", of |-> money, input |-> q, result |-> DivInt(money, q)]
    BY <2>1 DEF Compute
  <2>3. q \in Int
    BY QuantitiesAssumption
  <2>4. /\ ExactRatio.num' = (IF q < 0 THEN -money.minor ELSE money.minor)
        /\ ExactRatio.den' = Abs(q) /\ ExactRatio.mode' = money.unit.rounding
    BY <2>2 DEF ExactRatio
  <2>5. DivInt(money, q).ok =>
            /\ DivInt(money, q).minor \in Minors
            /\ IsRounding(DivInt(money, q).minor, ExactRatio.num', ExactRatio.den',
                          ExactRatio.mode')
    BY <1>1, <2>3, <2>4, DivIntFacts
  <2> QED
    BY <2>1, <2>5, RatioStep
<1>6. CASE Apply
  <2>1. PICK r \in Rates : Compute("apply_rate", r, ApplyRate(money, r))
    BY <1>6 DEF Apply
  <2>2. work' = [op |-> "apply_rate", of |-> money, input |-> r,
                 result |-> ApplyRate(money, r)]
    BY <2>1 DEF Compute
  <2>3. /\ ExactRatio.num' = money.minor * r.mantissa
        /\ ExactRatio.den' = 10 ^ r.scale /\ ExactRatio.mode' = money.unit.rounding
    BY <2>2 DEF ExactRatio
  <2>4. ApplyRate(money, r).ok =>
            /\ ApplyRate(money, r).minor \in Minors
            /\ IsRounding(ApplyRate(money, r).minor, ExactRatio.num', ExactRatio.den',
                          ExactRatio.mode')
    BY <1>1, <2>3, ApplyRateFacts
  <2> QED
    BY <2>1, <2>4, RatioStep
<1>7. CASE Convert
  <2>1. PICK r \in Rates, u \in Units :
            Compute("convert_to", [rate |-> r, target |-> u], ConvertTo(money, u, r))
    BY <1>7 DEF Convert
  <2> DEFINE x == [rate |-> r, target |-> u]
  <2>2. work' = [op |-> "convert_to", of |-> money, input |-> x,
                 result |-> ConvertTo(money, u, r)]
    BY <2>1 DEF Compute
  <2>3. /\ ExactRatio.num' = money.minor * r.mantissa * 10 ^ u.scale
        /\ ExactRatio.den' = 10 ^ (money.unit.scale + r.scale)
        /\ ExactRatio.mode' = u.rounding
    BY <2>2 DEF ExactRatio
  <2>4. ConvertTo(money, u, r).ok =>
            /\ ConvertTo(money, u, r).minor \in Minors
            /\ IsRounding(ConvertTo(money, u, r).minor, ExactRatio.num', ExactRatio.den',
                          ExactRatio.mode')
    BY <1>1, <2>3, ConvertFacts
  <2>5. x.target \in Units
    OBVIOUS
  <2> HIDE DEF x
  <2> QED
    BY <2>1, <2>4, <2>5, RatioStep DEF x
<1>8. CASE SumUp
  <2>1. PICK b, c : Compute("sum", <<b, c>>, SumMoney(<<money, b, c>>))
    BY <1>8 DEF SumUp
  <2> QED
    BY <2>1, SumFacts, ExactStep
<1>9. CASE SumUpNone
  <2>1. Compute("sum", <<>>, SumMoney(<<>>)) /\ ~SumMoney(<<>>).ok
    BY <1>9 DEF SumUpNone, SumMoney, Failed
  <2> QED
    BY <2>1, ExactStep
<1>10. CASE Split \/ SplitEven \/ Show
  BY <1>10, OtherStep DEF Split, SplitEven, Show
<1>11. CASE Parse
  <2>1. PICK text \in Literals, mode \in {"exact", money.unit.rounding} :
            Compute("parse", [text |-> text, mode |-> mode],
                    ParseWith(text, money.unit, mode))
    BY <1>11 DEF Parse
  <2>2. ParseWith(text, money.unit, mode).ok =>
            ParseWith(text, money.unit, mode).minor \in Int
    BY <1>1, ParseFacts
  <2>3. /\ money' = money
        /\ work' = [op |-> "parse", of |-> money, input |-> [text |-> text, mode |-> mode],
                    result |-> ParseWith(text, money.unit, mode)]
    BY <2>1 DEF Compute
  <2> QED
    BY <2>2, <2>3 DEF MoneyTyped, ResultsFit, RatiosRounded
<1>12. CASE Take
  <2>1. work' = Idle /\ Idle.op = "idle"
    BY <1>12 DEF Take, Idle
  <2>2. MoneyTyped'
    BY <1>1, <1>12 DEF Take, ResultsFit, MoneyTyped
  <2> QED
    BY <2>1, <2>2 DEF ResultsFit, RatiosRounded, RoundsAsDeclared
<1>13. CASE UNCHANGED moneyVars
  BY <1>13 DEF moneyVars, MoneyTyped, ResultsFit, RatiosRounded, RoundsAsDeclared, ExactRatio
<1> QED
  BY <1>2, <1>3, <1>4, <1>5, <1>6, <1>7, <1>8, <1>9, <1>10, <1>11, <1>12, <1>13
  DEF MoneyNext

(* Amounts stay integers in known units, results fit, ratios are rounded.  *)
THEOREM MoneyInvariance ==
    ASSUME PowersArePositive PROVE MoneySpec => []MoneyInv
<1>1. MoneyInit => MoneyInv
  <2> SUFFICES ASSUME MoneyInit PROVE MoneyInv
    OBVIOUS
  <2>1. money \in Seeds /\ work = Idle /\ Idle.op = "idle"
    BY DEF MoneyInit, Idle
  <2>2. SeedMinors \subseteq Int
    BY SeedsAssumption, MaxMinorAssumption DEF Minors
  <2> QED
    BY <2>1, <2>2 DEF MoneyInv, MoneyTyped, Seeds, ResultsFit, RatiosRounded,
       RoundsAsDeclared
<1>2. MoneyInv /\ [MoneyNext]_moneyVars => MoneyInv'
  BY MoneyStep
<1> QED
  BY <1>1, <1>2, PTL DEF MoneySpec

(* RoundsAsDeclared of every division, rate and conversion: the result is  *)
(* the one integer the declared mode assigns to the exact ratio of the     *)
(* inputs, for any amount, divisor, rate, unit and width (div_int,         *)
(* apply_rate, convert_to over div_round).  Parsed text, whose ratio is    *)
(* spelled digit by digit, is left to the runs.                            *)
THEOREM RatiosAreRounded ==
    ASSUME PowersArePositive
    PROVE  MoneySpec => [](work.op # "parse" => RoundsAsDeclared)
<1>1. MoneyInv => (work.op # "parse" => RoundsAsDeclared)
  BY DEF MoneyInv, RatiosRounded
<1> QED
  BY <1>1, MoneyInvariance, PTL

(* A result that is an amount fits the kernel's integer, or the operation  *)
(* names an error: nothing wraps (checked_add, checked_mul, div_round).    *)
THEOREM ResultsAlwaysFit ==
    ASSUME PowersArePositive PROVE MoneySpec => []ResultsFit
<1>1. MoneyInv => ResultsFit
  BY DEF MoneyInv
<1> QED
  BY <1>1, MoneyInvariance, PTL
===============================================================================
