--------------------------------- MODULE Money ---------------------------------
(***************************************************************************)
(* The money kernel: amounts as integer counts of a unit's minor           *)
(* denomination, and the operations that have to round.                    *)
(*                                                                         *)
(* The operators here are the kernel's functions.  A calculation either    *)
(* returns an integer or names the error it stops with; every intermediate *)
(* the code computes with a checked operation is checked here against the  *)
(* width of the integer.  MaxMinor is i128::MAX in the code.               *)
(*                                                                         *)
(* Decimal text is a sign and two sequences of digits; trimming, the sign  *)
(* prefix and the rejection of other characters are left out.              *)
(***************************************************************************)
EXTENDS Integers, Sequences, FiniteSets
LOCAL INSTANCE Functions    \* FoldFunction

CONSTANT MaxMinor       \* bound: the greatest minor count, 2^127 - 1 in the code
ASSUME MaxMinorAssumption == MaxMinor \in Nat \ {0}

Minors == (-MaxMinor - 1)..MaxMinor

RoundingModes == {"half_up", "half_down", "half_even", "floor", "ceiling", "truncate"}
MaxScale == 8

-------------------------------------------------------------------------------
(* Results.                                                                *)

Done(n) == [ok |-> TRUE, minor |-> n]
Failed(error) == [ok |-> FALSE, error |-> error]

(* checked_add, checked_mul, checked_neg: the exact value, if it fits.     *)
Checked(n) == IF n \in Minors THEN Done(n) ELSE Failed("Overflow")

-------------------------------------------------------------------------------
(* Units.                                                                  *)

(* A unit from a row of the currency registry: a code of 3 to 8 upper-case *)
(* letters and digits, a rounding mode the kernel knows, a supported scale. *)
FromRegistry(row) ==
    IF ~row.shaped THEN Failed("InvalidUnitCode")
    ELSE IF row.rounding \notin RoundingModes THEN Failed("UnknownRoundingMode")
    ELSE IF row.scale > MaxScale THEN Failed("ScaleTooLarge")
    ELSE [ok |-> TRUE, unit |-> [code |-> row.code, scale |-> row.scale,
                                 rounding |-> row.rounding]]

(* Arithmetic and comparison need the same code and scale; the rounding    *)
(* mode is not compared.                                                   *)
SameUnit(u, v) == u.code = v.code /\ u.scale = v.scale

-------------------------------------------------------------------------------
(* Rounded division.                                                       *)

(* Mutant: an exact half of a negative quotient goes up, not away from 0.  *)
RoundsUpTowardsPositive(mode, doubled, den, negative, floor) ==
    \/ mode = "ceiling"
    \/ mode = "truncate" /\ negative
    \/ mode \in {"half_up", "half_down", "half_even"} /\ doubled > den
    \/ doubled = den /\ \/ mode = "half_up"
                        \/ mode = "half_even" /\ floor % 2 # 0

(* Whether a quotient with the given floor and twice its remainder goes up. *)
RoundsUp(mode, doubled, den, negative, floor) ==
    \/ mode = "ceiling"
    \/ mode = "truncate" /\ negative
    \/ mode \in {"half_up", "half_down", "half_even"} /\ doubled > den
    \/ doubled = den /\ \/ mode = "half_up" /\ ~negative
                        \/ mode = "half_down" /\ negative
                        \/ mode = "half_even" /\ floor % 2 # 0

(* Euclidean division, then the remainder decides.  Twice the remainder is *)
(* computed before the mode is looked at, and may itself overflow.         *)
DivRound(n, d, mode) ==
    LET num == IF d < 0 THEN -n ELSE n
        den == IF d < 0 THEN -d ELSE d
        floor == num \div den
        doubled == 2 * (num % den)
    IN  IF d = 0 THEN Failed("DivisionByZero")
        ELSE IF {num, den} \subseteq Minors
        THEN IF doubled = 0 THEN Done(floor)
             ELSE IF doubled \notin Minors THEN Failed("Overflow")
             ELSE Checked(IF RoundsUp(mode, doubled, den, num < 0, floor)
                          THEN floor + 1 ELSE floor)
        ELSE Failed("Overflow")

-------------------------------------------------------------------------------
(* Arithmetic on amounts: records of a minor count and a unit.             *)

AddMoney(a, b) ==
    IF SameUnit(a.unit, b.unit) THEN Checked(a.minor + b.minor)
                                ELSE Failed("UnitMismatch")
SubtractMoney(a, b) ==
    IF SameUnit(a.unit, b.unit) THEN Checked(a.minor - b.minor)
                                ELSE Failed("UnitMismatch")
MulInt(a, quantity) == Checked(a.minor * quantity)
DivInt(a, divisor) == DivRound(a.minor, divisor, a.unit.rounding)

(* A rate is a mantissa and a decimal scale.                               *)
ApplyRate(a, rate) ==
    IF {a.minor * rate.mantissa, 10 ^ rate.scale} \subseteq Minors
    THEN DivRound(a.minor * rate.mantissa, 10 ^ rate.scale, a.unit.rounding)
    ELSE Failed("Overflow")

(* One division at the target's scale and rounding, after two products.    *)
ConvertTo(a, target, rate) ==
    LET product == a.minor * rate.mantissa
        num == product * 10 ^ target.scale
        den == 10 ^ (rate.scale + a.unit.scale)
    IN  IF {product, num, den, 10 ^ target.scale} \subseteq Minors
        THEN DivRound(num, den, target.rounding)
        ELSE Failed("Overflow")

-------------------------------------------------------------------------------
(* Allocation by largest remainder.                                        *)

Total(f) == FoldFunction(+, 0, f)
FirstOf(f, k) == [i \in 1..k |-> f[i]]

(* The order in which parts take what the floors left over: the larger     *)
(* remainder, then the larger weight, then the lower index.                *)
Precedes(i, j, remainder, weights) ==
    \/ remainder[i] > remainder[j]
    \/ remainder[i] = remainder[j] /\ weights[i] > weights[j]
    \/ remainder[i] = remainder[j] /\ weights[i] = weights[j] /\ i < j

(* Mutant: the leftover goes to the first parts.                           *)
TakesOneByIndex(i, leftover, remainder, weights) == i <= leftover

TakesOne(i, leftover, remainder, weights) ==
    Cardinality({j \in DOMAIN weights : Precedes(j, i, remainder, weights)})
        < leftover

Allocate(total, weights) ==
    LET whole == Total(weights)
        base == [i \in DOMAIN weights |-> (total * weights[i]) \div whole]
        remainder == [i \in DOMAIN weights |-> (total * weights[i]) % whole]
        leftover == total - Total(base)
        part == [i \in DOMAIN weights |->
                    IF TakesOne(i, leftover, remainder, weights)
                    THEN base[i] + 1 ELSE base[i]]
        Fits == /\ whole \in Minors
                /\ \A i \in DOMAIN weights : total * weights[i] \in Minors
                /\ \A k \in DOMAIN weights : Total(FirstOf(base, k)) \in Minors
                /\ leftover \in Minors
    IN  IF weights = <<>> THEN Failed("EmptyWeights")
        ELSE IF \E i \in DOMAIN weights : weights[i] < 0 THEN Failed("NegativeWeight")
        ELSE IF whole = 0 THEN Failed("ZeroWeightTotal")
        ELSE IF ~Fits THEN Failed("Overflow")
        ELSE [ok |-> TRUE, parts |-> part]

SplitEvenly(total, count) ==
    IF count = 0 THEN Failed("DivisionByZero")
                 ELSE Allocate(total, [i \in 1..count |-> 1])

(* The sum of amounts of one unit: every prefix must fit.                  *)
SumMoney(amounts) ==
    IF amounts = <<>> THEN Failed("EmptyWeights")
    ELSE IF \E k \in DOMAIN amounts : ~SameUnit(amounts[k].unit, amounts[1].unit)
    THEN Failed("UnitMismatch")
    ELSE LET minor == [k \in DOMAIN amounts |-> amounts[k].minor]
         IN  IF \A k \in DOMAIN amounts : Total(FirstOf(minor, k)) \in Minors
             THEN Done(Total(minor)) ELSE Failed("Overflow")

-------------------------------------------------------------------------------
(* Decimal text.                                                           *)

(* The number a sequence of digits spells.                                 *)
Spelled(digits) ==
    LET value[k \in 0..Len(digits)] ==
            IF k = 0 THEN 0 ELSE 10 * value[k - 1] + digits[k]
    IN  value[Len(digits)]

(* The digits of a natural number, padded with zeros to a least length.    *)
Digits(n, least) ==
    LET enough(k) == k >= least /\ n < 10 ^ k
        len == CHOOSE k \in 1..(least + n + 1) :
                   enough(k) /\ \A j \in 1..(k - 1) : ~enough(j)
    IN  [i \in 1..len |-> (n \div 10 ^ (len - i)) % 10]

Signed(negative, n) == IF negative THEN -n ELSE n

(* Mutant: pads to the scale, so that an amount below one major unit loses *)
(* the digit before its point.                                             *)
RenderUnpadded(n, scale) ==
    LET digits == Digits(IF n < 0 THEN -n ELSE n, 1)
        split == IF Len(digits) > scale THEN Len(digits) - scale ELSE 0
    IN  [negative |-> n < 0, whole |-> SubSeq(digits, 1, split),
         fraction |-> SubSeq(digits, split + 1, Len(digits))]

(* to_major_string: at least one digit before the point, exactly the       *)
(* scale's digits after it.                                                *)
Render(n, scale) ==
    LET digits == Digits(IF n < 0 THEN -n ELSE n, scale + 1)
        split == Len(digits) - scale
    IN  [negative |-> n < 0, whole |-> SubSeq(digits, 1, split),
         fraction |-> SubSeq(digits, split + 1, Len(digits))]

(* parse (mode "exact") and parse_rounded: too many fractional digits are  *)
(* an error, or the numerator of one division of the signed value.         *)
ParseWith(text, unit, mode) ==
    LET kept == SubSeq(text.fraction, 1, unit.scale)
        excess == SubSeq(text.fraction, unit.scale + 1, Len(text.fraction))
        padding == 10 ^ (unit.scale - Len(text.fraction))
        exact == Spelled(text.whole \o text.fraction)
        den == 10 ^ Len(excess)
        magnitude == Spelled(text.whole \o kept) * den + Spelled(excess)
    IN  IF text.whole = <<>> /\ text.fraction = <<>> THEN Failed("InvalidAmount")
        ELSE IF Len(text.fraction) <= unit.scale
        THEN IF {exact, padding, exact * padding} \subseteq Minors
             THEN Done(Signed(text.negative, exact * padding))
             ELSE Failed("Overflow")
        ELSE IF mode = "exact" THEN Failed("ScaleExceeded")
        ELSE IF {den, magnitude} \subseteq Minors
        THEN DivRound(Signed(text.negative, magnitude), den, mode)
        ELSE Failed("Overflow")

(* Rate::from_str keeps every digit; the scale is how many are fractional. *)
ParseRate(text) ==
    LET mantissa == Spelled(text.whole \o text.fraction)
    IN  IF text.whole = <<>> /\ text.fraction = <<>> THEN Failed("InvalidAmount")
        ELSE IF Len(text.fraction) > MaxScale THEN Failed("ScaleTooLarge")
        ELSE IF mantissa \notin Minors THEN Failed("Overflow")
        ELSE [ok |-> TRUE, rate |-> [mantissa |-> Signed(text.negative, mantissa),
                                     scale |-> Len(text.fraction)]]
===============================================================================
