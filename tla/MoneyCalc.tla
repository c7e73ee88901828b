------------------------------- MODULE MoneyCalc -------------------------------
(***************************************************************************)
(* A caller of the money kernel: an amount at hand, one kernel operation   *)
(* at a time, and the result taken as the next amount.                     *)
(*                                                                         *)
(* `work` keeps the operation with everything it was computed from, so     *)
(* that a result can be compared with the exact ratio, share or text it    *)
(* stands for, by definitions that share nothing with the kernel's own.    *)
(***************************************************************************)
EXTENDS Money

CONSTANTS
    Units,          \* units of amounts: [code, scale, rounding]
    Quantities,     \* multipliers and divisors
    Rates,          \* decimal multipliers: [mantissa, scale]
    WeightLists,    \* lists of weights, the ill-formed ones included
    Counts,         \* numbers of parts to split into
    Literals,       \* decimal texts: [negative, whole, fraction]
    SeedMinors      \* minor counts a caller starts from or adds

ASSUME UnitsAssumption ==
    Units \subseteq [code : {u.code : u \in Units}, scale : 0..MaxScale,
                     rounding : RoundingModes]
ASSUME RatesAssumption == Rates \subseteq [mantissa : Int, scale : 0..MaxScale]
ASSUME QuantitiesAssumption == Quantities \subseteq Int
ASSUME SeedsAssumption == SeedMinors \subseteq Minors

VARIABLES
    money,          \* the amount at hand: [minor, unit]
    work            \* the operation just computed and its inputs

moneyVars == <<money, work>>

Idle == [op |-> "idle"]
Seeds == [minor : SeedMinors, unit : Units]

MoneyInit == money \in Seeds /\ work = Idle

-------------------------------------------------------------------------------
Compute(op, input, result) ==
    /\ work = Idle
    /\ work' = [op |-> op, of |-> money, input |-> input, result |-> result]
    /\ UNCHANGED money

Add == \E b \in Seeds : Compute("checked_add", b, AddMoney(money, b))
Subtract == \E b \in Seeds : Compute("checked_sub", b, SubtractMoney(money, b))
Multiply == \E q \in Quantities : Compute("mul_int", q, MulInt(money, q))
Divide == \E q \in Quantities : Compute("div_int", q, DivInt(money, q))
Apply == \E r \in Rates : Compute("apply_rate", r, ApplyRate(money, r))
SumUp ==
    \E b \in Seeds : \E c \in {b, money} :
        Compute("sum", <<b, c>>, SumMoney(<<money, b, c>>))
SumUpNone == Compute("sum", <<>>, SumMoney(<<>>))
Split == \E w \in WeightLists : Compute("allocate", w, Allocate(money.minor, w))
SplitEven ==
    \E n \in Counts :
        Compute("allocate", [i \in 1..n |-> 1], SplitEvenly(money.minor, n))

(* A conversion names the target unit, which the result is counted in.     *)
Convert ==
    \E r \in Rates, u \in Units :
        Compute("convert_to", [rate |-> r, target |-> u], ConvertTo(money, u, r))

(* to_major_string, and what each parser reads back from that text.        *)
Show ==
    LET text == Render(money.minor, money.unit.scale)
    IN  Compute("to_major_string", text,
                [ok |-> TRUE, amount |-> ParseWith(text, money.unit, "exact"),
                 rate |-> ParseRate(text)])

Parse ==
    \E text \in Literals, mode \in {"exact", money.unit.rounding} :
        Compute("parse", [text |-> text, mode |-> mode],
                ParseWith(text, money.unit, mode))

(* The caller goes on with the result; an error leaves it where it was.    *)
Take ==
    /\ work # Idle
    /\ work' = Idle
    /\ money' = IF work.op \in {"to_major_string", "allocate"} \/ ~work.result.ok
                THEN money
                ELSE [minor |-> work.result.minor,
                      unit |-> IF work.op = "convert_to" THEN work.input.target
                                                         ELSE money.unit]

MoneyNext == \/ Add \/ Subtract \/ Multiply \/ Divide \/ Apply \/ Convert
             \/ SumUp \/ SumUpNone \/ Split \/ SplitEven \/ Show \/ Parse \/ Take

-------------------------------------------------------------------------------
(* Reference definitions.                                                  *)

Abs(n) == IF n < 0 THEN -n ELSE n

(* r is the integer the mode assigns to the exact ratio n / d, for d > 0.  *)
IsRounding(r, n, d, mode) ==
    LET off == Abs(n - r * d)       \* d times the distance from the ratio
    IN  CASE mode = "floor"    -> r * d <= n /\ off < d
          [] mode = "ceiling"  -> r * d >= n /\ off < d
          [] mode = "truncate" -> Abs(r) * d <= Abs(n) /\ r * n >= 0 /\ off < d
          [] OTHER -> /\ 2 * off <= d
                      /\ 2 * off = d =>
                            \/ mode = "half_up" /\ Abs(r) * d > Abs(n)
                            \/ mode = "half_down" /\ Abs(r) * d < Abs(n)
                            \/ mode = "half_even" /\ r % 2 = 0

(* The exact ratio an operation stands for, and the mode that rounds it.   *)
ExactRatio ==
    LET a == work.of
        x == work.input
    IN  CASE work.op = "div_int" ->
                [num |-> IF x < 0 THEN -a.minor ELSE a.minor, den |-> Abs(x),
                 mode |-> a.unit.rounding]
          [] work.op = "apply_rate" ->
                [num |-> a.minor * x.mantissa, den |-> 10 ^ x.scale,
                 mode |-> a.unit.rounding]
          [] work.op = "convert_to" ->
                [num |-> a.minor * x.rate.mantissa * 10 ^ x.target.scale,
                 den |-> 10 ^ (a.unit.scale + x.rate.scale),
                 mode |-> x.target.rounding]
          [] work.op = "parse" ->
                [num |-> Signed(x.text.negative, Spelled(x.text.whole \o x.text.fraction))
                            * 10 ^ a.unit.scale,
                 den |-> 10 ^ Len(x.text.fraction),
                 mode |-> IF x.mode = "exact" THEN a.unit.rounding ELSE x.mode]

(* Every result that has to be rounded is the one integer its declared     *)
(* mode assigns to the exact ratio of the inputs: negative amounts,        *)
(* negative divisors and exact halves included, a conversion rounded once  *)
(* and at the target's scale.  An exact parse never rounds at all.         *)
RoundsAsDeclared ==
    work.op \in {"div_int", "apply_rate", "convert_to", "parse"} /\ work.result.ok =>
        LET q == ExactRatio
        IN  /\ IsRounding(work.result.minor, q.num, q.den, q.mode)
            /\ work.op = "parse" /\ work.input.mode = "exact" =>
                   work.result.minor * q.den = q.num

(* The parts of an allocation add up to the amount, each lies within one   *)
(* minor unit of its exact share, a weight of zero takes nothing, and a    *)
(* larger weight never takes the smaller part of the two.                  *)
AllocationIsExact ==
    work.op = "allocate" /\ work.result.ok =>
        LET w == work.input
            part == work.result.parts
            n == work.of.minor
        IN  /\ Total(part) = n
            /\ \A i \in DOMAIN w :
                   /\ Abs(part[i] * Total(w) - n * w[i]) < Total(w)
                   /\ w[i] = 0 => part[i] = 0
                   /\ \A j \in DOMAIN w :
                          w[i] > w[j] => (part[i] - part[j]) * n >= 0

(* The text of an amount reads back as that amount, and as the rate of the *)
(* same value: the only exception is the least integer, whose magnitude no *)
(* parser can hold.                                                        *)
TextRoundTrips ==
    work.op = "to_major_string" =>
        LET n == work.of.minor
        IN  IF n = -MaxMinor - 1
            THEN work.result.amount = Failed("Overflow")
            ELSE /\ work.result.amount = Done(n)
                 /\ work.result.rate =
                        [ok |-> TRUE, rate |-> [mantissa |-> n,
                                                scale |-> work.of.unit.scale]]
===============================================================================
