----------------------------- MODULE Thresholds -----------------------------
(***************************************************************************)
(* The exact arithmetic of the gates (gate.py, rendering.py, and the score *)
(* of crap.py). A fraction is a record in lowest terms; Python's integers  *)
(* and fractions do not overflow, so no width is modelled.                 *)
(***************************************************************************)
EXTENDS Integers

\* fractions.Fraction: the denominator is the least that will do.
Fraction(n, d) ==
  LET whole(k) == (n * k) % d = 0
      den == CHOOSE k \in 1..d : whole(k) /\ \A h \in 1..(k - 1) : ~whole(h)
  IN  [num |-> (n * den) \div d, den |-> den]

AtMost(x, y) == x.num * y.den <= y.num * x.den

(***************************************************************************)
(* The text of a threshold: a whole number and up to two decimals, written *)
(* as short as possible by GateThresholds.as_json.                         *)
(***************************************************************************)
ThresholdTexts(wholes) ==
  [whole : wholes, decimals : UNION {[1..k -> 0..9] : k \in 0..2}]

\* _parse: Fraction(text).
ParseThreshold(text) ==
  LET digit(k) == IF k \in DOMAIN text.decimals THEN text.decimals[k] ELSE 0
  IN  Fraction(100 * text.whole + 10 * digit(1) + digit(2), 100)

IsCrapMax(v) == v.num > 0

IsMutationMin(v) == v.num <= 100 * v.den

\* _text; the remainder of the division is 0 for a parsed threshold.
ThresholdText(v) ==
  LET hundredths == (v.num * 100) \div v.den
      cents      == hundredths % 100
  IN  [whole    |-> hundredths \div 100,
       decimals |-> IF cents = 0 THEN << >>
                    ELSE IF cents % 10 = 0 THEN <<cents \div 10>>
                    ELSE <<cents \div 10, cents % 10>>]
------------------------------------------------------------------------------
\* Mistake: a score at the limit does not pass.
BelowLimit(n, d, max) == n * max.den < max.num * d

\* crap_passes; also for fractions that are not in lowest terms.
CrapPasses(n, d, max) == n * max.den <= max.num * d

KillRatePasses(killed, inScope, min) == killed * 100 * min.den >= min.num * inScope

\* calculate_crap before it is reduced: c^2 (1 - k/t)^3 + c over t^3.
Cubed(n) == n * n * n

CrapNumerator(c, k, t) == c * c * Cubed(t - k) + c * Cubed(t)

\* render_canonical_decimal up to the layout of the digits: the number of
\* units of 1/scale, halves rounded to even.
RenderedUnits(n, d, scale) ==
  LET units == (n * scale) \div d
      twice == 2 * ((n * scale) % d)
  IN  IF twice > d \/ (twice = d /\ units % 2 = 1) THEN units + 1 ELSE units
==============================================================================
