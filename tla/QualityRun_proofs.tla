------------------------- MODULE QualityRun_proofs -------------------------
(***************************************************************************)
(* Theorems about the verdicts of the gates and the store, for all files,  *)
(* limits and numbers of callables and mutants.                            *)
(***************************************************************************)
EXTENDS QualityRun, FiniteSetTheorems, WellFoundedInduction, TLAPS

Positive == Nat \ {0}

Fractions == [num : Nat, den : Positive]

(***************************************************************************)
(* Induction over the naturals without an operator to pass: a set of       *)
(* numbers has a least one, because the intervals below its members are    *)
(* finite sets and their strict inclusion is well founded.                 *)
(***************************************************************************)
LEMMA LeastNumber ==
  ASSUME NEW S \in SUBSET Nat, S # {}
  PROVE  \E s \in S : \A t \in S : s <= t
  <1> DEFINE R == StrictSubsetOrdering(Nat)
             T == {0..s : s \in S}
  <1>1. \A n \in Nat : IsFiniteSet(0..n) /\ (0..n) \in SUBSET Nat
    BY FS_Interval
  <1>2. T \subseteq FiniteSubsetsOf(Nat) /\ T # {}
    BY <1>1 DEF FiniteSubsetsOf
  <1>3. \E x \in T : \A y \in T : <<y, x>> \notin R
    <2> HIDE DEF T, R
    <2>1. IsWellFoundedOn(R, FiniteSubsetsOf(Nat))
      BY FS_StrictSubsetOrderingWellFounded DEF R
    <2> QED BY <1>2, <2>1, WFMin
  <1>4. PICK s \in S : \A t \in S : <<0..t, 0..s>> \notin R
    BY <1>3
  <1>5. ASSUME NEW t \in S, t < s
        PROVE  FALSE
    <2>1. s \in 0..s /\ s \notin 0..t /\ (0..t) \subseteq (0..s)
      BY <1>5
    <2>2. 0..t # 0..s /\ (0..t) \in SUBSET Nat /\ (0..s) \in SUBSET Nat
      BY <2>1
    <2>3. <<0..t, 0..s>> \in R
      BY <2>1, <2>2 DEF StrictSubsetOrdering
    <2> QED BY <1>4, <2>3
  <1> QED BY <1>4, <1>5

(***************************************************************************)
(* Multiplying by a positive number keeps an order and cancels from it.    *)
(***************************************************************************)
LEMMA TimesKeepsOrder ==
  ASSUME NEW a \in Int, NEW b \in Int, NEW c \in Nat, a <= b
  PROVE  a * c <= b * c
  <1>1. PICK k \in Nat : b = a + k
    BY b - a \in Nat, b = a + (b - a)
  <1>2. b * c = a * c + k * c
    BY <1>1, SMT
  <1>3. k * c \in Nat
    BY <1>1, SMT
  <1> QED
    BY <1>2, <1>3, a * c \in Int, SMT

LEMMA TimesCancels ==
  ASSUME NEW a \in Int, NEW b \in Int, NEW c \in Positive, a * c <= b * c
  PROVE  a <= b
  <1>1. SUFFICES ASSUME b + 1 <= a PROVE FALSE
    BY SMT
  <1>2. (b + 1) * c <= a * c
    BY <1>1, TimesKeepsOrder DEF Positive
  <1>3. (b + 1) * c = b * c + c
    BY SMT DEF Positive
  <1> QED
    BY <1>2, <1>3, a * c \in Int, b * c \in Int, SMT DEF Positive

(***************************************************************************)
(* The largest score decides for all of them: if a score that is at least  *)
(* as large meets the limit, so does this one. This is why the store, which*)
(* keeps only the largest score of a run, can check the verdict of a gate  *)
(* that saw every callable (store.py:1173).                                *)
(***************************************************************************)
THEOREM MaximumDecides ==
  ASSUME NEW x \in [num : Nat, den : Positive], NEW y \in [num : Nat, den : Positive],
         NEW max \in [num : Nat, den : Positive],
         AtMost(x, y), CrapPasses(y.num, y.den, max)
  PROVE  CrapPasses(x.num, x.den, max)
  <1> DEFINE xn == x.num  xd == x.den  yn == y.num  yd == y.den  mn == max.num  md == max.den
  <1>1. /\ xn \in Nat /\ yn \in Nat /\ mn \in Nat
        /\ xd \in Positive /\ yd \in Positive /\ md \in Positive
    OBVIOUS
  <1>2. xn * yd <= yn * xd /\ yn * md <= mn * yd
    BY DEF AtMost, CrapPasses
  <1> HIDE DEF xn, xd, yn, yd, mn, md
  <1>3. xn * yd * md <= yn * xd * md
    BY <1>1, <1>2, TimesKeepsOrder, xn * yd \in Int, yn * xd \in Int DEF Positive
  <1>4. yn * md * xd <= mn * yd * xd
    BY <1>1, <1>2, TimesKeepsOrder, yn * md \in Int, mn * yd \in Int DEF Positive
  <1>5. (xn * md) * yd <= (mn * xd) * yd
    <2>1. xn * yd * md = (xn * md) * yd /\ mn * yd * xd = (mn * xd) * yd
          /\ yn * xd * md = yn * md * xd
      BY <1>1, SMT DEF Positive
    <2>2. (xn * md) * yd \in Int /\ (mn * xd) * yd \in Int /\ yn * md * xd \in Int
      BY <1>1, SMT DEF Positive
    <2> QED
      BY <1>3, <1>4, <2>1, <2>2, SMT
  <1>6. xn * md <= mn * xd
    BY <1>1, <1>5, TimesCancels, xn * md \in Int, mn * xd \in Int DEF Positive
  <1> QED
    BY <1>6 DEF CrapPasses, xn, xd, mn, md

(***************************************************************************)
(* A score does not depend on the form of its fraction: what the gate      *)
(* decides for a fraction it decides for every multiple of it, as for the  *)
(* one in lowest terms that is stored (crap.py, gate.py).                  *)
(***************************************************************************)
THEOREM FormDoesNotMatter ==
  ASSUME NEW n \in Nat, NEW d \in Positive, NEW k \in Positive,
         NEW max \in [num : Nat, den : Positive]
  PROVE  CrapPasses(k * n, k * d, max) <=> CrapPasses(n, d, max)
  <1> DEFINE mn == max.num  md == max.den  a == n * md  b == mn * d
  <1>1. mn \in Nat /\ md \in Positive
    OBVIOUS
  <1> HIDE DEF mn, md
  <1>2. a \in Int /\ b \in Int
    BY <1>1, SMT DEF Positive
  <1>3. (k * n) * md = a * k /\ mn * (k * d) = b * k
    BY <1>1, SMT DEF Positive
  <1> HIDE DEF a, b
  <1>4. a * k <= b * k <=> a <= b
    BY <1>2, TimesKeepsOrder, TimesCancels DEF Positive
  <1> QED
    BY <1>3, <1>4 DEF CrapPasses, mn, md, a, b

(***************************************************************************)
(* A minimum of 100 percent asks for every mutant, as the comment of       *)
(* _gate_reason says (mutation.py:180).                                    *)
(***************************************************************************)
THEOREM AllMeansAll ==
  ASSUME NEW killed \in Nat, NEW inScope \in Nat, killed <= inScope
  PROVE  KillRatePasses(killed, inScope, [num |-> 100, den |-> 1]) <=> killed = inScope
  BY SMT DEF KillRatePasses

(***************************************************************************)
(* A printed number is nearest to its fraction: it is at most half a unit  *)
(* away, and exactly half only if it is even (rendering.py:15).            *)
(***************************************************************************)
THEOREM RenderingIsNearest ==
  ASSUME NEW n \in Nat, NEW d \in Positive, NEW scale \in Positive
  PROVE  LET u == RenderedUnits(n, d, scale)
         IN  /\ -d <= 2 * (u * d - n * scale) /\ 2 * (u * d - n * scale) <= d
             /\ 2 * (u * d - n * scale) \in {-d, d} => u % 2 = 0
  <1> DEFINE v == n * scale  q == v \div d  r == v % d  u == RenderedUnits(n, d, scale)
  <1>1. v \in Nat
    BY SMT DEF Positive
  <1>2. u = IF 2 * r > d \/ (2 * r = d /\ q % 2 = 1) THEN q + 1 ELSE q
    BY DEF RenderedUnits
  <1> HIDE DEF v, u
  <1>3. q \in Nat /\ r \in 0..(d - 1) /\ v = q * d + r
    BY <1>1, SMT DEF Positive
  <1> HIDE DEF q, r
  <1>4. (q + 1) * d = q * d + d
    BY <1>3, SMT DEF Positive
  <1>5. CASE 2 * r > d \/ (2 * r = d /\ q % 2 = 1)
    <2>1. u = q + 1 /\ 2 * (u * d - v) = 2 * d - 2 * r
      BY <1>1, <1>2, <1>3, <1>4, <1>5, q * d \in Int, SMT DEF Positive
    <2>2. 2 * d - 2 * r <= d /\ -d < 2 * d - 2 * r
      BY <1>3, <1>5, SMT DEF Positive
    <2>3. 2 * d - 2 * r = d => (q + 1) % 2 = 0
      BY <1>3, <1>5, SMT DEF Positive
    <2> QED
      BY <2>1, <2>2, <2>3, <1>3, SMT DEF v, u, Positive
  <1>6. CASE ~(2 * r > d \/ (2 * r = d /\ q % 2 = 1))
    <2>1. u = q /\ 2 * (u * d - v) = -(2 * r)
      BY <1>1, <1>2, <1>3, <1>6, q * d \in Int, SMT DEF Positive
    <2>2. 2 * r <= d
      BY <1>3, <1>6, SMT DEF Positive
    <2>3. 2 * r = d => q % 2 = 0
      BY <1>3, <1>6, SMT DEF Positive
    <2> QED
      BY <2>1, <2>2, <2>3, <1>3, SMT DEF v, u, Positive
  <1> QED
    BY <1>5, <1>6

(***************************************************************************)
(* Fractions. A quotient and a remainder are determined by their number, a *)
(* fraction in lowest terms by its value.                                  *)
(***************************************************************************)
LEMMA DivUnique ==
  ASSUME NEW q \in Nat, NEW d \in Positive, NEW r \in 0..(d - 1)
  PROVE  (q * d + r) \div d = q /\ (q * d + r) % d = r
  <1> DEFINE v == q * d + r  s == v \div d  t == v % d
  <1>1. v \in Nat
    BY SMT DEF Positive
  <1>2. v = q * d + r
    OBVIOUS
  <1> HIDE DEF v
  <1>3. s \in Nat /\ t \in 0..(d - 1) /\ v = s * d + t
    BY <1>1, SMT DEF Positive
  <1> HIDE DEF s, t
  <1>4. q * d \in Int /\ s * d \in Int /\ (q + 1) * d = q * d + d /\ (s + 1) * d = s * d + d
    BY <1>3, SMT DEF Positive
  <1>5. ~(q + 1 <= s)
    <2>1. SUFFICES ASSUME q + 1 <= s PROVE FALSE
      OBVIOUS
    <2>2. (q + 1) * d <= s * d
      BY <1>3, <2>1, TimesKeepsOrder DEF Positive
    <2> QED
      BY <1>2, <1>3, <1>4, <2>2, SMT DEF Positive
  <1>6. ~(s + 1 <= q)
    <2>1. SUFFICES ASSUME s + 1 <= q PROVE FALSE
      OBVIOUS
    <2>2. (s + 1) * d <= q * d
      BY <1>3, <2>1, TimesKeepsOrder DEF Positive
    <2> QED
      BY <1>2, <1>3, <1>4, <2>2, SMT DEF Positive
  <1>7. s = q
    BY <1>3, <1>5, <1>6, SMT
  <1>8. t = r
    BY <1>2, <1>3, <1>4, <1>7, SMT DEF Positive
  <1> QED
    BY <1>7, <1>8 DEF s, t, v

LEMMA DivExact ==
  ASSUME NEW q \in Nat, NEW d \in Positive
  PROVE  (q * d) \div d = q /\ (q * d) % d = 0
  <1>1. 0 \in 0..(d - 1) /\ q * d + 0 = q * d
    BY SMT DEF Positive
  <1> QED
    BY <1>1, DivUnique

LEMMA TimesEqual ==
  ASSUME NEW a \in Nat, NEW b \in Nat, NEW c \in Positive, a * c = b * c
  PROVE  a = b
  <1>1. a * c \in Int /\ b * c \in Int
    BY SMT DEF Positive
  <1>2. a <= b /\ b <= a
    BY <1>1, TimesCancels
  <1> QED
    BY <1>2, SMT

Whole(n, d, k) == (n * k) % d = 0

LEMMA FractionIs ==
  ASSUME NEW n \in Nat, NEW d \in Positive
  PROVE  /\ Fraction(n, d) = [num |-> Fraction(n, d).num, den |-> Fraction(n, d).den]
         /\ Fraction(n, d).num \in Nat
         /\ Fraction(n, d).den \in 1..d
         /\ Fraction(n, d).num * d = n * Fraction(n, d).den
         /\ \A h \in 1..(Fraction(n, d).den - 1) : ~Whole(n, d, h)
  <1> DEFINE T == {k \in 1..d : Whole(n, d, k)}
             den == CHOOSE k \in 1..d : Whole(n, d, k) /\ \A h \in 1..(k - 1) : ~Whole(n, d, h)
             num == (n * den) \div d
  <1>1. d \in T
    BY DivExact DEF Whole, Positive
  <1>2. T \in SUBSET Nat /\ T # {}
    BY <1>1
  <1>3. PICK k \in T : \A h \in T : k <= h
    <2> HIDE DEF T
    <2> QED BY <1>2, LeastNumber
  <1>4. k \in 1..d /\ Whole(n, d, k) /\ \A h \in 1..(k - 1) : ~Whole(n, d, h)
    BY <1>3 DEF Positive
  <1>5. den \in 1..d /\ Whole(n, d, den) /\ \A h \in 1..(den - 1) : ~Whole(n, d, h)
    BY <1>4
  <1>6. Fraction(n, d) = [num |-> num, den |-> den]
    BY DEF Fraction, Whole
  <1> HIDE DEF T, den
  <1>7. n * den \in Nat
    BY <1>5, SMT
  <1>8. num \in Nat /\ num * d = n * den
    <2> DEFINE v == n * den
    <2>1. v \in Nat /\ v % d = 0
      BY <1>5, <1>7 DEF Whole
    <2> HIDE DEF v
    <2>2. v \div d \in Nat /\ v = (v \div d) * d + (v % d)
      BY <2>1, SMT DEF Positive
    <2>3. v = (v \div d) * d
      BY <2>1, <2>2, (v \div d) * d \in Int, SMT DEF Positive
    <2> QED BY <2>2, <2>3 DEF v
  <1> QED
    BY <1>5, <1>6, <1>8

LEMMA FractionTyped ==
  ASSUME NEW n \in Nat, NEW d \in Positive
  PROVE  Fraction(n, d) \in Fractions
  <1>1. Fraction(n, d).den \in Positive
    BY FractionIs DEF Positive
  <1> QED
    BY <1>1, FractionIs DEF Fractions

LEMMA FractionIdempotent ==
  ASSUME NEW n \in Nat, NEW d \in Positive
  PROVE  Fraction(Fraction(n, d).num, Fraction(n, d).den) = Fraction(n, d)
  <1> DEFINE x == Fraction(n, d)  num == x.num  den == x.den
             y == Fraction(num, den)  a == y.num  b == y.den
  <1>1. /\ x = [num |-> num, den |-> den] /\ num \in Nat /\ den \in Positive /\ den \in 1..d
        /\ num * d = n * den
        /\ \A h \in 1..(den - 1) : ~Whole(n, d, h)
    BY FractionIs DEF Positive
  <1> HIDE DEF num, den
  <1>2. /\ y = [num |-> a, den |-> b] /\ a \in Nat /\ b \in 1..den
        /\ a * den = num * b
    BY <1>1, FractionIs
  <1> HIDE DEF x, y, a, b
  <1>3. b \in Nat /\ b \in 1..d
    BY <1>1, <1>2, SMT DEF Positive
  <1>4. (a * d) * den = (n * b) * den
    <2>1. (a * d) * den = (a * den) * d
      BY <1>1, <1>2, SMT DEF Positive
    <2>2. (num * b) * d = (num * d) * b
      BY <1>1, <1>3, SMT DEF Positive
    <2>3. (n * den) * b = (n * b) * den
      BY <1>1, <1>3, SMT DEF Positive
    <2> QED
      BY <1>1, <1>2, <2>1, <2>2, <2>3
  <1>5. a * d \in Nat /\ n * b \in Nat
    BY <1>2, <1>3, SMT DEF Positive
  <1>6. a * d = n * b
    BY <1>1, <1>4, <1>5, TimesEqual
  <1>7. Whole(n, d, b)
    BY <1>2, <1>6, DivExact DEF Whole
  <1>8. b = den
    BY <1>1, <1>2, <1>7, SMT DEF Positive
  <1>9. a = num
    BY <1>1, <1>2, <1>8, TimesEqual
  <1> QED
    BY <1>1, <1>2, <1>8, <1>9 DEF x, y, num, den

(***************************************************************************)
(* The order of fractions, and why the form of a fraction decides nothing. *)
(***************************************************************************)
SameRatio(x, y) == x.num * y.den = y.num * x.den

LEMMA RatioDecides ==
  ASSUME NEW x \in Fractions, NEW y \in Fractions, NEW max \in Fractions, SameRatio(x, y)
  PROVE  CrapPasses(x.num, x.den, max) <=> CrapPasses(y.num, y.den, max)
  <1>1. x.num * y.den \in Int /\ y.num * x.den \in Int
    BY SMT DEF Fractions, Positive
  <1>2. AtMost(x, y) /\ AtMost(y, x)
    BY <1>1, SMT DEF SameRatio, AtMost
  <1> QED
    BY <1>2, MaximumDecides DEF Fractions

LEMMA ReducedRatio ==
  ASSUME NEW x \in Fractions
  PROVE  SameRatio(Fraction(x.num, x.den), x)
  BY FractionIs DEF Fractions, SameRatio

LEMMA AtMostTotal ==
  ASSUME NEW x \in Fractions, NEW y \in Fractions
  PROVE  AtMost(x, y) \/ AtMost(y, x)
  <1>1. x.num * y.den \in Int /\ y.num * x.den \in Int
    BY SMT DEF Fractions, Positive
  <1> QED
    BY <1>1, SMT DEF AtMost

LEMMA AtMostTransitive ==
  ASSUME NEW x \in Fractions, NEW y \in Fractions, NEW z \in Fractions,
         AtMost(x, y), AtMost(y, z)
  PROVE  AtMost(x, z)
  <1>1. CrapPasses(y.num, y.den, z)
    BY DEF AtMost, CrapPasses
  <1>2. CrapPasses(x.num, x.den, z)
    BY <1>1, MaximumDecides DEF Fractions
  <1> QED
    BY <1>2 DEF AtMost, CrapPasses

(***************************************************************************)
(* A finite set of fractions has a largest one. The fractions above it are *)
(* a smallest of the sets of fractions above one of them.                  *)
(***************************************************************************)
Above(X, x) == {y \in X : ~AtMost(y, x)}

LEMMA LargestFraction ==
  ASSUME NEW X \in SUBSET Fractions, IsFiniteSet(X), X # {}
  PROVE  \E x \in X : \A y \in X : AtMost(y, x)
  <1> DEFINE R == StrictSubsetOrdering(X)
             T == {Above(X, x) : x \in X}
  <1>1. T \subseteq FiniteSubsetsOf(X) /\ T # {}
    <2>1. \A x \in X : Above(X, x) \in SUBSET X /\ IsFiniteSet(Above(X, x))
      BY FS_Subset DEF Above
    <2> QED BY <2>1 DEF FiniteSubsetsOf
  <1>2. \E S \in T : \A U \in T : <<U, S>> \notin R
    <2> HIDE DEF T, R
    <2>1. IsWellFoundedOn(R, FiniteSubsetsOf(X))
      BY FS_StrictSubsetOrderingWellFounded DEF R
    <2> QED BY <1>1, <2>1, WFMin
  <1>3. PICK x \in X : \A y \in X : <<Above(X, y), Above(X, x)>> \notin R
    BY <1>2
  <1>4. ASSUME NEW y \in X, ~AtMost(y, x)
        PROVE  FALSE
    <2>1. AtMost(x, y) /\ AtMost(y, y)
      BY <1>4, AtMostTotal
    <2>2. ASSUME NEW z \in X, AtMost(z, x)
          PROVE  AtMost(z, y)
      BY <2>1, <2>2, AtMostTransitive
    <2>3. Above(X, y) \subseteq Above(X, x) /\ y \in Above(X, x) /\ y \notin Above(X, y)
      BY <1>4, <2>1, <2>2 DEF Above
    <2>4. Above(X, y) # Above(X, x) /\ Above(X, y) \in SUBSET X /\ Above(X, x) \in SUBSET X
      BY <2>3 DEF Above
    <2>5. <<Above(X, y), Above(X, x)>> \in R
      BY <2>3, <2>4 DEF StrictSubsetOrdering
    <2> QED BY <1>3, <2>5
  <1> QED BY <1>3, <1>4

(***************************************************************************)
(* A threshold that was parsed, printed and parsed again is the same: the  *)
(* reader of the store decides with the limit of the gate.                 *)
(***************************************************************************)
Texts == ThresholdTexts(Nat)

LEMMA TextTyped ==
  ASSUME NEW text \in Texts
  PROVE  /\ text.whole \in Nat
         /\ \/ text.decimals = << >>
            \/ \E a \in 0..9 : text.decimals = <<a>>
            \/ \E a, b \in 0..9 : text.decimals = <<a, b>>
  <1>1. text.whole \in Nat
    BY DEF Texts, ThresholdTexts
  <1>2. PICK k \in 0..2 : text.decimals \in [1..k -> 0..9]
    BY DEF Texts, ThresholdTexts
  <1> DEFINE s == text.decimals
  <1>3. s \in [1..k -> 0..9]
    BY <1>2
  <1> HIDE DEF s
  <1>4. CASE k = 0
    <2>1. s = << >>
      BY <1>3, <1>4, SMT
    <2> QED BY <1>1, <2>1 DEF s
  <1>5. CASE k = 1
    <2>1. s[1] \in 0..9 /\ s = <<s[1]>>
      BY <1>3, <1>5, SMT
    <2> QED BY <1>1, <2>1 DEF s
  <1>6. CASE k = 2
    <2>1. s[1] \in 0..9 /\ s[2] \in 0..9 /\ s = <<s[1], s[2]>>
      BY <1>3, <1>6, SMT
    <2> QED BY <1>1, <2>1 DEF s
  <1>7. k = 0 \/ k = 1 \/ k = 2
    OBVIOUS
  <1> QED BY <1>4, <1>5, <1>6, <1>7

LEMMA ParsedIs ==
  ASSUME NEW text \in Texts
  PROVE  /\ Hundredths(text) \in Nat
         /\ ParseThreshold(text) = Fraction(Hundredths(text), 100)
  <1> DEFINE w == text.whole  s == text.decimals
             digit(k) == IF k \in DOMAIN s THEN s[k] ELSE 0
  <1>1. w \in Nat /\ (s = << >> \/ (\E a \in 0..9 : s = <<a>>) \/ (\E a, b \in 0..9 : s = <<a, b>>))
    BY TextTyped
  <1>2. ParseThreshold(text) = Fraction(100 * w + 10 * digit(1) + digit(2), 100)
    BY DEF ParseThreshold
  <1>3. Hundredths(text) = 100 * w + (IF Len(s) >= 1 THEN 10 * s[1] ELSE 0)
                                   + (IF Len(s) = 2 THEN s[2] ELSE 0)
    BY DEF Hundredths
  <1> HIDE DEF w, s
  <1>4. CASE s = << >>
    <2>1. Len(s) = 0 /\ digit(1) = 0 /\ digit(2) = 0
      BY <1>4
    <2> QED BY <1>1, <1>2, <1>3, <2>1
  <1>5. ASSUME NEW a \in 0..9, s = <<a>>
        PROVE  Hundredths(text) \in Nat /\ ParseThreshold(text) = Fraction(Hundredths(text), 100)
    <2>1. Len(s) = 1 /\ s[1] = a /\ digit(1) = a /\ digit(2) = 0
      BY <1>5
    <2> QED BY <1>1, <1>2, <1>3, <2>1
  <1>6. ASSUME NEW a \in 0..9, NEW b \in 0..9, s = <<a, b>>
        PROVE  Hundredths(text) \in Nat /\ ParseThreshold(text) = Fraction(Hundredths(text), 100)
    <2>1. Len(s) = 2 /\ s[1] = a /\ s[2] = b /\ digit(1) = a /\ digit(2) = b
      BY <1>6
    <2> QED BY <1>1, <1>2, <1>3, <2>1
  <1> QED BY <1>1, <1>4, <1>5, <1>6

LEMMA ParsedTyped ==
  ASSUME NEW text \in Texts
  PROVE  /\ ParseThreshold(text) \in Fractions
         /\ ParseThreshold(text).num * 100 = Hundredths(text) * ParseThreshold(text).den
  <1>1. 100 \in Positive
    BY DEF Positive
  <1> QED BY <1>1, ParsedIs, FractionIs, FractionTyped

LEMMA TextOfParsed ==
  ASSUME NEW text \in Texts
  PROVE  ThresholdText(ParseThreshold(text)) \in Texts
         /\ Hundredths(ThresholdText(ParseThreshold(text))) = Hundredths(text)
  <1> DEFINE v == ParseThreshold(text)  h == Hundredths(text)  c == h % 100  w == h \div 100
             s == IF c = 0 THEN << >>
                  ELSE IF c % 10 = 0 THEN <<c \div 10>> ELSE <<c \div 10, c % 10>>
  <1>1. h \in Nat /\ (v.num * 100) \div v.den = h
    BY ParsedIs, ParsedTyped, DivExact DEF Fractions
  <1>2. ThresholdText(v) = [whole |-> w, decimals |-> s]
    BY <1>1 DEF ThresholdText
  <1> HIDE DEF v, h
  <1>3. w \in Nat /\ c \in 0..99 /\ h = 100 * w + c
    BY <1>1, SMT
  <1> HIDE DEF w, c
  <1>4. c \div 10 \in 0..9 /\ c % 10 \in 0..9 /\ c = 10 * (c \div 10) + (c % 10)
    BY <1>3, SMT
  <1>5. s \in UNION {[1..k -> 0..9] : k \in 0..2}
    <2>1. CASE c = 0
      <3>1. s \in [1..0 -> 0..9]
        BY <2>1
      <3> QED BY <3>1
    <2>2. CASE c # 0 /\ c % 10 = 0
      <3>1. s \in [1..1 -> 0..9]
        BY <1>4, <2>2
      <3> QED BY <3>1
    <2>3. CASE c # 0 /\ c % 10 # 0
      <3>1. s \in [1..2 -> 0..9]
        BY <1>4, <2>3
      <3> QED BY <3>1
    <2> QED BY <2>1, <2>2, <2>3
  <1>6. [whole |-> w, decimals |-> s] \in Texts
    BY <1>3, <1>5 DEF Texts, ThresholdTexts
  <1>7. (IF Len(s) >= 1 THEN 10 * s[1] ELSE 0) + (IF Len(s) = 2 THEN s[2] ELSE 0) = c
    <2>1. CASE c = 0
      BY <2>1
    <2>2. CASE c # 0 /\ c % 10 = 0
      <3>1. Len(s) = 1 /\ s[1] = c \div 10
        BY <2>2
      <3> QED BY <1>3, <1>4, <2>2, <3>1
    <2>3. CASE c # 0 /\ c % 10 # 0
      <3>1. Len(s) = 2 /\ s[1] = c \div 10 /\ s[2] = c % 10
        BY <2>3
      <3> QED BY <1>3, <1>4, <3>1
    <2> QED BY <2>1, <2>2, <2>3
  <1>8. /\ (IF Len(s) >= 1 THEN 10 * s[1] ELSE 0) \in Int
        /\ (IF Len(s) = 2 THEN s[2] ELSE 0) \in Int
    <2>1. CASE c = 0
      BY <2>1
    <2>2. CASE c # 0 /\ c % 10 = 0
      BY <1>4, <2>2
    <2>3. CASE c # 0 /\ c % 10 # 0
      BY <1>4, <2>3
    <2> QED BY <2>1, <2>2, <2>3
  <1> HIDE DEF s
  <1>9. Hundredths([whole |-> w, decimals |-> s]) = h
    BY <1>3, <1>7, <1>8 DEF Hundredths
  <1> QED
    BY <1>2, <1>6, <1>9 DEF v, h

LEMMA ParseRoundTrip ==
  ASSUME NEW text \in Texts
  PROVE  ParseThreshold(ThresholdText(ParseThreshold(text))) = ParseThreshold(text)
  BY TextOfParsed, ParsedIs
------------------------------------------------------------------------------
(***************************************************************************)
(* The scores of the callables. A callable with a score has a line and a   *)
(* score above zero, one without a score has no line.                      *)
(***************************************************************************)
Unknowns == {"coverageFileMissing", "coverageLineAmbiguous", "coverageNoExecutableLines"}

MetricFields == [complexity : Positive, covered : Nat, total : Nat, unknown : Unknowns \cup {""}]

Sensible(m) == IF Known(m) THEN m.total # 0 /\ m.covered <= m.total ELSE m.total = 0

Metrics == {m \in MetricFields : Sensible(m)}

LEMMA MetricTyped ==
  ASSUME NEW m \in Metrics
  PROVE  /\ m.complexity \in Positive /\ m.covered \in Nat /\ m.total \in Nat
         /\ Known(m) => m.total # 0 /\ m.covered <= m.total
         /\ ~Known(m) => m.total = 0
  <1>1. m \in MetricFields /\ Sensible(m)
    BY DEF Metrics
  <1> QED BY <1>1 DEF MetricFields, Sensible

LEMMA MetricMade ==
  ASSUME NEW c \in Positive, NEW k \in Nat, NEW t \in Nat, NEW u \in Unknowns \cup {""},
         IF u = "" THEN t # 0 /\ k <= t ELSE t = 0
  PROVE  [complexity |-> c, covered |-> k, total |-> t, unknown |-> u] \in Metrics
  <1> DEFINE m == [complexity |-> c, covered |-> k, total |-> t, unknown |-> u]
  <1>1. m \in MetricFields
    BY DEF MetricFields
  <1>2. Sensible(m)
    BY DEF Sensible, Known
  <1> QED BY <1>1, <1>2 DEF Metrics

LEMMA CubeTyped ==
  /\ \A n \in Nat : Cubed(n) \in Nat
  /\ \A n \in Positive : Cubed(n) \in Positive
  <1>1. ASSUME NEW n \in Nat PROVE Cubed(n) \in Nat
    BY SMT DEF Cubed
  <1>2. ASSUME NEW n \in Positive PROVE Cubed(n) \in Positive
    <2>1. n * n > 0 /\ n * n \in Nat
      BY SMT DEF Positive
    <2>2. n * n * n > 0 /\ n * n * n \in Nat
      <3> DEFINE s == n * n
      <3>1. s \in Nat /\ s > 0
        BY <2>1
      <3> HIDE DEF s
      <3>2. s * n \in Nat /\ s * n > 0
        BY <3>1, SMT DEF Positive
      <3> QED BY <3>2 DEF s
    <2> QED BY <2>2 DEF Cubed, Positive
  <1> QED BY <1>1, <1>2

LEMMA RiskTyped ==
  ASSUME NEW m \in Metrics, Known(m)
  PROVE  /\ Risk(m) \in Fractions
         /\ Risk(m).num = CrapNumerator(m.complexity, m.covered, m.total)
         /\ Risk(m).den = Cubed(m.total)
         /\ Risk(m).num > 0
  <1> DEFINE c == m.complexity  t == m.total  k == m.covered
             u == Cubed(t - k)  w == Cubed(t)
  <1>1. c \in Positive /\ t \in Positive /\ t - k \in Nat
    BY MetricTyped, SMT DEF Positive
  <1> HIDE DEF c, t, k
  <1>2. u \in Nat /\ w \in Positive
    BY <1>1, CubeTyped
  <1> HIDE DEF u, w
  <1>3. c * c \in Nat
    BY <1>1, SMT DEF Positive
  <1>4. (c * c) * u \in Nat
    BY <1>2, <1>3, SMT
  <1>5. c * w \in Nat /\ c * w > 0
    BY <1>1, <1>2, SMT DEF Positive
  <1>6. (c * c) * u + c * w \in Nat /\ (c * c) * u + c * w > 0
    BY <1>4, <1>5, SMT
  <1>7. Risk(m) = [num |-> (c * c) * u + c * w, den |-> w]
    BY DEF Risk, CrapNumerator, c, t, k, u, w
  <1>8. Risk(m).num = CrapNumerator(m.complexity, m.covered, m.total) /\ Risk(m).den = Cubed(m.total)
    BY DEF Risk
  <1> QED BY <1>2, <1>6, <1>7, <1>8 DEF Fractions

LEMMA ScoreTyped ==
  ASSUME NEW m \in Metrics, Known(m)
  PROVE  /\ Score(m) \in Fractions
         /\ Score(m).num # 0
         /\ Score(m) = Fraction(Score(m).num, Score(m).den)
         /\ SameRatio(Score(m), Risk(m))
  <1> DEFINE x == Risk(m)  y == Score(m)
  <1>1. x \in Fractions /\ x.num > 0 /\ x.num \in Nat /\ x.den \in Positive
    BY RiskTyped DEF Fractions
  <1>2. y = Fraction(x.num, x.den)
    BY DEF Score
  <1> HIDE DEF x, y
  <1>3. y \in Fractions /\ y = Fraction(y.num, y.den) /\ SameRatio(y, x)
    BY <1>1, <1>2, FractionTyped, FractionIdempotent, ReducedRatio
  <1>4. ASSUME y.num = 0 PROVE FALSE
    <2>1. 0 * x.den = x.num * y.den
      BY <1>3, <1>4 DEF SameRatio
    <2>2. y.den \in Positive
      BY <1>3 DEF Fractions
    <2> QED BY <1>1, <2>1, <2>2, SMT DEF Positive
  <1> QED BY <1>3, <1>4 DEF x, y

LEMMA Places ==
  ASSUME metrics \in Seq(Metrics), NEW I \in SUBSET DOMAIN metrics
  PROVE  /\ IsFiniteSet(I) /\ Cardinality(I) \in Nat
         /\ Cardinality(I) <= Len(metrics)
         /\ Cardinality(I) = Len(metrics) <=> I = DOMAIN metrics
         /\ Cardinality(I) = 0 <=> I = {}
  <1>1. Len(metrics) \in Nat /\ DOMAIN metrics = 1..Len(metrics)
    OBVIOUS
  <1>2. IsFiniteSet(1..Len(metrics)) /\ Cardinality(1..Len(metrics)) = Len(metrics)
    <2> DEFINE n == Len(metrics)
    <2>1. n \in Nat /\ 1 \in Int /\ n \in Int
      BY <1>1
    <2> HIDE DEF n
    <2>2. IsFiniteSet(1..n) /\ Cardinality(1..n) = IF 1 > n THEN 0 ELSE n - 1 + 1
      BY <2>1, FS_Interval
    <2> QED BY <2>1, <2>2 DEF n
  <1>3. IsFiniteSet(I) /\ Cardinality(I) \in Nat /\ Cardinality(I) <= Len(metrics)
    BY <1>1, <1>2, FS_Subset, FS_CardinalityType
  <1>4. Cardinality(I) = Len(metrics) <=> I = DOMAIN metrics
    <2>1. Cardinality(I) = Len(metrics) => I = DOMAIN metrics
      BY <1>1, <1>2, FS_Subset
    <2> QED BY <1>1, <1>2, <2>1
  <1> QED BY <1>3, <1>4, FS_EmptySet

LEMMA ScoresTyped ==
  ASSUME metrics \in Seq(Metrics)
  PROVE  /\ Scores \in SUBSET Fractions
         /\ IsFiniteSet(Scores)
         /\ \A x \in Scores : x.num # 0 /\ x = Fraction(x.num, x.den)
  <1> DEFINE I == {k \in DOMAIN metrics : Known(metrics[k])}
             f == [i \in I |-> Score(metrics[i])]
  <1>1. IsFiniteSet(I)
    <2>1. I \in SUBSET DOMAIN metrics
      OBVIOUS
    <2> QED BY <2>1, Places
  <1>2. Scores = {Score(metrics[i]) : i \in I}
    BY DEF Scores
  <1>3. f \in Surjection(I, Scores)
    BY <1>2 DEF Surjection
  <1>4. IsFiniteSet(Scores)
    <2> HIDE DEF I, f
    <2> QED BY <1>1, <1>3, FS_Surjection
  <1>5. ASSUME NEW i \in I
        PROVE  /\ Score(metrics[i]) \in Fractions
               /\ Score(metrics[i]).num # 0
               /\ Score(metrics[i]) = Fraction(Score(metrics[i]).num, Score(metrics[i]).den)
    <2>1. metrics[i] \in Metrics /\ Known(metrics[i])
      OBVIOUS
    <2> QED BY <2>1, ScoreTyped
  <1> HIDE DEF I, f
  <1> QED BY <1>2, <1>4, <1>5

LEMMA MaximumIs ==
  ASSUME metrics \in Seq(Metrics), Scores # {}
  PROVE  Maximum \in Scores /\ \A x \in Scores : AtMost(x, Maximum)
  <1>1. \E x \in Scores : \A y \in Scores : AtMost(y, x)
    BY ScoresTyped, LargestFraction
  <1> QED BY <1>1 DEF Maximum

LEMMA NoScores ==
  ASSUME metrics \in Seq(Metrics)
  PROVE  Scores = {} <=> \A i \in DOMAIN metrics : ~Known(metrics[i])
  BY DEF Scores

(***************************************************************************)
(* The gate passes a callable exactly if its score meets the limit as it   *)
(* was typed.                                                              *)
(***************************************************************************)
LEMMA LimitAsTyped ==
  ASSUME NEW n \in Nat, NEW d \in Positive, NEW text \in Texts
  PROVE  CrapPasses(n, d, ParseThreshold(text)) <=> 100 * n <= Hundredths(text) * d
  <1> DEFINE p == ParseThreshold(text)  h == Hundredths(text)  pn == p.num  pd == p.den
             a == 100 * n  b == h * d
  <1>1. pn \in Nat /\ pd \in Positive /\ h \in Nat /\ pn * 100 = h * pd
    BY ParsedTyped, ParsedIs DEF Fractions
  <1>2. CrapPasses(n, d, p) <=> n * pd <= pn * d
    BY DEF CrapPasses
  <1> HIDE DEF p, h, pn, pd
  <1>3. a \in Int /\ b \in Int /\ n * pd \in Int /\ pn * d \in Int
    BY <1>1, SMT DEF Positive
  <1>4. a * pd = 100 * (n * pd) /\ b * pd = 100 * (pn * d)
    <2>1. a * pd = 100 * (n * pd)
      BY <1>1, SMT DEF Positive
    <2>2. (h * d) * pd = (h * pd) * d
      BY <1>1, SMT DEF Positive
    <2>3. (pn * 100) * d = 100 * (pn * d)
      BY <1>1, SMT DEF Positive
    <2> QED BY <1>1, <2>1, <2>2, <2>3
  <1> HIDE DEF a, b
  <1>5. a * pd <= b * pd <=> a <= b
    BY <1>1, <1>3, TimesKeepsOrder, TimesCancels DEF Positive
  <1>6. a * pd <= b * pd <=> n * pd <= pn * d
    BY <1>3, <1>4, SMT
  <1> QED BY <1>2, <1>5, <1>6 DEF p, h, a, b

LEMMA MinimumAsTyped ==
  ASSUME NEW killed \in Nat, NEW inScope \in Nat, NEW text \in Texts
  PROVE  KillRatePasses(killed, inScope, ParseThreshold(text))
           <=> 10000 * killed >= Hundredths(text) * inScope
  <1> DEFINE p == ParseThreshold(text)  h == Hundredths(text)  pn == p.num  pd == p.den
             a == 10000 * killed  b == h * inScope  kp == killed * 100 * pd  np == pn * inScope
  <1>1. pn \in Nat /\ pd \in Positive /\ h \in Nat /\ pn * 100 = h * pd
    BY ParsedTyped, ParsedIs DEF Fractions
  <1>2. KillRatePasses(killed, inScope, p) <=> kp >= np
    BY DEF KillRatePasses
  <1> HIDE DEF p, h, pn, pd
  <1>3. a \in Int /\ b \in Int /\ kp \in Int /\ np \in Int
    BY <1>1, SMT DEF Positive
  <1>4. a * pd = 100 * kp /\ b * pd = 100 * np
    <2>1. a * pd = 100 * kp
      BY <1>1, SMT DEF Positive
    <2>2. (h * inScope) * pd = (h * pd) * inScope
      BY <1>1, SMT DEF Positive
    <2>3. (pn * 100) * inScope = 100 * (pn * inScope)
      BY <1>1, SMT DEF Positive
    <2> QED BY <1>1, <2>1, <2>2, <2>3
  <1> HIDE DEF a, b, kp, np
  <1>5. b * pd <= a * pd <=> b <= a
    BY <1>1, <1>3, TimesKeepsOrder, TimesCancels DEF Positive
  <1>6. b * pd <= a * pd <=> np <= kp
    BY <1>3, <1>4, SMT
  <1>7. (kp >= np <=> np <= kp) /\ (a >= b <=> b <= a)
    BY <1>3, SMT
  <1> QED BY <1>2, <1>5, <1>6, <1>7 DEF p, h, a, b
------------------------------------------------------------------------------
(***************************************************************************)
(* The two gates on the numbers, the component in the store and the check  *)
(* of its reader.                                                          *)
(***************************************************************************)
Counts == [killed : Nat, survived : Nat, other : Nat]

Limits == [crapMax : CrapMaxTexts, mutationMin : MutationMinTexts]

Numbers == metrics \in Seq(Metrics) /\ counts \in Counts

LEMMA LimitsTyped ==
  ASSUME NEW texts \in Limits
  PROVE  /\ texts.crapMax \in Texts /\ IsCrapMax(ParseThreshold(texts.crapMax))
         /\ texts.mutationMin \in Texts /\ IsMutationMin(ParseThreshold(texts.mutationMin))
  BY QualityAssumption DEF Limits, Texts

LEMMA CrapDecided ==
  ASSUME Numbers, NEW text \in Texts
  PROVE  CrapReason(ParseThreshold(text)) = "passed"
           <=> /\ metrics # << >>
               /\ \A i \in DOMAIN metrics : Passes(metrics[i], ParseThreshold(text))
  <1>1. \A i \in DOMAIN metrics : Passes(metrics[i], ParseThreshold(text)) => Known(metrics[i])
    BY DEF Passes
  <1> QED BY <1>1 DEF CrapReason

LEMMA CrapDecidedRight ==
  ASSUME Numbers, limits \in Limits
  PROVE  CrapReason(ParseThreshold(limits.crapMax)) = "passed" <=> CrapEarned
  <1> DEFINE text == limits.crapMax
             Met(m) == /\ m.total > 0
                       /\ 100 * CrapNumerator(m.complexity, m.covered, m.total)
                            <= Hundredths(text) * Cubed(m.total)
  <1>1. text \in Texts
    BY LimitsTyped
  <1>2. ASSUME NEW m \in Metrics
        PROVE  Passes(m, ParseThreshold(text)) <=> Met(m)
    <2>1. CASE Known(m)
      <3>1. m.total > 0
        BY <2>1, MetricTyped
      <3>2. /\ Risk(m).num \in Nat /\ Risk(m).den \in Positive
            /\ Risk(m).num = CrapNumerator(m.complexity, m.covered, m.total)
            /\ Risk(m).den = Cubed(m.total)
        BY <2>1, RiskTyped DEF Fractions
      <3>3. CrapPasses(Risk(m).num, Risk(m).den, ParseThreshold(text))
              <=> 100 * Risk(m).num <= Hundredths(text) * Risk(m).den
        BY <1>1, <3>2, LimitAsTyped
      <3> QED BY <2>1, <3>1, <3>2, <3>3 DEF Passes
    <2>2. CASE ~Known(m)
      BY <2>2, MetricTyped DEF Passes
    <2> QED BY <2>1, <2>2
  <1>3. \A i \in DOMAIN metrics : metrics[i] \in Metrics
    BY DEF Numbers
  <1>4. CrapEarned <=> metrics # << >> /\ \A i \in DOMAIN metrics : Met(metrics[i])
    BY DEF CrapEarned, CrapNumerator
  <1> HIDE DEF Met, text
  <1>5. CrapReason(ParseThreshold(text)) = "passed"
           <=> metrics # << >> /\ \A i \in DOMAIN metrics : Met(metrics[i])
    BY <1>1, <1>2, <1>3, CrapDecided
  <1> QED BY <1>4, <1>5 DEF text

LEMMA InScopeTyped ==
  ASSUME Numbers
  PROVE  InScope \in Nat /\ counts.killed \in Nat /\ counts.killed <= InScope
         /\ counts.survived \in Nat /\ counts.other \in Nat
  BY DEF Numbers, Counts, InScope

LEMMA MutationDecidedRight ==
  ASSUME Numbers, limits \in Limits
  PROVE  MutationReason(ParseThreshold(limits.mutationMin)) = "passed" <=> MutationEarned
  <1>1. KillRatePasses(counts.killed, InScope, ParseThreshold(limits.mutationMin))
          <=> 10000 * counts.killed >= Hundredths(limits.mutationMin) * InScope
    BY InScopeTyped, LimitsTyped, MinimumAsTyped
  <1>2. InScope = 0 <=> ~(InScope > 0)
    BY InScopeTyped
  <1> QED BY <1>1, <1>2 DEF MutationReason, MutationEarned

LEMMA JudgedRight ==
  ASSUME Numbers, limits \in Limits, NEW name \in {"crap", "mutation"}
  PROVE  /\ Reason(name, limits) = "passed" <=> Earned(name)
         /\ Component(name, limits).pass <=> Reason(name, limits) = "passed"
  BY CrapDecidedRight, MutationDecidedRight
  DEF Reason, Component, CrapComponent, MutationComponent, Earned

(***************************************************************************)
(* The reader of the store, which sees only the largest score, agrees.     *)
(***************************************************************************)
LEMMA MaximumAgrees ==
  ASSUME Numbers, NEW text \in Texts, metrics # << >>,
         \A i \in DOMAIN metrics : Known(metrics[i])
  PROVE  CrapPasses(Maximum.num, Maximum.den, ParseThreshold(text))
           <=> \A i \in DOMAIN metrics : Passes(metrics[i], ParseThreshold(text))
  <1> DEFINE max == ParseThreshold(text)
  <1>1. max \in Fractions
    BY ParsedTyped
  <1> HIDE DEF max
  <1>2. Scores # {}
    BY NoScores DEF Numbers
  <1>3. Maximum \in Scores /\ Maximum \in Fractions
        /\ \A x \in Scores : x \in Fractions /\ AtMost(x, Maximum)
    BY <1>2, MaximumIs, ScoresTyped DEF Numbers
  <1>4. ASSUME NEW i \in DOMAIN metrics
        PROVE  /\ Score(metrics[i]) \in Scores
               /\ Passes(metrics[i], max)
                    <=> CrapPasses(Score(metrics[i]).num, Score(metrics[i]).den, max)
    <2>1. metrics[i] \in Metrics /\ Known(metrics[i])
      BY DEF Numbers
    <2>2. Score(metrics[i]) \in Fractions /\ Risk(metrics[i]) \in Fractions
          /\ SameRatio(Score(metrics[i]), Risk(metrics[i]))
      BY <2>1, ScoreTyped, RiskTyped
    <2> QED BY <1>1, <2>1, <2>2, RatioDecides DEF Passes, Scores
  <1>5. ASSUME CrapPasses(Maximum.num, Maximum.den, max), NEW i \in DOMAIN metrics
        PROVE  Passes(metrics[i], max)
    <2> DEFINE x == Score(metrics[i])
    <2>1. x \in Fractions /\ AtMost(x, Maximum)
      BY <1>3, <1>4
    <2> HIDE DEF x
    <2>2. CrapPasses(x.num, x.den, max)
      BY <1>1, <1>3, <1>5, <2>1, MaximumDecides DEF Fractions
    <2> QED BY <1>4, <2>2 DEF x
  <1>6. ASSUME \A i \in DOMAIN metrics : Passes(metrics[i], max)
        PROVE  CrapPasses(Maximum.num, Maximum.den, max)
    <2>1. PICK i \in DOMAIN metrics : Maximum = Score(metrics[i])
      BY <1>3 DEF Scores
    <2> QED BY <1>4, <1>6, <2>1
  <1> QED BY <1>5, <1>6 DEF max

LEMMA ReaderTakesCrap ==
  ASSUME Numbers, NEW text \in Texts, IsCrapMax(ParseThreshold(text))
  PROVE  ValidCrap(CrapComponent(ParseThreshold(text)))
  <1> DEFINE max == ParseThreshold(text)  v == CrapComponent(max)
             U == {i \in DOMAIN metrics : ~Known(metrics[i])}
             zero == [num |-> 0, den |-> 1]
  <1>1. /\ v.callableCount = Len(metrics) /\ v.crapMax = ThresholdText(max) /\ v.max = Maximum
        /\ v.pass <=> CrapReason(max) = "passed"
        /\ v.unknownCount = Cardinality(U)
    BY DEF CrapComponent
  <1>2. ParseThreshold(v.crapMax) = max
    BY <1>1, ParseRoundTrip
  <1>3. /\ Cardinality(U) \in Nat /\ Cardinality(U) <= Len(metrics)
        /\ Cardinality(U) = Len(metrics) <=> U = DOMAIN metrics
        /\ Cardinality(U) = 0 <=> U = {}
    BY Places DEF Numbers
  <1>4. Len(metrics) \in Nat /\ (metrics = << >> <=> Len(metrics) = 0)
    BY DEF Numbers
  <1>5. U = DOMAIN metrics <=> Scores = {}
    BY NoScores DEF Numbers
  <1>6. U = DOMAIN metrics <=> v.max = zero
    <2>1. CASE Scores = {}
      BY <1>1, <1>5, <2>1 DEF Maximum
    <2>2. CASE Scores # {}
      <3>1. Maximum.num # 0
        BY <2>2, MaximumIs, ScoresTyped DEF Numbers
      <3> QED BY <1>1, <1>5, <2>2, <3>1
    <2> QED BY <2>1, <2>2
  <1>7. v.max = Fraction(v.max.num, v.max.den)
    <2>1. CASE Scores = {}
      <3>1. Maximum = zero
        BY <2>1 DEF Maximum
      <3>2. Fraction(0, 1).den = 1 /\ Fraction(0, 1).num * 1 = 0 * Fraction(0, 1).den
            /\ Fraction(0, 1).num \in Nat
            /\ Fraction(0, 1) = [num |-> Fraction(0, 1).num, den |-> Fraction(0, 1).den]
        <4>1. 0 \in Nat /\ 1 \in Positive /\ \A den \in 1..1 : den = 1
          BY DEF Positive
        <4>2. Fraction(0, 1).den \in 1..1
          BY <4>1, FractionIs
        <4> QED BY <4>1, <4>2, FractionIs
      <3>3. Fraction(0, 1) = zero
        BY <3>2
      <3> QED BY <1>1, <3>1, <3>3
    <2>2. CASE Scores # {}
      BY <1>1, <2>2, MaximumIs, ScoresTyped DEF Numbers
    <2> QED BY <2>1, <2>2
  <1>8. v.pass <=> /\ v.callableCount > 0 /\ v.unknownCount = 0
                   /\ CrapPasses(v.max.num, v.max.den, max)
    <2>1. CASE metrics = << >> \/ U # {}
      <3>1. ~(v.callableCount > 0 /\ v.unknownCount = 0)
        BY <1>1, <1>3, <1>4, <2>1
      <3>2. CrapReason(max) # "passed"
        BY <2>1 DEF CrapReason
      <3> QED BY <1>1, <3>1, <3>2
    <2>2. CASE metrics # << >> /\ U = {}
      <3>1. v.callableCount > 0 /\ v.unknownCount = 0
        BY <1>1, <1>3, <1>4, <2>2
      <3>2. CrapPasses(Maximum.num, Maximum.den, max)
              <=> \A i \in DOMAIN metrics : Passes(metrics[i], max)
        BY <2>2, MaximumAgrees
      <3> QED BY <1>1, <2>2, <3>1, <3>2, CrapDecided
    <2> QED BY <2>1, <2>2
  <1> HIDE DEF v, max, U
  <1> QED BY <1>1, <1>2, <1>3, <1>6, <1>7, <1>8 DEF ValidCrap, max, v

LEMMA ReaderTakesMutation ==
  ASSUME Numbers, NEW text \in Texts, IsMutationMin(ParseThreshold(text))
  PROVE  ValidMutation(MutationComponent(ParseThreshold(text)))
  <1>1. ParseThreshold(ThresholdText(ParseThreshold(text))) = ParseThreshold(text)
    BY ParseRoundTrip
  <1>2. InScope = 0 <=> ~(InScope > 0)
    BY InScopeTyped
  <1> QED BY <1>1, <1>2 DEF ValidMutation, MutationComponent, MutationReason, InScope
------------------------------------------------------------------------------
(***************************************************************************)
(* The invariant: what was measured makes sense, and the run record and    *)
(* the document are those of the numbers at hand.                          *)
(***************************************************************************)
Callables == UNION {CallableAt(n) : n \in Nat}

Typed ==
  /\ <<command, mode>> \in Commands
  /\ file \in Seq(Callables)
  /\ Numbers

RunOfNumbers ==
  step = "commit" \/ doc # NotYet =>
    limits \in Limits /\ \E now \in Times : run = Verdict(limits, now)

DocumentOfRun ==
  doc # NotYet =>
    step = "end" /\ exit = run.status /\ \E now \in Times : doc = Document(now)

QualityInv == Typed /\ RunOfNumbers /\ DocumentOfRun

LEMMA CountsTyped ==
  ASSUME NEW entry \in Entries \cup {NoEntry}, NEW i \in DOMAIN file,
         NEW c \in Positive
  PROVE  Metric(c, CoverageCounts(file, i, entry)) \in Metrics
  <1> DEFINE owned == OwnedLines(file, i, entry.reported)
             both == owned \cap entry.executed
             n == CoverageCounts(file, i, entry)
             none(reason) == [covered |-> 0, total |-> 0, unknown |-> reason]
  <1>1. owned \in SUBSET Line
    <2>1. entry.reported \in SUBSET Line
      <3>1. CASE entry = NoEntry
        BY <3>1 DEF NoEntry
      <3>2. CASE entry \in Entries
        BY <3>2 DEF Entries
      <3> QED BY <3>1, <3>2
    <2> QED BY <2>1 DEF OwnedLines
  <1>2. IsFiniteSet(Line)
    BY LinesAssumption, FS_Interval DEF Line
  <1>3. IsFiniteSet(owned) /\ Cardinality(owned) \in Nat /\ (Cardinality(owned) = 0 <=> owned = {})
    <2> HIDE DEF owned
    <2> QED BY <1>1, <1>2, FS_Subset, FS_CardinalityType, FS_EmptySet
  <1>4. Cardinality(both) \in Nat /\ Cardinality(both) <= Cardinality(owned)
    <2>1. both \in SUBSET owned
      OBVIOUS
    <2> HIDE DEF owned, both
    <2> QED BY <1>3, <2>1, FS_Subset, FS_CardinalityType
  <1>5. \/ \E reason \in Unknowns :
             n = none(reason)
        \/ owned # {} /\ n = [covered |-> Cardinality(both), total |-> Cardinality(owned), unknown |-> ""]
    BY DEF CoverageCounts, Unknowns
  <1> HIDE DEF owned, both, n
  <1>6. CASE \E reason \in Unknowns :
               n = none(reason)
    <2>1. PICK reason \in Unknowns :
            n = none(reason)
      BY <1>6
    <2>2. Metric(c, n) = [complexity |-> c, covered |-> 0, total |-> 0, unknown |-> reason]
      BY <2>1 DEF Metric
    <2>3. reason # "" /\ reason \in Unknowns
      BY <2>1 DEF Unknowns
    <2>4. [complexity |-> c, covered |-> 0, total |-> 0, unknown |-> reason] \in Metrics
      BY <2>3, MetricMade
    <2> QED BY <2>2, <2>4 DEF n
  <1>7. CASE owned # {} /\ n = [covered |-> Cardinality(both), total |-> Cardinality(owned), unknown |-> ""]
    <2>1. Metric(c, n) = [complexity |-> c, covered |-> Cardinality(both),
                          total |-> Cardinality(owned), unknown |-> ""]
      BY <1>7 DEF Metric
    <2>2. [complexity |-> c, covered |-> Cardinality(both),
           total |-> Cardinality(owned), unknown |-> ""] \in Metrics
      BY <1>3, <1>4, <1>7, MetricMade
    <2> QED BY <2>1, <2>2 DEF n
  <1> QED BY <1>5, <1>6, <1>7

(***************************************************************************)
(* What the verdict is about does not change once it is given.             *)
(***************************************************************************)
LEMMA VerdictStands ==
  ASSUME UNCHANGED <<command, metrics, counts>>, NEW texts, NEW now
  PROVE  Verdict(texts, now)' = Verdict(texts, now)
  <1>1. Judged' = Judged
    BY DEF Judged
  <1>2. InScope' = InScope
    BY DEF InScope
  <1>3. ASSUME NEW max
        PROVE  CrapReason(max)' = CrapReason(max)
    BY DEF CrapReason
  <1>4. ASSUME NEW min
        PROVE  MutationReason(min)' = MutationReason(min)
    BY <1>2 DEF MutationReason
  <1>5. Scores' = Scores
    BY DEF Scores
  <1>6. Maximum' = Maximum
    BY <1>5 DEF Maximum
  <1>7. ASSUME NEW max
        PROVE  CrapComponent(max)' = CrapComponent(max)
    BY <1>3, <1>6 DEF CrapComponent
  <1>8. ASSUME NEW min
        PROVE  MutationComponent(min)' = MutationComponent(min)
    BY <1>2, <1>4 DEF MutationComponent
  <1>9. ASSUME NEW i
        PROVE  MetricFinding(i)' = MetricFinding(i)
    BY DEF MetricFinding
  <1>10. ASSUME NEW max
         PROVE  CrapFindings(max)' = CrapFindings(max)
    BY <1>9 DEF CrapFindings
  <1>11. MutationFindings' = MutationFindings
    BY <1>2 DEF MutationFindings
  <1>12. ASSUME NEW name
         PROVE  /\ Reason(name, texts)' = Reason(name, texts)
                /\ Component(name, texts)' = Component(name, texts)
                /\ Findings(name, texts)' = Findings(name, texts)
    BY <1>3, <1>4, <1>7, <1>8, <1>10, <1>11 DEF Reason, Component, Findings
  <1> QED BY <1>1, <1>12 DEF Verdict

LEMMA DocumentStands ==
  ASSUME UNCHANGED <<mode, run>>, NEW now
  PROVE  Document(now)' = Document(now)
  <1>1. Codes' = Codes
    BY DEF Codes
  <1>2. Certified(run.status, run.components)' = Certified(run.status, run.components)
    BY DEF Certified
  <1> QED BY <1>1, <1>2 DEF Document
------------------------------------------------------------------------------
LEMMA QualityInit == Init => QualityInv
  <1> SUFFICES ASSUME Init PROVE QualityInv
    OBVIOUS
  <1>1. <<command, mode>> \in Commands
    BY DEF Init, Commands
  <1>2. file \in Seq(Callables) /\ metrics \in Seq(Metrics)
    BY DEF Init
  <1>3. counts \in Counts
    BY DEF Init, Counts
  <1>4. step # "commit" /\ doc = NotYet
    BY DEF Init
  <1> QED
    BY <1>1, <1>2, <1>3, <1>4 DEF QualityInv, Typed, Numbers, RunOfNumbers, DocumentOfRun

\* A step that leaves the verdict and what it is about alone.
LEMMA NothingJudged ==
  ASSUME QualityInv, Typed', doc' = NotYet, step' # "commit"
  PROVE  QualityInv'
  BY DEF QualityInv, RunOfNumbers, DocumentOfRun, NotYet

LEMMA NotJudgedYet ==
  ASSUME QualityInv, step # "end"
  PROVE  doc = NotYet
  BY DEF QualityInv, DocumentOfRun

LEMMA MeasuringKeeps ==
  ASSUME QualityInv
  PROVE  /\ NextCallable => QualityInv'
         /\ MeasureSource => QualityInv'
         /\ ReportFails \/ AnalysisFails => QualityInv'
         /\ SelectMetrics => QualityInv'
         /\ Mutate => QualityInv'
  <1>0. /\ <<command, mode>> \in Commands /\ file \in Seq(Callables)
        /\ metrics \in Seq(Metrics) /\ counts \in Counts
    BY DEF QualityInv, Typed, Numbers
  <1>1. ASSUME NextCallable
        PROVE  QualityInv'
    <2>1. PICK c \in CallableAt(Len(file)) : file' = Append(file, c)
      BY <1>1 DEF NextCallable
    <2>2. file' \in Seq(Callables)
      BY <1>0, <2>1 DEF Callables
    <2>3. Typed'
      BY <1>0, <1>1, <2>2 DEF NextCallable, Typed, Numbers
    <2>4. doc' = NotYet /\ step' # "commit"
      BY <1>1, NotJudgedYet DEF NextCallable
    <2> QED BY <2>3, <2>4, NothingJudged
  <1>2. ASSUME MeasureSource
        PROVE  QualityInv'
    <2>1. PICK n \in {CountsOf(entry) : entry \in Entries \cup {NoEntry}},
               complexity \in [DOMAIN file -> 1..MaxComplexity] :
            metrics' = metrics \o [i \in DOMAIN file |-> Metric(complexity[i], n[i])]
      BY <1>2 DEF MeasureSource
    <2>2. PICK entry \in Entries \cup {NoEntry} : n = CountsOf(entry)
      OBVIOUS
    <2> DEFINE new == [i \in DOMAIN file |-> Metric(complexity[i], n[i])]
    <2>3. ASSUME NEW i \in DOMAIN file
          PROVE  Metric(complexity[i], n[i]) \in Metrics
      <3>1. n[i] = CoverageCounts(file, i, entry)
        BY <2>2 DEF CountsOf
      <3>2. complexity[i] \in Positive
        BY QualityAssumption DEF Positive
      <3> QED BY <3>1, <3>2, CountsTyped
    <2>4. new \in Seq(Metrics)
      <3>1. DOMAIN file = 1..Len(file) /\ Len(file) \in Nat
        BY <1>0
      <3>2. new \in [1..Len(file) -> Metrics]
        BY <2>3, <3>1
      <3> HIDE DEF new
      <3> QED BY <3>1, <3>2
    <2>5. metrics' \in Seq(Metrics)
      <3> HIDE DEF new
      <3>1. metrics \o new \in Seq(Metrics)
        BY <1>0, <2>4
      <3> QED BY <2>1, <3>1 DEF new
    <2>6. file' = << >> /\ UNCHANGED <<command, mode, step, counts, doc>>
      BY <1>2 DEF MeasureSource
    <2>7. Typed'
      BY <1>0, <2>5, <2>6 DEF Typed, Numbers
    <2>8. doc' = NotYet /\ step' # "commit"
      BY <1>2, <2>6, NotJudgedYet DEF MeasureSource
    <2> QED BY <2>7, <2>8, NothingJudged
  <1>3. ASSUME ReportFails \/ AnalysisFails
        PROVE  QualityInv'
    <2>1. /\ step = "measure" /\ step' = "end"
          /\ UNCHANGED <<command, mode, file, metrics, counts, doc>>
      BY <1>3 DEF ReportFails, AnalysisFails, Fail
    <2>2. Typed'
      BY <1>0, <2>1 DEF Typed, Numbers
    <2> QED BY <2>1, <2>2, NothingJudged, NotJudgedYet
  <1>4. ASSUME SelectMetrics
        PROVE  QualityInv'
    <2>1. /\ step = "measure" /\ step' \in {"mutants", "judge"}
          /\ UNCHANGED <<command, mode, file, counts, doc>>
      BY <1>4 DEF SelectMetrics
    <2>2. PICK kept \in SUBSET DOMAIN metrics : \E order \in [1..Cardinality(kept) -> kept] :
            metrics' = [k \in DOMAIN order |-> metrics[order[k]]]
      BY <1>4 DEF SelectMetrics
    <2>3. PICK order \in [1..Cardinality(kept) -> kept] :
            metrics' = [k \in DOMAIN order |-> metrics[order[k]]]
      BY <2>2
    <2>4. Cardinality(kept) \in Nat
      BY <1>0, Places
    <2>5. metrics' \in [1..Cardinality(kept) -> Metrics]
      BY <1>0, <2>3
    <2>6. metrics' \in Seq(Metrics)
      BY <2>4, <2>5
    <2>7. Typed'
      BY <1>0, <2>1, <2>6 DEF Typed, Numbers
    <2> QED BY <2>1, <2>7, NothingJudged, NotJudgedYet
  <1>5. ASSUME Mutate
        PROVE  QualityInv'
    <2>1. /\ step = "mutants" /\ step' = "judge"
          /\ UNCHANGED <<command, mode, file, metrics, doc>>
          /\ counts' \in [killed : 0..MaxMutants, survived : 0..MaxMutants, other : 0..MaxMutants]
      BY <1>5 DEF Mutate
    <2>2. counts' \in Counts
      BY <2>1, QualityAssumption DEF Counts
    <2>3. Typed'
      BY <1>0, <2>1, <2>2 DEF Typed, Numbers
    <2> QED BY <2>1, <2>3, NothingJudged, NotJudgedYet
  <1> QED BY <1>1, <1>2, <1>3, <1>4, <1>5

LEMMA JudgingKeeps ==
  ASSUME QualityInv, NEW texts \in Limits, NEW now \in Times, Judge(texts, now)
  PROVE  QualityInv'
  <1>1. /\ step = "judge" /\ step' = "commit" /\ limits' = texts /\ run' = Verdict(texts, now)
        /\ UNCHANGED <<command, mode, file, metrics, counts, doc>>
    BY DEF Judge
  <1>2. Typed'
    BY <1>1 DEF QualityInv, Typed, Numbers
  <1>3. doc' = NotYet
    BY <1>1, NotJudgedYet
  <1>4. limits' \in Limits
    BY <1>1
  <1>5. Verdict(texts, now)' = Verdict(texts, now)
    BY <1>1, VerdictStands
  <1>6. RunOfNumbers'
    BY <1>1, <1>4, <1>5 DEF RunOfNumbers
  <1> QED BY <1>2, <1>3, <1>6 DEF QualityInv, DocumentOfRun

LEMMA CommittingKeeps ==
  ASSUME QualityInv, NEW now \in Times, Commit(now)
  PROVE  QualityInv'
  <1>1. /\ step = "commit" /\ step' = "end"
        /\ UNCHANGED <<command, mode, file, metrics, counts, limits, run>>
        /\ \/ doc' = Document(now) /\ exit' = run.status
           \/ doc' = doc
    BY DEF Commit, Fail
  <1>2. Typed'
    BY <1>1 DEF QualityInv, Typed, Numbers
  <1>3. PICK t \in Times : limits \in Limits /\ run = Verdict(limits, t)
    BY <1>1 DEF QualityInv, RunOfNumbers
  <1>4. doc = NotYet
    BY <1>1, NotJudgedYet
  <1>5. ASSUME NEW texts
        PROVE  Verdict(texts, t)' = Verdict(texts, t)
    BY <1>1, VerdictStands
  <1>6. RunOfNumbers'
    BY <1>1, <1>3, <1>5 DEF RunOfNumbers
  <1>7. Document(now)' = Document(now)
    BY <1>1, DocumentStands
  <1>8. DocumentOfRun'
    BY <1>1, <1>4, <1>7 DEF DocumentOfRun, NotYet
  <1> QED BY <1>2, <1>6, <1>8 DEF QualityInv

LEMMA StutteringKeeps ==
  ASSUME QualityInv, UNCHANGED vars
  PROVE  QualityInv'
  <1>1. UNCHANGED <<command, mode, step, file, metrics, counts, limits, run, doc, exit>>
    BY DEF vars
  <1>2. Typed'
    BY <1>1 DEF QualityInv, Typed, Numbers
  <1>3. ASSUME NEW texts, NEW now
        PROVE  Verdict(texts, now)' = Verdict(texts, now) /\ Document(now)' = Document(now)
    BY <1>1, VerdictStands, DocumentStands
  <1>4. RunOfNumbers'
    BY <1>1, <1>3 DEF QualityInv, RunOfNumbers, NotYet
  <1>5. DocumentOfRun'
    BY <1>1, <1>3 DEF QualityInv, DocumentOfRun, NotYet
  <1> QED BY <1>2, <1>4, <1>5 DEF QualityInv

LEMMA QualityNext == QualityInv /\ [Next]_vars => QualityInv'
  <1> SUFFICES ASSUME QualityInv, [Next]_vars PROVE QualityInv'
    OBVIOUS
  <1>1. ASSUME NEW texts \in [crapMax : CrapMaxTexts, mutationMin : MutationMinTexts],
               NEW now \in Times, Judge(texts, now)
        PROVE  QualityInv'
    BY <1>1, JudgingKeeps DEF Limits
  <1> QED
    BY <1>1, MeasuringKeeps, CommittingKeeps, StutteringKeeps DEF Next

LEMMA QualityHolds == Spec => []QualityInv
  BY QualityInit, QualityNext, PTL DEF Spec
------------------------------------------------------------------------------
(***************************************************************************)
(* What follows from it.                                                   *)
(***************************************************************************)
LEMMA JudgedAre ==
  ASSUME Typed
  PROVE  Judged \in SUBSET {"crap", "mutation"}
  BY DEF Typed, Commands, Judged

LEMMA VerdictIs ==
  ASSUME NEW now, run = Verdict(limits, now)
  PROVE  /\ run.completed = now
         /\ run.components = [name \in Judged |-> Component(name, limits)]
         /\ run.findings = UNION {Findings(name, limits) : name \in Judged}
         /\ run.reasons = {Reason(name, limits) : name \in {k \in Judged : Reason(k, limits) # "passed"}}
         /\ run.status \in {"passed", "qualityFailed"}
         /\ run.status = "passed" <=> \A name \in Judged : Reason(name, limits) = "passed"
  BY DEF Verdict

LEMMA StatusIsExact ==
  ASSUME Typed, limits \in Limits, NEW now, run = Verdict(limits, now)
  PROVE  /\ \A name \in Judged : run.components[name].pass <=> Earned(name)
         /\ run.status = "passed" <=> \A name \in Judged : Earned(name)
  <1>1. Numbers
    BY DEF Typed
  <1>2. \A name \in Judged : /\ Component(name, limits).pass <=> Reason(name, limits) = "passed"
                             /\ Reason(name, limits) = "passed" <=> Earned(name)
    BY <1>1, JudgedRight, JudgedAre
  <1>3. \A name \in Judged : run.components[name] = Component(name, limits)
    BY VerdictIs
  <1>4. run.status = "passed" <=> \A name \in Judged : Reason(name, limits) = "passed"
    BY VerdictIs
  <1> QED BY <1>2, <1>3, <1>4

LEMMA ReaderTakesAll ==
  ASSUME Typed, limits \in Limits, NEW t \in Times, run = Verdict(limits, t),
         NEW now \in Times, run.completed <= now
  PROVE  Valid(Document(now))
  <1> DEFINE d == Document(now)
  <1>1. /\ d.components = run.components /\ d.status = run.status
        /\ d.completed = run.completed /\ d.committed = now
        /\ d.certification = Certified(run.status, run.components)
    BY DEF Document
  <1> HIDE DEF d
  <1>2. run.components = [name \in Judged |-> Component(name, limits)]
    BY VerdictIs
  <1>3. Numbers
    BY DEF Typed
  <1>4. "crap" \in Judged => ValidCrap(d.components["crap"])
    <2>1. ValidCrap(CrapComponent(ParseThreshold(limits.crapMax)))
      BY <1>3, LimitsTyped, ReaderTakesCrap
    <2>2. Component("crap", limits) = CrapComponent(ParseThreshold(limits.crapMax))
      BY DEF Component
    <2> QED BY <1>1, <1>2, <2>1, <2>2
  <1>5. "mutation" \in Judged => ValidMutation(d.components["mutation"])
    <2>1. ValidMutation(MutationComponent(ParseThreshold(limits.mutationMin)))
      BY <1>3, LimitsTyped, ReaderTakesMutation
    <2>2. Component("mutation", limits) = MutationComponent(ParseThreshold(limits.mutationMin))
      BY DEF Component
    <2> QED BY <1>1, <1>2, <2>1, <2>2
  <1>6. d.status = "passed" <=> \A name \in Judged : d.components[name].pass
    BY <1>1, StatusIsExact
  <1> QED BY <1>1, <1>2, <1>4, <1>5, <1>6 DEF Valid, d

(***************************************************************************)
(* For all limits, callables and mutants the reader of the store takes the *)
(* document of every run, unless the clock was put back meanwhile: what it *)
(* forms from the largest score and the printed limits is the verdict of   *)
(* the gates, which saw every callable (store.py:513 and 1173).            *)
(***************************************************************************)
THEOREM ReaderAgrees == Spec => []DocumentsAccepted
  <1>1. QualityInv => DocumentsAccepted
    BY ReaderTakesAll DEF QualityInv, RunOfNumbers, DocumentsAccepted
  <1> QED BY <1>1, QualityHolds, PTL

(***************************************************************************)
(* For all limits, callables and mutants a document says passed exactly if *)
(* the measured numbers meet the limits as they were typed, also where     *)
(* they meet them with nothing to spare, and only a strict run that passed *)
(* is certified (coverage.py:266, mutation.py:170, store.py:784).          *)
(***************************************************************************)
THEOREM VerdictsExact == Spec => []VerdictIsExact
  <1>1. ASSUME QualityInv, doc # NotYet
        PROVE  /\ \A name \in Judged : doc.components[name].pass <=> Earned(name)
               /\ exit = "passed" <=> \A name \in Judged : Earned(name)
               /\ doc.certification <=> mode = "strict" /\ exit = "passed"
    <2>1. PICK t \in Times : limits \in Limits /\ run = Verdict(limits, t)
      BY <1>1 DEF QualityInv, RunOfNumbers
    <2>2. PICK now \in Times : doc = Document(now)
      BY <1>1 DEF QualityInv, DocumentOfRun
    <2>3. doc.components = run.components /\ doc.certification = Certified(run.status, run.components)
      BY <2>2 DEF Document
    <2>4. exit = run.status
      BY <1>1 DEF QualityInv, DocumentOfRun
    <2>5. /\ \A name \in Judged : run.components[name].pass <=> Earned(name)
          /\ run.status = "passed" <=> \A name \in Judged : Earned(name)
      BY <1>1, <2>1, StatusIsExact DEF QualityInv
    <2>6. DOMAIN run.components = Judged
      BY <2>1, VerdictIs
    <2>7. Certified(run.status, run.components) <=> mode = "strict" /\ run.status = "passed"
      BY <2>5, <2>6 DEF Certified
    <2> QED BY <2>3, <2>4, <2>5, <2>7
  <1>2. QualityInv => VerdictIsExact
    BY <1>1 DEF VerdictIsExact
  <1> QED BY <1>2, QualityHolds, PTL

(***************************************************************************)
(* The findings of the gates.                                              *)
(***************************************************************************)
LEMMA CrapIsFound ==
  ASSUME Numbers, limits \in Limits
  PROVE  /\ \A f \in Findings("crap", limits) : f.category = "crap"
         /\ ~CrapEarned <=> Findings("crap", limits) # {}
  <1> DEFINE max == ParseThreshold(limits.crapMax)
             failing == {k \in DOMAIN metrics : ~Passes(metrics[k], max)}
  <1>1. Findings("crap", limits) =
          IF metrics = << >> THEN {Finding("crap", "emptyCallableInventory", 0)}
          ELSE {MetricFinding(i) : i \in failing}
    BY DEF Findings, CrapFindings
  <1>2. CrapEarned <=> metrics # << >> /\ failing = {}
    <2>1. CrapReason(max) = "passed"
            <=> metrics # << >> /\ \A i \in DOMAIN metrics : Passes(metrics[i], max)
      BY LimitsTyped, CrapDecided
    <2> QED BY <2>1, CrapDecidedRight
  <1> HIDE DEF max, failing
  <1>3. \A i \in failing : MetricFinding(i).category = "crap"
    BY DEF MetricFinding, Finding
  <1>4. Finding("crap", "emptyCallableInventory", 0).category = "crap"
    BY DEF Finding
  <1> QED BY <1>1, <1>2, <1>3, <1>4

LEMMA MutationIsFound ==
  ASSUME Numbers, limits \in Limits
  PROVE  /\ \A f \in Findings("mutation", limits) : f.category = "mutation"
         /\ ~MutationEarned => Findings("mutation", limits) # {}
  <1> DEFINE min == ParseThreshold(limits.mutationMin)
             found(state) == {Finding("mutation", state, i) : i \in 1..counts[state]}
  <1>1. Findings("mutation", limits) = MutationFindings
    BY DEF Findings
  <1>2. \A state \in {"survived", "other"} : \A f \in found(state) : f.category = "mutation"
    BY DEF Finding
  <1>3. CASE InScope = 0
    <2>1. MutationFindings = {Finding("mutation", "zeroMutants", 0)}
      BY <1>3 DEF MutationFindings
    <2>2. Finding("mutation", "zeroMutants", 0).category = "mutation"
      BY DEF Finding
    <2> QED BY <1>1, <2>1, <2>2
  <1>4. CASE InScope # 0
    <2>1. MutationFindings = UNION {found(state) : state \in {"survived", "other"}}
      BY <1>4 DEF MutationFindings
    <2>2. ASSUME ~MutationEarned
          PROVE  counts.survived > 0 \/ counts.other > 0
      <3>1. ~KillRatePasses(counts.killed, InScope, min)
        BY <1>4, <2>2, MutationDecidedRight DEF MutationReason
      <3>2. min \in Fractions /\ min.num <= 100 * min.den
        BY LimitsTyped, ParsedTyped DEF IsMutationMin
      <3> DEFINE n == InScope  mn == min.num  md == min.den
      <3>3. mn \in Nat /\ md \in Positive /\ mn <= 100 * md /\ n \in Nat
            /\ ~(counts.killed * 100 * md >= mn * n)
        BY <3>1, <3>2, InScopeTyped DEF Fractions, KillRatePasses
      <3> HIDE DEF n, mn, md
      <3>4. counts.killed # n
        <4>1. SUFFICES ASSUME counts.killed = n PROVE FALSE
          OBVIOUS
        <4>2. mn * n <= (100 * md) * n
          BY <3>3, 100 * md \in Int, TimesKeepsOrder DEF Positive
        <4>3. (100 * md) * n = n * 100 * md
          BY <3>3, SMT DEF Positive
        <4>4. mn * n \in Int /\ n * 100 * md \in Int
          BY <3>3, SMT DEF Positive
        <4> QED BY <3>3, <4>1, <4>2, <4>3, <4>4
      <3>5. InScope = counts.killed + counts.survived + counts.other
        BY DEF InScope
      <3> QED BY <3>4, <3>5, InScopeTyped DEF n
    <2>3. ASSUME NEW state \in {"survived", "other"}, counts[state] \in Nat, counts[state] > 0
          PROVE  found(state) # {}
      <3>1. 1 \in 1..counts[state]
        BY <2>3
      <3> QED BY <3>1
    <2>4. ~MutationEarned => \E state \in {"survived", "other"} : found(state) # {}
      BY <2>2, <2>3, InScopeTyped
    <2> HIDE DEF found
    <2> QED BY <1>1, <1>2, <2>1, <2>4
  <1> QED BY <1>3, <1>4

(***************************************************************************)
(* Every failure has its cause on record, for all limits, callables and    *)
(* mutants: the finding of an empty module or plan included, and none is   *)
(* there for callables that all pass (quality.py:385 and 459).             *)
(***************************************************************************)
THEOREM FailuresRecorded == Spec => []FailureIsRecorded
  <1>1. ASSUME QualityInv, doc # NotYet, NEW name \in Judged
        PROVE  LET own == {f \in run.findings : f.category = name}
               IN  /\ ~Earned(name) => own # {} /\ {f.reason : f \in own} \subseteq doc.codes
                   /\ name = "crap" /\ Earned(name) => own = {}
    <2> DEFINE own == {f \in run.findings : f.category = name}
    <2>1. PICK t \in Times : limits \in Limits /\ run = Verdict(limits, t)
      BY <1>1 DEF QualityInv, RunOfNumbers
    <2>2. PICK now \in Times : doc = Document(now)
      BY <1>1 DEF QualityInv, DocumentOfRun
    <2>3. name \in {"crap", "mutation"} /\ Judged \in SUBSET {"crap", "mutation"} /\ Numbers
      BY <1>1, JudgedAre DEF QualityInv, Typed
    <2>4. {f.reason : f \in own} \subseteq doc.codes
      BY <2>2 DEF Document, Codes
    <2>5. run.findings = UNION {Findings(k, limits) : k \in Judged}
      BY <2>1, VerdictIs
    <2>6. \A k \in Judged : \A f \in Findings(k, limits) : f.category = k
      BY <2>1, <2>3, CrapIsFound, MutationIsFound
    <2>7. own = Findings(name, limits)
      BY <1>1, <2>5, <2>6
    <2>8. ~Earned(name) => Findings(name, limits) # {}
      BY <2>1, <2>3, CrapIsFound, MutationIsFound DEF Earned
    <2>9. name = "crap" /\ Earned(name) => Findings(name, limits) = {}
      BY <2>1, <2>3, CrapIsFound DEF Earned
    <2> HIDE DEF own
    <2>10. /\ ~Earned(name) => own # {} /\ {f.reason : f \in own} \subseteq doc.codes
           /\ name = "crap" /\ Earned(name) => own = {}
      BY <2>4, <2>7, <2>8, <2>9
    <2> QED BY <2>10 DEF own
  <1>2. QualityInv => FailureIsRecorded
    BY <1>1 DEF FailureIsRecorded
  <1> QED BY <1>2, QualityHolds, PTL
------------------------------------------------------------------------------
(***************************************************************************)
(* The lines of the callables of a file. The callables around one another  *)
(* start before it and hold all its lines in their bodies.                 *)
(***************************************************************************)
Climbed(f, i, S) == \A k \in S \cup {i} : f[k].parent \in S \cup {0}

LEMMA Placed ==
  ASSUME NEW f \in Seq(Callables), WellFormed(f), NEW i \in DOMAIN f
  PROVE  /\ i \in Nat /\ i > 0 /\ f[i].parent \in 0..(i - 1)
         /\ f[i].decl \in Nat /\ f[i].top \in Nat /\ f[i].body \in Nat /\ f[i].end \in Nat
         /\ f[i].body..f[i].end \subseteq Line
         /\ f[i].decl <= f[i].top /\ f[i].top <= f[i].body /\ f[i].body <= f[i].end
         /\ f[i].kind \in {"def", "lambda"} /\ (f[i].top < f[i].body => f[i].kind = "def")
         /\ f[i].parent # 0 =>
              /\ f[i].parent \in DOMAIN f
              /\ f[f[i].parent].top <= f[i].decl /\ f[i].end <= f[f[i].parent].end
              /\ f[i].decl < f[f[i].parent].body => f[i].kind = "lambda"
              /\ f[i].kind = "def" => f[f[i].parent].kind = "def"
         /\ f[i].header # 0 => InHeader(f[f[i].header], f[i])
  <1>1. DOMAIN f = 1..Len(f) /\ Len(f) \in Nat /\ f[i] \in Callables
    OBVIOUS
  <1>2. PICK n \in Nat : f[i] \in CallableAt(n)
    BY <1>1 DEF Callables
  <1>3. /\ f[i].parent \in Nat /\ f[i].decl \in Line /\ f[i].top \in Line
        /\ f[i].body \in Line /\ f[i].end \in Line /\ f[i].kind \in {"def", "lambda"}
    BY <1>2 DEF CallableAt
  <1>4. /\ LinesInOrder(f[i]) /\ f[i].parent < i
        /\ f[i].parent # 0 => Contained(f[f[i].parent], f[i])
        /\ f[i].header # 0 => InHeader(f[f[i].header], f[i])
    BY DEF WellFormed
  <1>5. i \in Nat /\ i > 0 /\ f[i].parent \in 0..(i - 1) /\ (f[i].parent # 0 => f[i].parent \in DOMAIN f)
    BY <1>1, <1>3, <1>4
  <1>6. /\ f[i].decl \in Nat /\ f[i].top \in Nat /\ f[i].body \in Nat /\ f[i].end \in Nat
        /\ f[i].body..f[i].end \subseteq Line
    BY <1>3, LinesAssumption DEF Line
  <1> QED BY <1>3, <1>4, <1>5, <1>6 DEF LinesInOrder, Contained

LEMMA AncestorsLeast ==
  ASSUME NEW f \in Seq(Callables), NEW i \in DOMAIN f,
         NEW S \in SUBSET (1..(i - 1)), Climbed(f, i, S)
  PROVE  Ancestors(f, i) \subseteq S
  BY DEF Ancestors, Climbed

LEMMA AncestorsClimbed ==
  ASSUME NEW f \in Seq(Callables), WellFormed(f), NEW i \in DOMAIN f
  PROVE  /\ Ancestors(f, i) \in SUBSET (1..(i - 1))
         /\ Ancestors(f, i) \in SUBSET DOMAIN f
         /\ Climbed(f, i, Ancestors(f, i))
  <1> DEFINE A == Ancestors(f, i)
  <1>1. A = {k \in 1..(i - 1) : \A S \in SUBSET (1..(i - 1)) : Climbed(f, i, S) => k \in S}
    BY DEF Ancestors, Climbed
  <1> HIDE DEF A
  <1>2. DOMAIN f = 1..Len(f) /\ Len(f) \in Nat /\ i \in 1..Len(f)
    OBVIOUS
  <1>3. A \in SUBSET (1..(i - 1)) /\ A \in SUBSET DOMAIN f
    BY <1>1, <1>2
  <1>4. ASSUME NEW k \in A \cup {i}, f[k].parent # 0
        PROVE  f[k].parent \in A
    <2>1. k \in DOMAIN f /\ k <= i
      BY <1>2, <1>3
    <2>2. f[k].parent \in 1..(i - 1)
      BY <1>2, <1>4, <2>1, Placed
    <2>3. ASSUME NEW S \in SUBSET (1..(i - 1)), Climbed(f, i, S)
          PROVE  f[k].parent \in S
      <3>1. k \in S \cup {i}
        BY <1>1, <2>3
      <3> QED BY <1>4, <2>3, <3>1 DEF Climbed
    <2> QED BY <1>1, <2>2, <2>3
  <1> QED BY <1>3, <1>4 DEF A, Climbed

LEMMA AncestorsAround ==
  ASSUME NEW f \in Seq(Callables), WellFormed(f), NEW i \in DOMAIN f,
         NEW a \in Ancestors(f, i)
  PROVE  f[a].top <= f[i].decl /\ f[i].end <= f[a].end
  <1> DEFINE S == {k \in 1..(i - 1) : f[k].top <= f[i].decl /\ f[i].end <= f[k].end}
  <1>1. DOMAIN f = 1..Len(f) /\ Len(f) \in Nat /\ i \in 1..Len(f)
    OBVIOUS
  <1>2. ASSUME NEW k \in S \cup {i}, f[k].parent # 0
        PROVE  f[k].parent \in S
    <2> DEFINE p == f[k].parent
    <2>1. k \in DOMAIN f /\ k <= i
      BY <1>1
    <2>2. p \in 1..(i - 1) /\ p \in DOMAIN f /\ f[p].top <= f[k].decl /\ f[k].end <= f[p].end
      <3>1. /\ p \in 0..(k - 1) /\ p \in DOMAIN f
            /\ f[p].top <= f[k].decl /\ f[k].end <= f[p].end
        BY <1>2, <2>1, Placed
      <3> HIDE DEF p
      <3>2. p # 0
        BY <1>2 DEF p
      <3> QED BY <1>1, <2>1, <3>1, <3>2
    <2>3. /\ f[k].decl <= f[i].decl /\ f[i].end <= f[k].end
          /\ f[k].decl \in Nat /\ f[k].end \in Nat
      <3>1. CASE k = i
        BY <3>1, Placed
      <3>2. CASE k \in S
        BY <2>1, <3>2, Placed
      <3> QED BY <3>1, <3>2
    <2>4. f[i].decl \in Nat /\ f[i].end \in Nat /\ f[p].top \in Nat /\ f[p].end \in Nat
      BY <2>2, Placed
    <2> HIDE DEF p
    <2>5. f[p].top <= f[i].decl /\ f[i].end <= f[p].end
      BY <2>2, <2>3, <2>4
    <2> QED BY <2>2, <2>5 DEF p
  <1>3. Climbed(f, i, S)
    BY <1>2 DEF Climbed
  <1>4. S \in SUBSET (1..(i - 1))
    OBVIOUS
  <1> HIDE DEF S
  <1>5. a \in S
    BY <1>3, <1>4, AncestorsLeast
  <1> QED BY <1>5 DEF S

(***************************************************************************)
(* The way up from a callable passes from each of those around it, and in  *)
(* the end from the module, to the next one inside.                        *)
(***************************************************************************)
LEMMA NextInside ==
  ASSUME NEW f \in Seq(Callables), WellFormed(f), NEW i \in DOMAIN f,
         NEW p \in Ancestors(f, i) \cup {0}
  PROVE  \E k \in Ancestors(f, i) \cup {i} : f[k].parent = p
  <1> DEFINE A == Ancestors(f, i)  Up == {f[k].parent : k \in A \cup {i}}
  <1>1. A \in SUBSET (1..(i - 1)) /\ A \in SUBSET DOMAIN f /\ Climbed(f, i, A) /\ i \in Nat /\ i > 0
    BY AncestorsClimbed, Placed
  <1> HIDE DEF A
  <1>2. Up \subseteq A \cup {0}
    BY <1>1 DEF Climbed
  <1>3. CASE p # 0
    <2> DEFINE S == Up \ {0}
    <2>1. S \in SUBSET (1..(i - 1))
      BY <1>1, <1>2
    <2>2. Climbed(f, i, S)
      <3>1. S \cup {i} \subseteq A \cup {i}
        BY <1>2
      <3> QED BY <3>1 DEF Climbed
    <2> HIDE DEF S, Up
    <2>3. A \subseteq S
      BY <2>1, <2>2, AncestorsLeast DEF A
    <2> QED BY <1>3, <2>3 DEF S, Up, A
  <1>4. CASE p = 0
    <2>1. A \cup {i} \in SUBSET Nat /\ A \cup {i} # {}
      BY <1>1
    <2>2. PICK m \in A \cup {i} : \A k \in A \cup {i} : m <= k
      BY <2>1, LeastNumber
    <2>3. m \in DOMAIN f /\ f[m].parent \in A \cup {0}
      BY <1>1, <2>2 DEF Climbed
    <2>4. f[m].parent \in 0..(m - 1) /\ m \in Nat
      BY <2>3, Placed
    <2>5. f[m].parent = 0
      BY <2>2, <2>3, <2>4
    <2> QED BY <1>4, <2>2, <2>5 DEF A
  <1> QED BY <1>3, <1>4

LEMMA LargestPlace ==
  ASSUME NEW n \in Nat, NEW S \in SUBSET (0..n), S # {}
  PROVE  \E s \in S : \A t \in S : t <= s
  <1> DEFINE T == {n - s : s \in S}
  <1>1. \A s \in S : s \in 0..n /\ n - s \in Nat
    OBVIOUS
  <1>2. T \in SUBSET Nat /\ T # {}
    BY <1>1
  <1> HIDE DEF T
  <1>3. PICK m \in T : \A t \in T : m <= t
    BY <1>2, LeastNumber
  <1>4. PICK s \in S : m = n - s
    BY <1>3 DEF T
  <1>5. \A t \in S : n - s <= n - t
    BY <1>3, <1>4 DEF T
  <1> QED BY <1>1, <1>5

(***************************************************************************)
(* Two callables neither of which is around the other part ways: they are  *)
(* inside of two different ones that are next to each other.               *)
(***************************************************************************)
Inside(f, i) == Ancestors(f, i) \cup {i}

LEMMA WaysPart ==
  ASSUME NEW f \in Seq(Callables), WellFormed(f), NEW i \in DOMAIN f, NEW j \in DOMAIN f,
         i # j, i \notin Ancestors(f, j), j \notin Ancestors(f, i)
  PROVE  \E g \in Inside(f, i), h \in Inside(f, j) : g # h /\ f[g].parent = f[h].parent
  <1> DEFINE A == Ancestors(f, i)  B == Ancestors(f, j)
             C == (A \cup {0}) \cap (B \cup {0})
  <1>1. /\ A \in SUBSET (1..(i - 1)) /\ A \in SUBSET DOMAIN f
        /\ B \in SUBSET (1..(j - 1)) /\ B \in SUBSET DOMAIN f
        /\ i \in Nat /\ i > 0 /\ j \in Nat /\ j > 0
    BY AncestorsClimbed, Placed
  <1>2. PICK p \in C : \A q \in C : q <= p
    <2>1. C \in SUBSET (0..i) /\ C # {}
      <3>1. A \cup {0} \subseteq 0..i /\ 0 \in C
        BY <1>1
      <3> QED BY <3>1
    <2> HIDE DEF C
    <2> QED BY <1>1, <2>1, LargestPlace
  <1>3. PICK g \in A \cup {i} : f[g].parent = p
    BY NextInside
  <1>4. PICK h \in B \cup {j} : f[h].parent = p
    BY NextInside
  <1>5. ASSUME g = h
        PROVE  FALSE
    <2>1. g \in A /\ g \in B
      BY <1>5
    <2>2. g <= p
      BY <1>2, <2>1
    <2>3. g \in DOMAIN f
      BY <1>1, <2>1
    <2>4. p \in 0..(g - 1) /\ g \in Nat
      BY <1>3, <2>3, Placed
    <2> QED BY <2>2, <2>4
  <1> QED BY <1>3, <1>4, <1>5 DEF Inside

LEMMA InsideOf ==
  ASSUME NEW f \in Seq(Callables), WellFormed(f), NEW i \in DOMAIN f, NEW g \in Inside(f, i)
  PROVE  /\ g \in DOMAIN f /\ g <= i
         /\ f[g].decl <= f[i].decl /\ f[i].end <= f[g].end
         /\ g # i => f[g].top <= f[i].decl
  <1>1. CASE g = i
    BY <1>1, Placed
  <1>2. CASE g # i
    <2>1. g \in Ancestors(f, i)
      BY <1>2 DEF Inside
    <2>2. g \in DOMAIN f /\ g \in 1..(i - 1) /\ i \in Nat
      BY <2>1, AncestorsClimbed, Placed
    <2>3. f[g].top <= f[i].decl /\ f[i].end <= f[g].end
      BY <2>1, AncestorsAround
    <2>4. f[g].decl <= f[g].top /\ f[g].decl \in Nat /\ f[g].top \in Nat /\ f[i].decl \in Nat
      BY <2>2, Placed
    <2> QED BY <2>2, <2>3, <2>4
  <1> QED BY <1>1, <1>2

\* A line of two bodies stands where the header of the one meets its body.
LEMMA WhereTheyMeet ==
  ASSUME NEW f \in Seq(Callables), WellFormed(f), NEW i \in DOMAIN f, NEW j \in DOMAIN f,
         i # j, i \notin Ancestors(f, j), j \notin Ancestors(f, i),
         f[i].decl < f[i].body, f[j].decl < f[j].body,
         NEW l \in Nat, l \in f[i].body..f[i].end, l \in f[j].body..f[j].end, i < j
  PROVE  \E h \in Inside(f, j) : f[h].header = i /\ OnBodyLine(f[i], f[h])
  <1>1. PICK g \in Inside(f, i), h \in Inside(f, j) : g # h /\ f[g].parent = f[h].parent
    BY WaysPart
  <1> DEFINE iD == f[i].decl  iB == f[i].body  iE == f[i].end
             jD == f[j].decl  jB == f[j].body  jE == f[j].end
             gD == f[g].decl  gT == f[g].top  gB == f[g].body  gE == f[g].end
             hD == f[h].decl  hT == f[h].top  hB == f[h].body  hE == f[h].end
  <1>2. g \in DOMAIN f /\ g <= i /\ gD <= iD /\ iE <= gE /\ (g # i => gT <= iD)
    BY <1>1, InsideOf
  <1>3. h \in DOMAIN f /\ h <= j /\ hD <= jD /\ jE <= hE /\ (h # j => hT <= jD)
    BY <1>1, InsideOf
  <1>4. /\ g \in Nat /\ h \in Nat /\ i \in Nat /\ j \in Nat /\ g > 0 /\ h > 0
        /\ iD \in Nat /\ iB \in Nat /\ iE \in Nat /\ jD \in Nat /\ jB \in Nat /\ jE \in Nat
        /\ gD \in Nat /\ gB \in Nat /\ gE \in Nat /\ hD \in Nat /\ hB \in Nat /\ hE \in Nat
        /\ gT \in Nat /\ hT \in Nat /\ gT <= gB /\ hT <= hB
    BY <1>2, <1>3, Placed
  <1>5. iB <= l /\ l <= iE /\ jB <= l /\ l <= jE /\ iD < iB /\ jD < jB
    BY <1>4
  <1>6. /\ f[g].header # 0 => InHeader(f[f[g].header], f[g])
        /\ f[h].header # 0 => InHeader(f[f[h].header], f[h])
    BY <1>2, <1>3, Placed
  <1>7. /\ g < h /\ f[h].header # g => gE <= hD
        /\ h < g /\ f[g].header # h => hE <= gD
    BY <1>1, <1>2, <1>3 DEF WellFormed, Siblings, Apart
  <1>8. /\ f[h].header = g => hE <= gT
        /\ f[g].header = h => gE <= hT
    <2>1. ASSUME f[h].header = g PROVE hE <= gT
      <3>1. f[h].header # 0
        BY <1>4, <2>1
      <3>2. InHeader(f[g], f[h])
        BY <1>6, <2>1, <3>1
      <3> QED BY <3>2 DEF InHeader
    <2>2. ASSUME f[g].header = h PROVE gE <= hT
      <3>1. f[g].header # 0
        BY <1>4, <2>2
      <3>2. InHeader(f[h], f[g])
        BY <1>6, <2>2, <3>1
      <3> QED BY <3>2 DEF InHeader
    <2> QED BY <2>1, <2>2
  <1>9. f[h].header = g /\ g = i /\ hE = iB => OnBodyLine(f[i], f[h])
    BY DEF OnBodyLine
  <1>10. g = i => gB = iB
    OBVIOUS
  <1>11. h = j => hB = jB
    OBVIOUS
  <1> HIDE DEF iD, iB, iE, jD, jB, jE, gD, gT, gB, gE, hD, hT, hB, hE
  <1>12. CASE g < h
    <2>1. f[h].header = g
      BY <1>2, <1>3, <1>4, <1>5, <1>7, <1>12
    <2>2. hE <= gT
      BY <1>8, <2>1
    <2>3. g = i
      BY <1>2, <1>3, <1>4, <1>5, <2>2
    <2>4. hE = iB
      BY <1>3, <1>4, <1>5, <1>10, <2>2, <2>3
    <2> QED BY <1>1, <1>9, <2>1, <2>3, <2>4
  <1>13. CASE h < g
    <2>1. f[g].header = h
      BY <1>2, <1>3, <1>4, <1>5, <1>7, <1>13
    <2>2. gE <= hT
      BY <1>8, <2>1
    <2>3. h # j
      BY <1>2, <1>4, <1>13
    <2>4. FALSE
      BY <1>2, <1>3, <1>4, <1>5, <2>2, <2>3
    <2> QED BY <2>4
  <1> QED BY <1>1, <1>4, <1>12, <1>13

(***************************************************************************)
(* What counts for a callable.                                             *)
(***************************************************************************)
LEMMA CountedIs ==
  ASSUME file \in Seq(Callables), WellFormed(file), NEW i \in DOMAIN file, NEW l
  PROVE  l \in Counted(i) <=>
           /\ l \in Nat /\ l \in file[i].body..file[i].end /\ file[i].decl < file[i].body
           /\ \A j \in DOMAIN file :
                i \in Ancestors(file, j) =>
                  l \notin Later(file[j].body, file[j].decl + 1)..file[j].end
  <1>1. file[i].decl < file[i].body <=> file[i].decl # file[i].body
    BY Placed
  <1>2. l \in file[i].body..file[i].end => l \in Line /\ l \in Nat
    BY Placed
  <1>3. l \in ExcludedLines(file, i) <=>
          \E j \in DOMAIN file :
            i \in Ancestors(file, j) /\ l \in Later(file[j].body, file[j].decl + 1)..file[j].end
    BY DEF ExcludedLines
  <1>4. l \in Counted(i) <=>
          /\ file[i].decl # file[i].body
          /\ l \in Line /\ l \in file[i].body..file[i].end /\ l \notin ExcludedLines(file, i)
    BY DEF Counted, OwnedLines
  <1> QED BY <1>1, <1>2, <1>3, <1>4

LEMMA BodyFromLater ==
  ASSUME NEW f \in Seq(Callables), WellFormed(f), NEW j \in DOMAIN f, f[j].decl < f[j].body
  PROVE  Later(f[j].body, f[j].decl + 1) = f[j].body
  <1>1. f[j].decl \in Nat /\ f[j].body \in Nat
    BY Placed
  <1> QED BY <1>1 DEF Later

LEMMA NoLineTwice ==
  ASSUME file \in Seq(Callables), WellFormed(file),
         NEW i \in DOMAIN file, NEW j \in DOMAIN file, i < j, Counted(i) \cap Counted(j) # {}
  PROVE  \E h \in {j} \cup Ancestors(file, j) : file[h].header = i /\ OnBodyLine(file[i], file[h])
  <1>1. PICK l \in Counted(i) : l \in Counted(j)
    OBVIOUS
  <1>2. /\ l \in Nat /\ l \in file[i].body..file[i].end /\ file[i].decl < file[i].body
        /\ i \in Ancestors(file, j) => l \notin Later(file[j].body, file[j].decl + 1)..file[j].end
    BY <1>1, CountedIs
  <1>3. l \in file[j].body..file[j].end /\ file[j].decl < file[j].body
    BY <1>1, CountedIs
  <1>4. i \notin Ancestors(file, j)
    BY <1>2, <1>3, BodyFromLater
  <1>5. j \notin Ancestors(file, i)
    <2>1. \A k \in Ancestors(file, i) : k < i
      <3>1. Ancestors(file, i) \in SUBSET (1..(i - 1)) /\ i \in Nat
        BY AncestorsClimbed, Placed
      <3> QED BY <3>1
    <2>2. i \in Nat /\ j \in Nat
      BY Placed
    <2> QED BY <2>1, <2>2
  <1>6. i # j
    BY Placed
  <1>7. \E h \in Inside(file, j) : file[h].header = i /\ OnBodyLine(file[i], file[h])
    BY <1>2, <1>3, <1>4, <1>5, <1>6, WhereTheyMeet
  <1> QED BY <1>7 DEF Inside

\* Each line of the code of a body counts.
LEMMA CodeCounts ==
  ASSUME file \in Seq(Callables), WellFormed(file),
         \A i \in DOMAIN file : file[i].decl < file[i].body
  PROVE  UNION {file[i].body..file[i].end : i \in DOMAIN file}
           = UNION {Counted(i) : i \in DOMAIN file}
  <1>1. ASSUME NEW i \in DOMAIN file, NEW l \in Counted(i)
        PROVE  l \in file[i].body..file[i].end
    BY <1>1, CountedIs
  <1>2. ASSUME NEW i \in DOMAIN file, NEW l \in file[i].body..file[i].end
        PROVE  \E k \in DOMAIN file : l \in Counted(k)
    <2> DEFINE S == {k \in DOMAIN file : l \in file[k].body..file[k].end}
    <2>1. DOMAIN file = 1..Len(file) /\ Len(file) \in Nat
      OBVIOUS
    <2>2. PICK k \in S : \A h \in S : h <= k
      <3>1. S \in SUBSET (0..Len(file)) /\ S # {}
        BY <2>1
      <3> HIDE DEF S
      <3> QED BY <2>1, <3>1, LargestPlace
    <2>3. ASSUME NEW j \in DOMAIN file, k \in Ancestors(file, j),
                 l \in Later(file[j].body, file[j].decl + 1)..file[j].end
          PROVE  FALSE
      <3>1. l \in file[j].body..file[j].end
        BY <2>3, BodyFromLater
      <3>2. j <= k
        BY <2>2, <3>1
      <3>3. Ancestors(file, j) \in SUBSET (1..(j - 1)) /\ j \in Nat
        BY AncestorsClimbed, Placed
      <3>4. k \in 1..(j - 1)
        BY <2>3, <3>3
      <3> QED BY <3>2, <3>3, <3>4
    <2>4. k \in DOMAIN file /\ l \in file[k].body..file[k].end /\ file[k].decl < file[k].body
      BY <2>2
    <2>5. l \in Nat
      BY <2>4, Placed
    <2> QED BY <2>3, <2>4, <2>5, CountedIs
  <1> QED BY <1>1, <1>2

\* A definition in the body of another begins with or after its code.
LEMMA DefsInCode ==
  ASSUME NEW f \in Seq(Callables), WellFormed(f), NEW k \in DOMAIN f, f[k].kind = "def",
         NEW i \in Ancestors(f, k)
  PROVE  f[i].kind = "def" /\ f[i].body <= f[k].decl
  <1> DEFINE S == {a \in 1..(k - 1) : f[a].kind = "def" /\ f[a].body <= f[k].decl}
  <1>1. DOMAIN f = 1..Len(f) /\ Len(f) \in Nat /\ k \in 1..Len(f)
    OBVIOUS
  <1>2. ASSUME NEW m \in S \cup {k}, f[m].parent # 0
        PROVE  f[m].parent \in S
    <2> DEFINE p == f[m].parent
    <2>1. m \in DOMAIN f /\ m <= k /\ f[m].kind = "def"
      BY <1>1
    <2>2. /\ p \in 0..(m - 1) /\ p \in DOMAIN f
          /\ f[p].kind = "def" /\ ~(f[m].decl < f[p].body)
      <3>1. p \in 0..(m - 1) /\ p \in DOMAIN f /\ f[p].kind = "def"
        BY <1>2, <2>1, Placed
      <3>2. f[m].decl < f[p].body => f[m].kind = "lambda"
        BY <1>2, <2>1, Placed
      <3> QED BY <2>1, <3>1, <3>2
    <2>3. f[m].decl <= f[k].decl /\ f[m].decl \in Nat /\ f[k].decl \in Nat
      <3>1. CASE m = k
        BY <3>1, Placed
      <3>2. CASE m \in S
        <4>1. /\ f[m].decl <= f[m].top /\ f[m].top <= f[m].body /\ f[m].body <= f[k].decl
              /\ f[m].decl \in Nat /\ f[m].top \in Nat /\ f[m].body \in Nat /\ f[k].decl \in Nat
          BY <2>1, <3>2, Placed
        <4> QED BY <4>1
      <3> QED BY <3>1, <3>2
    <2>4. f[p].body \in Nat
      BY <2>2, Placed
    <2>5. p # 0
      BY <1>2
    <2> HIDE DEF p
    <2>6. p \in 1..(k - 1) /\ f[p].body <= f[k].decl
      BY <1>1, <2>1, <2>2, <2>3, <2>4, <2>5
    <2> QED BY <2>2, <2>6 DEF p
  <1>3. Climbed(f, k, S)
    BY <1>2 DEF Climbed
  <1>4. S \in SUBSET (1..(k - 1))
    OBVIOUS
  <1> HIDE DEF S
  <1>5. i \in S
    BY <1>3, <1>4, AncestorsLeast
  <1> QED BY <1>5 DEF S

\* What decorates the first statement of an outermost callable is the code
\* of lambdas only.
LEMMA DecoratorsAlone ==
  ASSUME NEW f \in Seq(Callables), WellFormed(f), \A k \in DOMAIN f : f[k].decl < f[k].body,
         NEW i \in DOMAIN f, f[i].parent = 0, NEW l \in Decorators(f[i]),
         \A k \in DOMAIN f : f[k].kind = "lambda" => l \notin BodyText(f[k]),
         NEW k \in DOMAIN f, l \in f[k].body..f[k].end
  PROVE  FALSE
  <1>1. /\ i \in Nat /\ i > 0 /\ f[i].decl \in Nat /\ f[i].top \in Nat
        /\ f[i].body \in Nat /\ f[i].end \in Nat
        /\ f[i].decl <= f[i].top /\ f[i].top <= f[i].body /\ f[i].body <= f[i].end
        /\ f[i].top < f[i].body => f[i].kind = "def"
    BY Placed
  <1>2. /\ k \in Nat /\ k > 0 /\ f[k].decl \in Nat /\ f[k].top \in Nat
        /\ f[k].body \in Nat /\ f[k].end \in Nat
        /\ f[k].decl <= f[k].top /\ f[k].top <= f[k].body
        /\ f[k].kind \in {"def", "lambda"}
    BY Placed
  <1>3. l \in f[i].top..(f[i].body - 1)
    BY DEF Decorators
  <1>4. /\ f[i].kind = "def" /\ l \in Nat
        /\ f[i].decl <= l /\ l < f[i].body /\ l <= f[i].end
    BY <1>1, <1>3
  <1>5. f[k].kind = "def" /\ f[k].decl < l /\ l <= f[k].end
    <2>1. l \in BodyText(f[k])
      BY <1>2 DEF BodyText
    <2>2. f[k].decl < f[k].body
      OBVIOUS
    <2> QED BY <1>2, <1>4, <2>1, <2>2
  <1>6. i # k
    BY <1>1, <1>4
  <1>7. i \notin Ancestors(f, k)
    <2>1. ASSUME i \in Ancestors(f, k) PROVE f[i].body <= f[k].decl
      BY <1>5, <2>1, DefsInCode
    <2> QED BY <1>1, <1>2, <1>4, <1>5, <2>1
  <1>8. Ancestors(f, i) = {}
    <2>1. Climbed(f, i, {})
      BY DEF Climbed
    <2> QED BY <2>1, AncestorsLeast
  <1>9. PICK g \in Inside(f, i), h \in Inside(f, k) : g # h /\ f[g].parent = f[h].parent
    BY <1>6, <1>7, <1>8, WaysPart
  <1>10. g = i
    BY <1>8, <1>9 DEF Inside
  <1>11. /\ h \in DOMAIN f /\ h \in Nat /\ f[h].decl \in Nat /\ f[h].end \in Nat
         /\ f[h].decl < l /\ l <= f[h].end
    <2>1. h \in DOMAIN f /\ f[h].decl <= f[k].decl /\ f[k].end <= f[h].end
      BY <1>9, InsideOf
    <2>2. h \in Nat /\ f[h].decl \in Nat /\ f[h].end \in Nat
      BY <2>1, Placed
    <2> QED BY <1>2, <1>4, <1>5, <2>1, <2>2
  <1>12. f[h].kind = "def"
    BY <1>5, <1>9, DefsInCode DEF Inside
  <1>13. f[h].header # i /\ f[i].header # h
    <2>1. ASSUME NEW c \in DOMAIN f, f[c].header # 0
          PROVE  f[c].kind = "lambda"
      BY <2>1, Placed DEF InHeader
    <2>2. f[h].header = 0 /\ f[i].header = 0
      BY <1>4, <1>11, <1>12, <2>1
    <2>3. h # 0
      BY <1>11, Placed
    <2> QED BY <1>1, <2>2, <2>3
  <1>14. /\ i < h => f[i].end < f[h].decl
         /\ h < i => f[h].end < f[i].decl
    BY <1>4, <1>9, <1>10, <1>11, <1>12, <1>13 DEF WellFormed, Siblings, Apart
  <1> QED BY <1>1, <1>4, <1>9, <1>10, <1>11, <1>14

LEMMA NoLineLost ==
  ASSUME file \in Seq(Callables), WellFormed(file),
         \A i \in DOMAIN file : file[i].decl < file[i].body
  PROVE  LinesLost = OuterDecorators
  <1>1. ASSUME NEW i \in DOMAIN file, NEW l \in BodyText(file[i]),
               \A k \in DOMAIN file : l \notin file[k].body..file[k].end
        PROVE  /\ l \in Decorators(file[i]) /\ file[i].parent = 0
               /\ \A j \in DOMAIN file : file[j].kind = "lambda" => l \notin BodyText(file[j])
    <2>1. /\ file[i].decl \in Nat /\ file[i].top \in Nat /\ file[i].body \in Nat
          /\ file[i].end \in Nat /\ file[i].decl <= file[i].top
          /\ file[i].top < file[i].body => file[i].kind = "def"
      BY Placed
    <2>2. l \in file[i].top..file[i].end /\ l \notin file[i].body..file[i].end
      BY <1>1 DEF BodyText
    <2>3. l \in Nat /\ l < file[i].body /\ file[i].decl <= l /\ file[i].kind = "def"
      BY <2>1, <2>2
    <2>4. l \in Decorators(file[i])
      BY <2>1, <2>2, <2>3 DEF Decorators
    <2>5. file[i].parent = 0
      <3> SUFFICES ASSUME file[i].parent # 0 PROVE FALSE
        OBVIOUS
      <3> DEFINE p == file[i].parent
      <3>1. /\ p \in DOMAIN file /\ file[i].end <= file[p].end
            /\ file[i].decl < file[p].body => file[i].kind = "lambda"
        BY Placed
      <3> HIDE DEF p
      <3>2. file[p].body \in Nat /\ file[p].end \in Nat
        BY <3>1, Placed
      <3>3. l \in file[p].body..file[p].end
        BY <2>1, <2>2, <2>3, <3>1, <3>2
      <3> QED BY <1>1, <3>1, <3>3
    <2>6. ASSUME NEW j \in DOMAIN file, file[j].kind = "lambda"
          PROVE  l \notin BodyText(file[j])
      <3>1. file[j].top = file[j].body
        <4>1. /\ file[j].top \in Nat /\ file[j].body \in Nat /\ file[j].top <= file[j].body
              /\ file[j].top < file[j].body => file[j].kind = "def"
          BY Placed
        <4> QED BY <2>6, <4>1
      <3> QED BY <1>1, <3>1 DEF BodyText
    <2> QED BY <2>4, <2>5, <2>6
  <1>2. ASSUME NEW i \in DOMAIN file, NEW l \in Decorators(file[i]), file[i].parent = 0,
               \A j \in DOMAIN file : file[j].kind = "lambda" => l \notin BodyText(file[j])
        PROVE  /\ l \in BodyText(file[i])
               /\ \A k \in DOMAIN file : l \notin file[k].body..file[k].end
    <2>1. /\ file[i].top \in Nat /\ file[i].body \in Nat /\ file[i].end \in Nat
          /\ file[i].body <= file[i].end
      BY Placed
    <2>2. l \in BodyText(file[i])
      BY <2>1 DEF BodyText, Decorators
    <2>3. \A k \in DOMAIN file : l \notin file[k].body..file[k].end
      BY <1>2, DecoratorsAlone
    <2> QED BY <2>2, <2>3
  <1>3. UNION {Counted(i) : i \in DOMAIN file}
          = UNION {file[i].body..file[i].end : i \in DOMAIN file}
    BY CodeCounts
  <1>4. ASSUME NEW l \in LinesLost
        PROVE  l \in OuterDecorators
    <2>1. PICK i \in DOMAIN file : l \in BodyText(file[i])
      BY <1>4 DEF LinesLost
    <2>2. \A k \in DOMAIN file : l \notin file[k].body..file[k].end
      BY <1>3, <1>4 DEF LinesLost
    <2> QED BY <1>1, <2>1, <2>2 DEF OuterDecorators
  <1>5. ASSUME NEW l \in OuterDecorators
        PROVE  l \in LinesLost
    <2>1. PICK i \in DOMAIN file : file[i].parent = 0 /\ l \in Decorators(file[i])
      BY <1>5 DEF OuterDecorators
    <2>2. \A j \in DOMAIN file : file[j].kind = "lambda" => l \notin BodyText(file[j])
      BY <1>5 DEF OuterDecorators
    <2>3. l \in BodyText(file[i]) /\ \A k \in DOMAIN file : l \notin file[k].body..file[k].end
      BY <1>2, <2>1, <2>2
    <2> QED BY <1>3, <2>3 DEF LinesLost
  <1> QED BY <1>4, <1>5

FileInv == file \in Seq(Callables) /\ WellFormed(file)

(***************************************************************************)
(* In every file, however its callables are nested, no line counts for two *)
(* of them except where a header ends on the line of a one-line body, and  *)
(* if every callable has lines of its own, exactly the decorators, outside *)
(* of lambdas, of the first statement of an outermost callable are lost    *)
(* (crap.py:631 and 640, coverage.py:394).                                 *)
(***************************************************************************)
THEOREM LinesOnce == Spec => []LinesCountedOnce
  <1>1. Init => FileInv
    BY DEF Init, WellFormed, FileInv
  <1>2. QualityInv /\ FileInv /\ [Next]_vars => FileInv'
    <2> SUFFICES ASSUME QualityInv, FileInv, [Next]_vars PROVE FileInv'
      OBVIOUS
    <2>1. ASSUME NextCallable
          PROVE  FileInv'
      <3>1. PICK c \in CallableAt(Len(file)) :
              WellFormed(Append(file, c)) /\ file' = Append(file, c)
        BY <2>1 DEF NextCallable
      <3> QED BY <3>1 DEF Callables, FileInv
    <2>2. ASSUME MeasureSource
          PROVE  FileInv'
      BY <2>2 DEF MeasureSource, WellFormed, FileInv
    <2>3. ASSUME \/ ReportFails \/ AnalysisFails \/ SelectMetrics \/ Mutate \/ UNCHANGED vars
                 \/ \E texts \in Limits, now \in Times : Judge(texts, now)
                 \/ \E now \in Times : Commit(now)
          PROVE  FileInv'
      <3>1. file' = file
        BY <2>3 DEF ReportFails, AnalysisFails, SelectMetrics, Mutate, Judge, Commit, vars
      <3> QED BY <3>1 DEF FileInv
    <2> QED BY <2>1, <2>2, <2>3 DEF Next, Limits
  <1>3. FileInv => LinesCountedOnce
    BY NoLineTwice, NoLineLost DEF LinesCountedOnce, FileInv
  <1> QED BY <1>1, <1>2, <1>3, QualityHolds, PTL DEF Spec
=============================================================================
