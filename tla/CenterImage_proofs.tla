------------------------- MODULE CenterImage_proofs -------------------------
(***************************************************************************)
(* Proofs about centerImage_ for every box and image size: the rounding   *)
(* of toFixed(2) never moves a centred image by more than 0.01%.          *)
(***************************************************************************)
EXTENDS CenterImage, TLAPS

-----------------------------------------------------------------------------
(* Rounding.                                                               *)
-----------------------------------------------------------------------------

(* Half-up rounding of a / d lands within half a unit of it.               *)
LEMMA RoundBounds ==
    ASSUME NEW a \in Int, NEW d \in Nat \ {0}
    PROVE  /\ RoundHalfUp(a, d) \in Int
           /\ 2 * d * RoundHalfUp(a, d) <= 2 * a + d
           /\ 2 * a + d < 2 * d * RoundHalfUp(a, d) + 2 * d
<1> DEFINE q == (2 * a + d) \div (2 * d)
           r == (2 * a + d) % (2 * d)
<1>1. /\ q \in Int /\ r \in 0..(2 * d - 1)
      /\ 2 * a + d = 2 * d * q + r
  OBVIOUS
<1>2. QED
  BY <1>1 DEF RoundHalfUp

(* toFixed(2) of a fraction n / d with d > 0, in hundredths of a percent, *)
(* is an integer p with |2d * p - 20000 n| <= d, on either side of 0.     *)
LEMMA PercentBounds ==
    ASSUME NEW n \in Int, NEW d \in Nat \ {0}
    PROVE  /\ Percent(<<n, d>>) \in Int
           /\ 2 * d * Percent(<<n, d>>) - 20000 * n \in -d..d
<1>1. CASE n >= 0
  <2>1. Percent(<<n, d>>) = RoundHalfUp(n * 10000, d)
    BY <1>1 DEF Percent
  <2>2. /\ RoundHalfUp(n * 10000, d) \in Int
        /\ 2 * d * RoundHalfUp(n * 10000, d) <= 2 * (n * 10000) + d
        /\ 2 * (n * 10000) + d < 2 * d * RoundHalfUp(n * 10000, d) + 2 * d
    BY RoundBounds
  <2>3. QED
    BY <2>1, <2>2
<1>2. CASE n < 0
  <2>1. Percent(<<n, d>>) = -RoundHalfUp(-n * 10000, d)
    BY <1>2 DEF Percent
  <2>2. /\ RoundHalfUp(-n * 10000, d) \in Int
        /\ 2 * d * RoundHalfUp(-n * 10000, d) <= 2 * (-n * 10000) + d
        /\ 2 * (-n * 10000) + d < 2 * d * RoundHalfUp(-n * 10000, d) + 2 * d
    BY RoundBounds
  <2>3. QED
    BY <2>1, <2>2
<1>3. QED
  BY <1>1, <1>2

(* The sum of the two errors.                                               *)
LEMMA ErrorSum ==
    ASSUME NEW A \in Int, NEW B \in Int, NEW n \in Int, NEW d \in Int,
           A - 20000 * n \in -d..d,
           B - 20000 * (d - n) \in -(2 * d)..(2 * d)
    PROVE  A + B - 20000 * d \in -(3 * d)..(3 * d)
OBVIOUS

(* The width n / d and the offset (d - n) / 2d, both rounded: twice the   *)
(* offset plus the width is 100% to within 0.01%.                          *)
LEMMA CenteredRounding ==
    ASSUME NEW n \in Int, NEW d \in Nat \ {0}
    PROVE  2 * Percent(<<d - n, 2 * d>>) + Percent(<<n, d>>) \in 9999..10001
<1> DEFINE W == Percent(<<n, d>>)
           L == Percent(<<d - n, 2 * d>>)
           X == 2 * L + W - 10000
<1>1. W \in Int /\ 2 * d * W - 20000 * n \in -d..d
  BY PercentBounds
<1>2. L \in Int /\ 2 * (2 * d) * L - 20000 * (d - n) \in -(2 * d)..(2 * d)
  BY PercentBounds
<1>6. 2 * d * X = 2 * (2 * d) * L + 2 * d * W - 20000 * d
  BY <1>1, <1>2
<1>7. 2 * d * W + 2 * (2 * d) * L - 20000 * d \in -(3 * d)..(3 * d)
  <2>1. 2 * d * W \in Int /\ 2 * (2 * d) * L \in Int
    BY <1>1, <1>2
  <2>2. QED
    BY <1>1, <1>2, <2>1, ErrorSum
<1>3. X \in Int /\ 2 * d * X \in -(3 * d)..(3 * d)
  BY <1>1, <1>2, <1>6, <1>7
<1>4. X \in -1..1
  <2>1. X >= 2 => 2 * d * X >= 4 * d
    BY <1>3
  <2>2. X <= -2 => 2 * d * X <= -(4 * d)
    BY <1>3
  <2>3. QED
    BY <1>3, <2>1, <2>2
<1>5. QED
  BY <1>1, <1>2, <1>4

-----------------------------------------------------------------------------
(* The fractions centerImage_ computes.                                    *)
-----------------------------------------------------------------------------

(* A fraction with a positive denominator.                                 *)
Fractions == Int \X (Nat \ {0})

LEMMA FracOps ==
    ASSUME NEW a \in Fractions, NEW b \in Fractions
    PROVE  /\ FMul(a, b) \in Fractions
           /\ FMin(a, b) \in {a, b} /\ FMax(a, b) \in {a, b}
BY DEF Fractions, FMul, FMin, FMax

(* The fill switch is a Boolean for every fill mode.                       *)
LEMMA FillBool ==
    ASSUME NEW c \in AllInputs PROVE Fill(c) \in BOOLEAN
BY DEF AllInputs, FillModes, Fill

(* The width and height fractions of the two branches of centerImage_.     *)
Fractions2(c) ==
    IF c.bw # 0 /\ c.bh # 0 THEN KnownBoxFractions(c, Fill(c))
                            ELSE UnknownBoxFractions(c, Fill(c))

LEMMA CenterFractions ==
    ASSUME NEW c \in AllInputs
    PROVE  Fractions2(c) \in Fractions \X Fractions
<1> USE CenterImageAssumption
<1>1. /\ c.bw \in Nat /\ c.bh \in Nat
      /\ c.iw \in Nat \ {0} /\ c.ih \in Nat \ {0}
      /\ c.rotate \in BOOLEAN
  BY DEF AllInputs
<1>2. Fill(c) \in BOOLEAN
  BY FillBool
<1>3. CASE c.bw # 0 /\ c.bh # 0
  <2> DEFINE fx == Frac(IF c.rotate THEN c.bh ELSE c.bw, c.iw)
             fy == Frac(IF c.rotate THEN c.bw ELSE c.bh, c.ih)
             sc == FMin(IF Fill(c) THEN FMax(fx, fy) ELSE FMin(fx, fy), One)
  <2>1. fx \in Fractions /\ fy \in Fractions /\ One \in Fractions
    BY <1>1 DEF Frac, Fractions, One
  <2>2. (IF Fill(c) THEN FMax(fx, fy) ELSE FMin(fx, fy)) \in Fractions
    BY <1>2, <2>1, FracOps
  <2>3. sc \in Fractions
    BY <2>1, <2>2, FracOps
  <2>4. Frac(c.iw, c.bw) \in Fractions /\ Frac(c.ih, c.bh) \in Fractions
    BY <1>1, <1>3 DEF Frac, Fractions
  <2>5. FMul(Frac(c.iw, c.bw), sc) \in Fractions
        /\ FMul(Frac(c.ih, c.bh), sc) \in Fractions
    BY <2>3, <2>4, FracOps
  <2>6. Fractions2(c) = <<FMul(Frac(c.iw, c.bw), sc), FMul(Frac(c.ih, c.bh), sc)>>
    BY <1>3 DEF Fractions2, KnownBoxFractions
  <2>7. QED
    BY <2>5, <2>6
<1>4. CASE ~(c.bw # 0 /\ c.bh # 0)
  <2>1. One \in Fractions /\ Frac(c.ih, c.iw) \in Fractions
        /\ Frac(c.iw, c.ih) \in Fractions
    BY <1>1 DEF One, Frac, Fractions
  <2>2. QED
    BY <1>4, <2>1 DEF Fractions2, UnknownBoxFractions
<1>5. QED
  BY <1>3, <1>4

(* The style of fractions with positive denominators is centred after      *)
(* rounding.                                                               *)
LEMMA StyleCentered ==
    ASSUME NEW f \in Fractions \X Fractions
    PROVE  /\ 2 * StyleOf(f).left + StyleOf(f).width \in 9999..10001
           /\ 2 * StyleOf(f).top + StyleOf(f).height \in 9999..10001
<1>1. /\ f[1] = <<f[1][1], f[1][2]>> /\ f[1][1] \in Int /\ f[1][2] \in Nat \ {0}
      /\ f[2] = <<f[2][1], f[2][2]>> /\ f[2][1] \in Int /\ f[2][2] \in Nat \ {0}
  BY DEF Fractions
<1>2. 2 * Percent(<<f[1][2] - f[1][1], 2 * f[1][2]>>) + Percent(<<f[1][1], f[1][2]>>)
        \in 9999..10001
  BY <1>1, CenteredRounding
<1>3. 2 * Percent(<<f[2][2] - f[2][1], 2 * f[2][2]>>) + Percent(<<f[2][1], f[2][2]>>)
        \in 9999..10001
  BY <1>1, CenteredRounding
<1>4. QED
  BY <1>1, <1>2, <1>3 DEF StyleOf, Frac

-----------------------------------------------------------------------------
(* Every call leaves a centred style.                                      *)
-----------------------------------------------------------------------------

CenterInv == call \in AllInputs /\ style = CenterImage(call)

LEMMA CenterInvariant == Spec => []CenterInv
<1>1. Init => CenterInv
  BY CenterImageAssumption DEF Init, CenterInv
<1>2. CenterInv /\ [Next]_vars => CenterInv'
  BY CenterImageAssumption DEF CenterInv, Next, Attach, vars
<1>3. QED
  BY <1>1, <1>2, PTL DEF Spec

(* For every box size, known or not, every image size and fill mode,       *)
(* upright or rotated, the style centerImage_ sets is centred after        *)
(* toFixed(2): twice the left offset plus the width is 100% to within      *)
(* 0.01%, and likewise top and height.                                     *)
THEOREM CenteredPercentagesHold == Spec => []CenteredPercentages
<1>3. CenterInv => CenteredPercentages
  <2> SUFFICES ASSUME CenterInv PROVE CenteredPercentages
    OBVIOUS
  <2>1. style = StyleOf(Fractions2(call))
    BY DEF CenterInv, CenterImage, Fractions2
  <2>2. Fractions2(call) \in Fractions \X Fractions
    BY CenterFractions DEF CenterInv
  <2>3. QED
    BY <2>1, <2>2, StyleCentered DEF CenteredPercentages
<1>4. QED
  BY <1>3, CenterInvariant, PTL


(* Every call sets a style of exact fractions with positive denominators  *)
(* and four finite percentages: toFixed never prints Infinity or NaN here, *)
(* because an unknown box size takes the other branch.                      *)
THEOREM TypeCorrect == Spec => []TypeOK
<1>1. CenterInv => TypeOK
  <2> SUFFICES ASSUME CenterInv PROVE TypeOK
    OBVIOUS
  <2> DEFINE f == Fractions2(call)
  <2>1. style = StyleOf(f) /\ f \in Fractions \X Fractions
    BY CenterFractions DEF CenterInv, CenterImage, Fractions2
  <2>2. /\ f[1] = <<f[1][1], f[1][2]>> /\ f[1][1] \in Int /\ f[1][2] \in Nat \ {0}
        /\ f[2] = <<f[2][1], f[2][2]>> /\ f[2][1] \in Int /\ f[2][2] \in Nat \ {0}
    BY <2>1 DEF Fractions
  <2>5. Percent(<<f[1][1], f[1][2]>>) \in Int
    BY <2>2, PercentBounds
  <2>6. Percent(<<f[2][1], f[2][2]>>) \in Int
    BY <2>2, PercentBounds
  <2>7. Percent(<<f[1][2] - f[1][1], 2 * f[1][2]>>) \in Int
    BY <2>2, PercentBounds
  <2>8. Percent(<<f[2][2] - f[2][1], 2 * f[2][2]>>) \in Int
    BY <2>2, PercentBounds
  <2>3. /\ Percent(f[1]) \in Int /\ Percent(f[2]) \in Int
        /\ Percent(<<f[1][2] - f[1][1], 2 * f[1][2]>>) \in Int
        /\ Percent(<<f[2][2] - f[2][1], 2 * f[2][2]>>) \in Int
    BY <2>2, <2>5, <2>6, <2>7, <2>8
  <2>4. QED
    BY <2>1, <2>2, <2>3 DEF TypeOK, StyleRec, StyleOf, Frac, Fractions, CenterInv
<1>2. QED
  BY <1>1, CenterInvariant, PTL


-----------------------------------------------------------------------------
(* Equal fractions.  FEq is equality of the values of two fractions with  *)
(* positive denominators; the operators of the module respect it.          *)
-----------------------------------------------------------------------------

LEMMA FEqMul ==
    ASSUME NEW a \in Fractions, NEW a2 \in Fractions,
           NEW b \in Fractions, NEW b2 \in Fractions,
           FEq(a, a2), FEq(b, b2)
    PROVE  FEq(FMul(a, b), FMul(a2, b2))
<1>0. /\ a[1] \in Int /\ a2[1] \in Int /\ b[1] \in Int /\ b2[1] \in Int
      /\ a[2] \in Int /\ a2[2] \in Int /\ b[2] \in Int /\ b2[2] \in Int
  BY DEF Fractions
<1>1. a[1] * a2[2] = a2[1] * a[2] /\ b[1] * b2[2] = b2[1] * b[2]
  BY DEF FEq
<1>2. (a[1] * a2[2]) * (b[1] * b2[2]) = (a2[1] * a[2]) * (b2[1] * b[2])
  BY <1>0, <1>1
<1>3. (a[1] * b[1]) * (a2[2] * b2[2]) = (a2[1] * b2[1]) * (a[2] * b[2])
  BY <1>0, <1>2
<1>4. QED
  BY <1>3 DEF FEq, FMul

LEMMA FLeqCong ==
    ASSUME NEW a \in Fractions, NEW a2 \in Fractions,
           NEW b \in Fractions, NEW b2 \in Fractions,
           FEq(a, a2), FEq(b, b2)
    PROVE  FLeq(a, b) <=> FLeq(a2, b2)
<1> DEFINE p == a2[2] * b2[2]
           q == a[2] * b[2]
<1>1. p \in Nat \ {0} /\ q \in Nat \ {0}
  BY DEF Fractions
<1>2. a[1] * a2[2] = a2[1] * a[2] /\ b[1] * b2[2] = b2[1] * b[2]
  BY DEF FEq
<1>3. (a[1] * b[2] <= b[1] * a[2]) <=> (a[1] * b[2]) * p <= (b[1] * a[2]) * p
  BY <1>1 DEF Fractions
<1>0. /\ a[1] \in Int /\ a2[1] \in Int /\ b[1] \in Int /\ b2[1] \in Int
      /\ a[2] \in Int /\ a2[2] \in Int /\ b[2] \in Int /\ b2[2] \in Int
  BY DEF Fractions
<1>4. (a[1] * b[2]) * p = (a2[1] * b2[2]) * q
  <2>1. (a[1] * b[2]) * p = (a[1] * a2[2]) * (b[2] * b2[2])
    BY <1>0
  <2>2. (a2[1] * b2[2]) * q = (a2[1] * a[2]) * (b[2] * b2[2])
    BY <1>0
  <2>3. QED
    BY <1>2, <2>1, <2>2
<1>5. (b[1] * a[2]) * p = (b2[1] * a2[2]) * q
  <2>1. (b[1] * a[2]) * p = (b[1] * b2[2]) * (a[2] * a2[2])
    BY <1>0
  <2>2. (b2[1] * a2[2]) * q = (b2[1] * b[2]) * (a[2] * a2[2])
    BY <1>0
  <2>3. QED
    BY <1>2, <2>1, <2>2
<1>6. (a2[1] * b2[2] <= b2[1] * a2[2]) <=> (a2[1] * b2[2]) * q <= (b2[1] * a2[2]) * q
  BY <1>1 DEF Fractions
<1>7. QED
  BY <1>3, <1>4, <1>5, <1>6 DEF FLeq

LEMMA FEqRefl ==
    ASSUME NEW a \in Fractions PROVE FEq(a, a)
BY DEF FEq

LEMMA FMinMaxSym ==
    ASSUME NEW a \in Fractions, NEW b \in Fractions
    PROVE  FEq(FMax(a, b), FMax(b, a)) /\ FEq(FMin(a, b), FMin(b, a))
<1>1. CASE FLeq(a, b) /\ FLeq(b, a)
  <2>1. FEq(a, b) /\ FEq(b, a)
    BY <1>1 DEF FLeq, FEq, Fractions
  <2>2. QED
    BY <1>1, <2>1 DEF FMax, FMin
<1>2. CASE ~(FLeq(a, b) /\ FLeq(b, a))
  <2>1. FLeq(a, b) \/ FLeq(b, a)
    BY DEF FLeq, Fractions
  <2>2. FEq(a, a) /\ FEq(b, b)
    BY FEqRefl
  <2>3. QED
    BY <1>2, <2>1, <2>2 DEF FMax, FMin
<1>3. QED
  BY <1>1, <1>2

LEMMA FMinMaxCong ==
    ASSUME NEW a \in Fractions, NEW a2 \in Fractions,
           NEW b \in Fractions, NEW b2 \in Fractions,
           FEq(a, a2), FEq(b, b2)
    PROVE  FEq(FMax(a, b), FMax(a2, b2)) /\ FEq(FMin(a, b), FMin(a2, b2))
<1>1. FLeq(a, b) <=> FLeq(a2, b2)
  BY FLeqCong
<1>2. QED
  BY <1>1 DEF FMax, FMin


-----------------------------------------------------------------------------
(* The layout of one call is the one of spec.md section 4.3.               *)
-----------------------------------------------------------------------------

(* SpecDisplayed with its fill choice as a parameter.                      *)
SpecWith(c, fill) ==
    LET ow == IF c.rotate THEN c.ih ELSE c.iw
        oh == IF c.rotate THEN c.iw ELSE c.ih
        known == c.bw # 0 /\ c.bh # 0
        sx == IF known THEN Frac(c.bw, ow) ELSE Frac(1, ow)
        sy == IF known THEN Frac(c.bh, oh) ELSE Frac(1, oh)
        s0 == IF fill THEN FMax(sx, sy) ELSE FMin(sx, sy)
        s == IF known THEN FMin(s0, One) ELSE s0
    IN  IF known THEN <<FMul(Frac(ow, c.bw), s), FMul(Frac(oh, c.bh), s)>>
                 ELSE <<FMul(Frac(ow, 1), s), FMul(Frac(oh, 1), s)>>

(* The geometry of the call c matches the spec's.                          *)
GeoOK(c) ==
    LET shown == ShownDisplayed(c, CenterImage(c))
        spec == SpecDisplayed(c)
    IN  FEq(shown[1], spec[1]) /\ FEq(shown[2], spec[2])

(* Upright, or rotated with a fill mode that does not depend on the ratio. *)
UprightOrFixed(c) == ~(c.mode = "AUTO" /\ c.rotate)

(* The spec's fill choice is the code's, except for AUTO on a rotated      *)
(* image, where the code compares the unrotated ratio (media_util.js:274). *)
LEMMA SpecFill ==
    ASSUME NEW c \in AllInputs, UprightOrFixed(c)
    PROVE  SpecDisplayed(c) = SpecWith(c, Fill(c))
<1>1. c.mode \in {"FILL", "FIT", "AUTO"}
  BY DEF AllInputs, FillModes
<1>2. CASE c.mode = "FILL"
  BY <1>2 DEF SpecDisplayed, SpecWith, Fill
<1>3. CASE c.mode = "FIT"
  BY <1>3 DEF SpecDisplayed, SpecWith, Fill
<1>4. CASE c.mode = "AUTO"
  <2>1. ~c.rotate
    BY <1>4 DEF UprightOrFixed
  <2>2. QED
    BY <1>4, <2>1 DEF SpecDisplayed, SpecWith, Fill, AUTO_FILL_THRESHOLD
<1>5. QED
  BY <1>1, <1>2, <1>3, <1>4


(* What the style shows is the pair of fractions centerImage_ computed,    *)
(* swapped and rescaled to the box for a rotated image.                    *)
LEMMA ShownOfCall ==
    ASSUME NEW c \in AllInputs
    PROVE  LET f == Fractions2(c)
               known == c.bw # 0 /\ c.bh # 0
               bw == IF known THEN c.bw ELSE 1
               bh == IF known THEN c.bh ELSE 1
           IN  ShownDisplayed(c, CenterImage(c)) =
                 IF c.rotate THEN <<FMul(f[2], Frac(bh, bw)), FMul(f[1], Frac(bw, bh))>>
                             ELSE f
<1>1. CenterImage(c) = StyleOf(Fractions2(c))
  BY DEF CenterImage, Fractions2
<1>2. Fractions2(c) \in Fractions \X Fractions
  BY CenterFractions
<1>3. QED
  BY <1>1, <1>2 DEF ShownDisplayed, StyleOf

(* A laid-out box and an upright image: the code's formulas are the        *)
(* spec's, term for term.                                                  *)
LEMMA KnownUpright ==
    ASSUME NEW c \in AllInputs, UprightOrFixed(c),
           c.bw # 0, c.bh # 0, ~c.rotate
    PROVE  GeoOK(c)
<1>1. Fractions2(c) \in Fractions \X Fractions
  BY CenterFractions
<1>2. ShownDisplayed(c, CenterImage(c)) = Fractions2(c)
  BY ShownOfCall
<1>3. SpecDisplayed(c) = Fractions2(c)
  <2>1. SpecDisplayed(c) = SpecWith(c, Fill(c))
    BY SpecFill
  <2>2. QED
    BY <2>1 DEF SpecWith, Fractions2, KnownBoxFractions
<1>4. QED
  BY <1>1, <1>2, <1>3, FEqRefl DEF GeoOK


(* A laid-out box and a rotated image: the code swaps the box's sides in   *)
(* the fit scales, the spec swaps the image's; the scales are equal and    *)
(* the shown sides, rescaled to the box, are the spec's.                   *)
LEMMA KnownRotated ==
    ASSUME NEW c \in AllInputs, UprightOrFixed(c),
           c.bw # 0, c.bh # 0, c.rotate
    PROVE  GeoOK(c)
<1> DEFINE fx == Frac(c.bh, c.iw)
           fy == Frac(c.bw, c.ih)
           M(x, y) == IF Fill(c) THEN FMax(x, y) ELSE FMin(x, y)
           sc == FMin(M(fx, fy), One)
           sp == FMin(M(fy, fx), One)
<1>1. /\ c.bw \in Nat \ {0} /\ c.bh \in Nat \ {0}
      /\ c.iw \in Nat \ {0} /\ c.ih \in Nat \ {0}
  BY CenterImageAssumption DEF AllInputs
<1>2. /\ fx \in Fractions /\ fy \in Fractions /\ One \in Fractions
      /\ Fill(c) \in BOOLEAN
  BY <1>1, FillBool DEF Frac, Fractions, One
<1>3. M(fx, fy) \in Fractions /\ M(fy, fx) \in Fractions
  BY <1>2, FracOps
<1>4. sc \in Fractions /\ sp \in Fractions
  BY <1>2, <1>3, FracOps
<1>5. FEq(sc, sp)
  <2>1. FEq(M(fx, fy), M(fy, fx))
    BY <1>2, FMinMaxSym
  <2>2. FEq(One, One)
    BY <1>2, FEqRefl
  <2>3. QED
    BY <1>2, <1>3, <2>1, <2>2, FMinMaxCong
<1>6. Fractions2(c) = <<FMul(Frac(c.iw, c.bw), sc), FMul(Frac(c.ih, c.bh), sc)>>
  BY DEF Fractions2, KnownBoxFractions
<1>7. SpecDisplayed(c) = <<FMul(Frac(c.ih, c.bw), sp), FMul(Frac(c.iw, c.bh), sp)>>
  BY SpecFill DEF SpecWith
<1>8. ShownDisplayed(c, CenterImage(c)) =
        <<FMul(FMul(Frac(c.ih, c.bh), sc), Frac(c.bh, c.bw)),
          FMul(FMul(Frac(c.iw, c.bw), sc), Frac(c.bw, c.bh))>>
  BY <1>6, ShownOfCall
<1>9. PICK n1 \in Int, d1 \in Nat \ {0}, n2 \in Int, d2 \in Nat \ {0} :
          sc = <<n1, d1>> /\ sp = <<n2, d2>> /\ n1 * d2 = n2 * d1
  <2>1. /\ sc = <<sc[1], sc[2]>> /\ sc[1] \in Int /\ sc[2] \in Nat \ {0}
        /\ sp = <<sp[1], sp[2]>> /\ sp[1] \in Int /\ sp[2] \in Nat \ {0}
    BY <1>4 DEF Fractions
  <2>2. sc[1] * sp[2] = sp[1] * sc[2]
    BY <1>5 DEF FEq
  <2>3. QED
    BY <2>1, <2>2
<1>10. FEq(FMul(FMul(Frac(c.ih, c.bh), sc), Frac(c.bh, c.bw)),
           FMul(Frac(c.ih, c.bw), sp))
  <2>1. (c.ih * n1 * c.bh) * (c.bw * d2) = (c.ih * n2) * (c.bh * d1 * c.bw)
    <3>1. (c.ih * n1 * c.bh) * (c.bw * d2) = (c.ih * c.bh * c.bw) * (n1 * d2)
      BY <1>1
    <3>2. (c.ih * n2) * (c.bh * d1 * c.bw) = (c.ih * c.bh * c.bw) * (n2 * d1)
      BY <1>1
    <3>3. QED
      BY <1>9, <3>1, <3>2
  <2>2. QED
    BY <1>9, <2>1 DEF FEq, FMul, Frac
<1>11. FEq(FMul(FMul(Frac(c.iw, c.bw), sc), Frac(c.bw, c.bh)),
           FMul(Frac(c.iw, c.bh), sp))
  <2>1. (c.iw * n1 * c.bw) * (c.bh * d2) = (c.iw * n2) * (c.bw * d1 * c.bh)
    <3>1. (c.iw * n1 * c.bw) * (c.bh * d2) = (c.iw * c.bw * c.bh) * (n1 * d2)
      BY <1>1
    <3>2. (c.iw * n2) * (c.bw * d1 * c.bh) = (c.iw * c.bw * c.bh) * (n2 * d1)
      BY <1>1
    <3>3. QED
      BY <1>9, <3>1, <3>2
  <2>2. QED
    BY <1>9, <2>1 DEF FEq, FMul, Frac
<1>12. QED
  BY <1>7, <1>8, <1>10, <1>11 DEF GeoOK


(* A box not laid out yet: the code takes the image's aspect ratio and 1,  *)
(* the spec a unit square scaled by the larger or smaller of 1/width and   *)
(* 1/height, with no cap; both give the image's sides over its shorter    *)
(* (fill) or longer (fit) side.                                            *)
LEMMA UnknownBox ==
    ASSUME NEW c \in AllInputs, UprightOrFixed(c), ~(c.bw # 0 /\ c.bh # 0)
    PROVE  GeoOK(c)
<1> DEFINE ow == IF c.rotate THEN c.ih ELSE c.iw
           oh == IF c.rotate THEN c.iw ELSE c.ih
           s == IF Fill(c) THEN FMax(Frac(1, ow), Frac(1, oh))
                           ELSE FMin(Frac(1, ow), Frac(1, oh))
           f == Fractions2(c)
<1>1. /\ c.iw \in Nat \ {0} /\ c.ih \in Nat \ {0}
      /\ Fill(c) \in BOOLEAN /\ c.rotate \in BOOLEAN
  BY CenterImageAssumption, FillBool DEF AllInputs
<1>2. SpecDisplayed(c) = <<FMul(Frac(ow, 1), s), FMul(Frac(oh, 1), s)>>
  BY SpecFill DEF SpecWith
<1>3. f = IF (c.iw < c.ih) = Fill(c) THEN <<One, Frac(c.ih, c.iw)>>
                                     ELSE <<Frac(c.iw, c.ih), One>>
  BY DEF Fractions2, UnknownBoxFractions
<1>4. ShownDisplayed(c, CenterImage(c)) =
        IF c.rotate THEN <<FMul(f[2], Frac(1, 1)), FMul(f[1], Frac(1, 1))>> ELSE f
  BY ShownOfCall
<1>5. CASE ~c.rotate
  <2>1. CASE Fill(c)
    <3>1. CASE c.iw < c.ih
      <4>1. f = <<One, Frac(c.ih, c.iw)>>
        BY <1>1, <1>3, <2>1, <3>1
      <4>2. QED
        BY <1>1, <1>2, <1>4, <1>5, <2>1, <3>1, <4>1 DEF GeoOK, FEq, FMul, FMax, FLeq, Frac, One
    <3>2. CASE ~(c.iw < c.ih)
      <4>1. f = <<Frac(c.iw, c.ih), One>>
        BY <1>1, <1>3, <2>1, <3>2
      <4>2. QED
        BY <1>1, <1>2, <1>4, <1>5, <2>1, <3>2, <4>1 DEF GeoOK, FEq, FMul, FMax, FLeq, Frac, One
    <3>3. QED
      BY <3>1, <3>2
  <2>2. CASE ~Fill(c)
    <3>1. CASE c.iw < c.ih
      <4>1. f = <<Frac(c.iw, c.ih), One>>
        BY <1>1, <1>3, <2>2, <3>1
      <4>2. QED
        BY <1>1, <1>2, <1>4, <1>5, <2>2, <3>1, <4>1 DEF GeoOK, FEq, FMul, FMin, FLeq, Frac, One
    <3>2. CASE ~(c.iw < c.ih)
      <4>1. f = <<One, Frac(c.ih, c.iw)>>
        BY <1>1, <1>3, <2>2, <3>2
      <4>2. QED
        BY <1>1, <1>2, <1>4, <1>5, <2>2, <3>2, <4>1 DEF GeoOK, FEq, FMul, FMin, FLeq, Frac, One
    <3>3. QED
      BY <3>1, <3>2
  <2>3. QED
    BY <1>1, <2>1, <2>2
<1>6. CASE c.rotate
  <2>1. CASE Fill(c)
    <3>1. CASE c.iw < c.ih
      <4>1. f = <<One, Frac(c.ih, c.iw)>>
        BY <1>1, <1>3, <2>1, <3>1
      <4>2. QED
        BY <1>1, <1>2, <1>4, <1>6, <2>1, <3>1, <4>1 DEF GeoOK, FEq, FMul, FMax, FLeq, Frac, One
    <3>2. CASE ~(c.iw < c.ih)
      <4>1. f = <<Frac(c.iw, c.ih), One>>
        BY <1>1, <1>3, <2>1, <3>2
      <4>2. QED
        BY <1>1, <1>2, <1>4, <1>6, <2>1, <3>2, <4>1 DEF GeoOK, FEq, FMul, FMax, FLeq, Frac, One
    <3>3. QED
      BY <3>1, <3>2
  <2>2. CASE ~Fill(c)
    <3>1. CASE c.iw < c.ih
      <4>1. f = <<Frac(c.iw, c.ih), One>>
        BY <1>1, <1>3, <2>2, <3>1
      <4>2. QED
        BY <1>1, <1>2, <1>4, <1>6, <2>2, <3>1, <4>1 DEF GeoOK, FEq, FMul, FMin, FLeq, Frac, One
    <3>2. CASE ~(c.iw < c.ih)
      <4>1. f = <<One, Frac(c.ih, c.iw)>>
        BY <1>1, <1>3, <2>2, <3>2
      <4>2. QED
        BY <1>1, <1>2, <1>4, <1>6, <2>2, <3>2, <4>1 DEF GeoOK, FEq, FMul, FMin, FLeq, Frac, One
    <3>3. QED
      BY <3>1, <3>2
  <2>3. QED
    BY <1>1, <2>1, <2>2
<1>7. QED
  BY <1>5, <1>6


LEMMA CallGeometry ==
    ASSUME NEW c \in AllInputs, UprightOrFixed(c)
    PROVE  GeoOK(c)
<1>1. CASE c.bw # 0 /\ c.bh # 0 /\ ~c.rotate
  BY <1>1, KnownUpright
<1>2. CASE c.bw # 0 /\ c.bh # 0 /\ c.rotate
  BY <1>2, KnownRotated
<1>3. CASE ~(c.bw # 0 /\ c.bh # 0)
  BY <1>3, UnknownBox
<1>4. QED
  BY <1>1, <1>2, <1>3

(* The call attachImage last made, and the style it left.                 *)
GeoInv == call \in Inputs /\ style = CenterImage(call)

(* For every box size, laid out or not, every image size, fill mode and   *)
(* rotation except AUTO on a rotated image, the image centerImage_ lays   *)
(* out has the sides spec.md section 4.3 gives it: the same fill choice,  *)
(* the same scale and the cap at the natural size.  AUTO on a rotated     *)
(* image is excluded: there the code compares the unrotated ratio          *)
(* (media_util.js:274) and the spec the rotated one.                      *)
THEOREM GeometryMatchesSpecHolds ==
    ASSUME \A c \in Inputs : UprightOrFixed(c)
    PROVE  Spec => []GeometryMatchesSpec
<1>1. Init => GeoInv
  BY DEF Init, GeoInv
<1>2. GeoInv /\ [Next]_vars => GeoInv'
  BY DEF GeoInv, Next, Attach, vars
<1>3. GeoInv => GeometryMatchesSpec
  <2> SUFFICES ASSUME GeoInv PROVE GeometryMatchesSpec
    OBVIOUS
  <2>1. call \in AllInputs /\ UprightOrFixed(call)
    BY CenterImageAssumption DEF GeoInv
  <2>2. GeoOK(call)
    BY <2>1, CallGeometry
  <2>3. QED
    BY <2>2 DEF GeoInv, GeoOK, GeometryMatchesSpec
<1>4. QED
  BY <1>1, <1>2, <1>3, PTL DEF Spec

=============================================================================
