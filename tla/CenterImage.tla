---------------------------- MODULE CenterImage ----------------------------
(***************************************************************************)
(* ThumbnailLoader.centerImage_ (media_util.js): the fit/crop geometry     *)
(* that attachImage applies to a loaded image.  One call takes the box's   *)
(* client size (0 when not laid out), the image's natural size (positive:  *)
(* attachImage calls it only when hasValidImage), the fill mode and        *)
(* whether the transform rotates by 90 degrees, and sets the image's       *)
(* width, height, left and top as percentages with two decimals.           *)
(*                                                                         *)
(* The code computes in doubles; the model computes exactly, with          *)
(* fractions <<numerator, denominator>> (denominator positive), and a      *)
(* percentage is an integer count of hundredths of a percent rounded the   *)
(* way Number.prototype.toFixed(2) rounds (half away from zero).           *)
(***************************************************************************)
EXTENDS Integers

CONSTANTS
    BoxDims,     \* box client widths and heights (0: unknown)
    ImageDims,   \* natural image widths and heights
    Inputs,      \* the calls to check: a subset of AllInputs
    NonFinite    \* toFixed of Infinity or NaN ("Infinity", "NaN")

(* ThumbnailLoader.FillMode                                                *)
FillModes == {"FILL", "FIT", "AUTO"}

AllInputs == [bw : BoxDims, bh : BoxDims, iw : ImageDims, ih : ImageDims,
              mode : FillModes, rotate : BOOLEAN]

ASSUME CenterImageAssumption ==
    /\ BoxDims \subseteq Nat
    /\ ImageDims \subseteq Nat \ {0}
    /\ Inputs \subseteq AllInputs

VARIABLES
    call,    \* the arguments of the call
    style    \* the style it set: exact fractions and the four percentages

vars == <<call, style>>

-----------------------------------------------------------------------------
(* Fractions.                                                              *)
Frac(n, d) == <<n, d>>
FLeq(a, b) == a[1] * b[2] <= b[1] * a[2]
FEq(a, b) == a[1] * b[2] = b[1] * a[2]
FMin(a, b) == IF FLeq(a, b) THEN a ELSE b
FMax(a, b) == IF FLeq(a, b) THEN b ELSE a
FMul(a, b) == <<a[1] * b[1], a[2] * b[2]>>
One == <<1, 1>>

(* ThumbnailLoader.AUTO_FILL_THRESHOLD = 0.3, as 3/10.                     *)
AUTO_FILL_THRESHOLD == <<3, 10>>

(* percent(fraction): (fraction * 100).toFixed(2), in hundredths of a     *)
(* percent, rounding half away from zero; a division by 0 gives Infinity  *)
(* or NaN, which toFixed prints as such.                                   *)
RoundHalfUp(n, d) == (2 * n + d) \div (2 * d)
Percent(f) ==
    CASE f[2] = 0 -> NonFinite
      [] f[1] >= 0 -> RoundHalfUp(f[1] * 10000, f[2])
      [] OTHER -> -RoundHalfUp(-f[1] * 10000, f[2])

StyleRec == [fx : Int \X (Nat \ {0}), fy : Int \X (Nat \ {0}),
             width : Int, height : Int, left : Int, top : Int]

TypeOK ==
    /\ call \in AllInputs
    /\ style \in StyleRec

-----------------------------------------------------------------------------
(* The fill switch: AUTO fills when boxRatio / imageRatio is within the    *)
(* threshold of 1, boxRatio being 1 when the box size is unknown.           *)
Fill(c) ==
    CASE c.mode = "FILL" -> TRUE
      [] c.mode = "FIT" -> FALSE
      [] c.mode = "AUTO" ->
           LET boxRatio == IF c.bw # 0 /\ c.bh # 0 THEN Frac(c.bw, c.bh) ELSE One
               ratioFactor == FMul(boxRatio, Frac(c.ih, c.iw))
           IN  /\ FLeq(Frac(AUTO_FILL_THRESHOLD[2] - AUTO_FILL_THRESHOLD[1],
                            AUTO_FILL_THRESHOLD[2]), ratioFactor)
               /\ FLeq(ratioFactor,
                       Frac(AUTO_FILL_THRESHOLD[2] + AUTO_FILL_THRESHOLD[1],
                            AUTO_FILL_THRESHOLD[2]))

(* A variant of the known-size branch without the cap at scale 1.          *)
KnownBoxFractionsOverscale(c, fill) ==
    LET fitScaleX == Frac(IF c.rotate THEN c.bh ELSE c.bw, c.iw)
        fitScaleY == Frac(IF c.rotate THEN c.bw ELSE c.bh, c.ih)
        scale == IF fill THEN FMax(fitScaleX, fitScaleY)
                         ELSE FMin(fitScaleX, fitScaleY)
    IN  <<FMul(Frac(c.iw, c.bw), scale), FMul(Frac(c.ih, c.bh), scale)>>

(* The box size is known: scale to fill or to fit the box, swapping the    *)
(* box's sides for a rotated image, never above 1; the fractions are the   *)
(* scaled image's sides over the box's.                                    *)
KnownBoxFractions(c, fill) ==
    LET fitScaleX == Frac(IF c.rotate THEN c.bh ELSE c.bw, c.iw)
        fitScaleY == Frac(IF c.rotate THEN c.bw ELSE c.bh, c.ih)
        scale == FMin(IF fill THEN FMax(fitScaleX, fitScaleY)
                              ELSE FMin(fitScaleX, fitScaleY), One)
    IN  <<FMul(Frac(c.iw, c.bw), scale), FMul(Frac(c.ih, c.bh), scale)>>

(* The box size is unknown and taken as square: the image's aspect ratio   *)
(* as fractionX with fractionY 1, swapped to 1 and its inverse for a       *)
(* vertical fill or a horizontal fit.                                       *)
UnknownBoxFractions(c, fill) ==
    IF (c.iw < c.ih) = fill THEN <<One, Frac(c.ih, c.iw)>>
                            ELSE <<Frac(c.iw, c.ih), One>>

(* A variant of the style that offsets left and top by the whole margin.   *)
StyleOfUncentered(f) ==
    [fx |-> f[1], fy |-> f[2],
     width |-> Percent(f[1]), height |-> Percent(f[2]),
     left |-> Percent(Frac(f[1][2] - f[1][1], f[1][2])),
     top |-> Percent(Frac(f[2][2] - f[2][1], f[2][2]))]

(* The four style properties set from fractionX and fractionY.            *)
StyleOf(f) ==
    [fx |-> f[1], fy |-> f[2],
     width |-> Percent(f[1]), height |-> Percent(f[2]),
     left |-> Percent(Frac(f[1][2] - f[1][1], 2 * f[1][2])),
     top |-> Percent(Frac(f[2][2] - f[2][1], 2 * f[2][2]))]

(* A variant of centerImage_ that takes the known-size branch without      *)
(* testing that the box has been laid out.                                  *)
CenterImageNoSizeCheck(c) ==
    StyleOf(KnownBoxFractions(c, Fill(c)))

(* centerImage_(box, img, fillMode, rotate).                               *)
CenterImage(c) ==
    StyleOf(IF c.bw # 0 /\ c.bh # 0 THEN KnownBoxFractions(c, Fill(c))
                                    ELSE UnknownBoxFractions(c, Fill(c)))

(* The state after a first call of centerImage_ by attachImage.           *)
Init ==
    /\ call \in Inputs
    /\ style = CenterImage(call)

(* attachImage calls centerImage_ each time it attaches a loaded image,   *)
(* with the box's current size and the fill mode of that call.             *)
Attach ==
    \E c \in Inputs :
        /\ call' = c
        /\ style' = CenterImage(c)

Next == Attach

Spec == Init /\ [][Next]_vars

-----------------------------------------------------------------------------
(* spec.md section 4.3, written from its text: the image's sides swapped  *)
(* when rotated; FILL, FIT, or for AUTO a fill when the ratio factor of    *)
(* the box (1 when unknown) and the image is within 30% of 1; a known box  *)
(* scales by the max or min of the two fit scales, capped at 1; an unknown *)
(* box is a unit square with no cap.  The result is the displayed image's *)
(* width and height as fractions of the box's.                              *)
SpecDisplayed(c) ==
    LET ow == IF c.rotate THEN c.ih ELSE c.iw
        oh == IF c.rotate THEN c.iw ELSE c.ih
        known == c.bw # 0 /\ c.bh # 0
        boxRatio == IF known THEN Frac(c.bw, c.bh) ELSE One
        factor == FMul(boxRatio, Frac(oh, ow))
        fill == \/ c.mode = "FILL"
                \/ c.mode = "AUTO" /\ FLeq(Frac(7, 10), factor)
                                   /\ FLeq(factor, Frac(13, 10))
        sx == IF known THEN Frac(c.bw, ow) ELSE Frac(1, ow)
        sy == IF known THEN Frac(c.bh, oh) ELSE Frac(1, oh)
        s0 == IF fill THEN FMax(sx, sy) ELSE FMin(sx, sy)
        s == IF known THEN FMin(s0, One) ELSE s0
    IN  IF known THEN <<FMul(Frac(ow, c.bw), s), FMul(Frac(oh, c.bh), s)>>
                 ELSE <<FMul(Frac(ow, 1), s), FMul(Frac(oh, 1), s)>>

(* What the style shows: the element's sides as fractions of the box,     *)
(* exchanged by a rotation of 90 degrees about the centre (a box side of   *)
(* 0 counts as a unit square).                                             *)
ShownDisplayed(c, st) ==
    LET known == c.bw # 0 /\ c.bh # 0
        bw == IF known THEN c.bw ELSE 1
        bh == IF known THEN c.bh ELSE 1
    IN  IF c.rotate
          THEN <<FMul(st.fy, Frac(bh, bw)), FMul(st.fx, Frac(bw, bh))>>
          ELSE <<st.fx, st.fy>>

(* The image the code lays out is the one section 4.3 describes: same     *)
(* fill choice, same scale, the cap at the natural size, for a known or an *)
(* unknown box and a rotated or upright image.                             *)
GeometryMatchesSpec ==
    LET shown == ShownDisplayed(call, style)
        spec == SpecDisplayed(call)
    IN  FEq(shown[1], spec[1]) /\ FEq(shown[2], spec[2])

(* The image is centred after rounding to two decimals: twice the left    *)
(* offset plus the width is 100% to within 0.01%, and likewise top and     *)
(* height, for images cropped (negative offset) or letterboxed.            *)
CenteredPercentages ==
    /\ 2 * style.left + style.width \in 9999..10001
    /\ 2 * style.top + style.height \in 9999..10001

=============================================================================
