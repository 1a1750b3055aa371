--------------------------- MODULE MC_CenterImage ---------------------------
(* centerImage_ for TLC, over box and image sizes around the AUTO          *)
(* threshold.                                                              *)
EXTENDS CenterImage, TLC

(* Every call except AUTO on a rotated image.                              *)
MCInputsUpright == {c \in AllInputs : ~(c.mode = "AUTO" /\ c.rotate)}

(* AUTO on rotated images.                                                 *)
MCInputsAutoRotated == {c \in AllInputs : c.mode = "AUTO" /\ c.rotate}
=============================================================================
