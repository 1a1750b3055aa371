--------------------------- MODULE MC_OmniboxDebug ---------------------------
(* The omnibox debug page for TLC.                                         *)
EXTENDS OmniboxDebug, TLC
=============================================================================
