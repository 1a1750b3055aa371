------------------------- MODULE MC_HostController -------------------------
(* Small instances of HostController for TLC. *)
EXTENDS HostController, TLC

CONSTANTS h1, h2, h3

MCHostId == {h1, h2, h3}

MCSymmetry == Permutations(MCHostId)
=============================================================================
