---------------------------- MODULE MC_NtpTouch ----------------------------
(* The NTP touch listeners for TLC.                                        *)
EXTENDS NtpTouch, TLC

CONSTANTS i1, i2

MCItems == {i1, i2}
=============================================================================
