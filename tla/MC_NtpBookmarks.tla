--------------------------- MODULE MC_NtpBookmarks ---------------------------
(* The mobile NTP bookmarks section for TLC.                               *)
EXTENDS NtpBookmarks, TLC
=============================================================================
