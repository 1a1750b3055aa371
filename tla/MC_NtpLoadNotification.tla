----------------------- MODULE MC_NtpLoadNotification -----------------------
EXTENDS NtpLoadNotification, TLC

CONSTANTS u1, u2, u3, u4

MCUrls == {u1, u2, u3, u4}

MCSymmetry == Permutations(MCUrls)
=============================================================================
