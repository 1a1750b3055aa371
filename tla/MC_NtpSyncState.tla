-------------------------- MODULE MC_NtpSyncState --------------------------
EXTENDS NtpSyncState, TLC
=============================================================================
