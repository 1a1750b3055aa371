------------------------- MODULE MC_ThumbnailLoader -------------------------
EXTENDS ThumbnailLoader, TLC
=============================================================================
