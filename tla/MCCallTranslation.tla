------------------------- MODULE MCCallTranslation -------------------------
EXTENDS CallTranslation

CONSTANTS r1, r2, i1, i2, i3

=============================================================================
