--------------------------- MODULE MCCfilRegistry ---------------------------
\* Model-checking instance of CfilRegistry.
EXTENDS CfilRegistry

CONSTANTS s1, s2

OneSocket == {s1}
TwoSockets == {s1, s2}
=============================================================================
