--------------------------- MODULE MCVp9Lookahead ---------------------------
\* Model-checking instances of Vp9Lookahead.
EXTENDS Vp9Lookahead

MCSizes == 1 .. 2
=============================================================================
