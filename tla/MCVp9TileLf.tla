---------------------------- MODULE MCVp9TileLf ----------------------------
(* Four tiles for three workers, so that one worker decodes two of them, and *)
(* four rows, so that a row that is given up can block another one.          *)
EXTENDS Vp9TileLf
=============================================================================
