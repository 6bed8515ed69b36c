---------------------------- MODULE MCVp8RowMt ----------------------------
\* Model-checking instances of Vp8RowMt.
EXTENDS Vp8RowMt

Shape(r, c, n, p) == [rows |-> r, cols |-> c, nsync |-> n, parts |-> p]

\* Three rows of three macroblocks for three threads, or one partition; a wider
\* synchronisation with two partitions; fewer rows than threads.
MCFrames == {Shape(3, 3, 1, 4), Shape(3, 3, 1, 1), Shape(4, 3, 2, 2),
             Shape(2, 2, 1, 4)}
===========================================================================
