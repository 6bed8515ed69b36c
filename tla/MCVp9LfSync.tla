---------------------------- MODULE MCVp9LfSync ----------------------------
(* Small frames for checking Vp9LfSync with TLC.                           *)
EXTENDS Vp9LfSync

\* Narrow and wide frames, with every pairing of width and sync_range that a
\* change of width without a change of height can leave behind.
MCFrames == { [rows |-> 4, cols |-> 3, range |-> 1],
              [rows |-> 4, cols |-> 6, range |-> 2],
              [rows |-> 3, cols |-> 5, range |-> 4],
              [rows |-> 3, cols |-> 2, range |-> 1] }
=============================================================================
