----------------------------- MODULE MCVp9RowMt -----------------------------
(* Small frames for a few workers, which run the same hook. *)
EXTENDS Vp9RowMt, TLC

WorkerSymmetry == Permutations(Workers)
=============================================================================
