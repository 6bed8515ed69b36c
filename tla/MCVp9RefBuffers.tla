--------------------------- MODULE MCVp9RefBuffers ---------------------------
(* Two reference slots and three buffers; every kind of frame, and every set*)
(* of slots refreshed.                                                      *)
EXTENDS Vp9RefBuffers, TLC

MCKinds     == AllKinds
MCRefreshes == SUBSET Slots

\* Nothing distinguishes one piece of memory from another.
MemSymmetry == Permutations(Mems)
=============================================================================
