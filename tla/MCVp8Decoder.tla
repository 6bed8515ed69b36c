---------------------------- MODULE MCVp8Decoder ----------------------------
\* Model-checking instances of Vp8Decoder.
EXTENDS Vp8Decoder, TLC

\* Every way to refresh or copy the golden and the alternate reference, both in
\* one frame only where their order matters; all but one flag is valid.
MCHeaders ==
  {f \in InterFlags :
     /\ f.golden = f.alt \/ (f.toGf = 0 /\ f.toArf = 0)
     /\ f.toArf # 3
     /\ f.toGf # 0 /\ f.toArf # 0 => f.toGf = 2 /\ f.toArf = 2}

\* The sizes are interchangeable.
SizeSymmetry == Permutations(Sizes)
=============================================================================
