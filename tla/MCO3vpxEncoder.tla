-------------------------- MODULE MCO3vpxEncoder --------------------------
(* Small sizes in the proportions of the code: a key frame is several times *)
(* the minimum of a P frame, a raw plane is dearer than a block, and blocks *)
(* together can be dearer than a plane.                                     *)
EXTENDS O3vpxEncoder
MCTargets == {20, 26, 29}
===========================================================================
