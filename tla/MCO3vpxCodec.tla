--------------------------- MODULE MCO3vpxCodec ---------------------------
EXTENDS O3vpxCodec
(* Half a pixel to the right: the block overlaps two macroblocks.           *)
MCMvs == [col : {0, 1}, row : {0}]

(* Keys of one colour: P frames reach every other content.                  *)
Flat == {[m \in Macroblocks |-> [y |-> a, uv |-> b]] : a \in Values, b \in UvValues}

(* Bound: a P frame is coded from buffers of which one eye has one colour;  *)
(* the other eye's reference and older frame are any pair of contents, and  *)
(* the frame coded is any in both.                                          *)
OneColour(f, eye) ==
  \E v \in Values : \A m \in Macroblocks : EyeOf(m) = eye => f[m].y.v = v

OneEyeMixed ==
  (frame = "p" /\ mb = 0) =>
    \E eye \in {"left", "right"} : OneColour(drecon, eye) /\ OneColour(dref, eye)

(* The masks of the table, those of the special routines that are not in    *)
(* it, and some of neither kind, an odd and an even number of coefficients. *)
MCMasks ==
  {MaskTable[i] : i \in DOMAIN MaskTable}
    \cup {{0}, {9}, {0, 6}, {0, 1, 5, 6}, {1, 2, 4}, {7, 8}, {0, 7, 15}, Positions}

(* Pairs of values that follow each other: the limits of a nibble and of a  *)
(* coefficient, and just beyond a nibble.                                   *)
MCPairs == {<<7, -8>>, <<-1, 1>>, <<8, -1>>, <<-127, 127>>, <<127, 127>>}

Alternating(mask, v) ==
  [z \in mask |-> v[(Cardinality({y \in mask : y < z}) % 2) + 1]]

MCBlocks ==
  {ResBlock(s, Alternating(m, v)) : s \in {0, 23}, m \in MCMasks, v \in MCPairs}
    \cup {RawBlock(s, [i \in 1..16 |-> p]) : s \in {15, 16}, p \in {0, 255}}
===========================================================================
