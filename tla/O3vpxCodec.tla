---------------------------- MODULE O3vpxCodec ----------------------------
(***************************************************************************)
(* The O3VPX encoder and decoder of vp8/o3vpx.c side by side: the encoder   *)
(* keeps its reconstruction with memcpy(ref, recon), the decoder by         *)
(* swapping two buffers, and both predict macroblocks from the reference    *)
(* frame and from the part of the frame already reconstructed.              *)
(*                                                                          *)
(* A plane of a macroblock is one value together with the eyes it shows:    *)
(* its own, and any whose pixels went into its prediction; a block that     *)
(* overlaps several macroblocks mixes them.  Positions and motion vectors   *)
(* are in the code's units, with macroblocks of Size pixels.  The bytes     *)
(* of a macroblock are read back as they were written (O3vpxRes4, of which  *)
(* the properties are checked here too); which mode is used is any, as the  *)
(* choice is the encoder's alone (O3vpxRepair).  The decoder takes each     *)
(* macroblock as soon as it is written: the stream is all they share.       *)
(***************************************************************************)
EXTENDS O3vpxRes4

CONSTANTS MbW, MbH,   \* macroblocks per row, rows; half of a row is one eye
          Size,       \* MB_SIZE, luma pixels
          Levels,     \* values the luma of a macroblock may have
          UvLevels,   \* values its chroma may have
          KeySources, \* bound: the frames that come as raw keys
          Mvs,        \* motion vectors, in half pixels
          Blocks,     \* bound: the repaired 4x4 blocks tried
          ResQs       \* bound: the values of res_q tried

ASSUME CodecAssumption ==
  /\ MbW \in Nat \ {0} /\ MbW % 2 = 0 /\ MbH \in Nat \ {0}
  /\ Size \in Nat \ {0} /\ Size % 2 = 0
  /\ Levels \in Nat \ {0} /\ UvLevels \in Nat \ {0}
  /\ Mvs \subseteq [col : Int, row : Int]

ASSUME BlocksAssumption == ResQs \subseteq 1..255 /\ \A b \in Blocks : IsBlock(b)

VARIABLES eref, erecon,  \* ref and recon of vp8_o3vpx_encode_file()
          dref, drecon,  \* ref and recon of the decoder's state
          frame,         \* "first": no frame yet, "idle", "p": inside a P frame
          mb             \* the macroblock to code

codecVars == <<eref, erecon, dref, drecon, frame, mb>>

Macroblocks == 0..(MbW * MbH - 1)
X(m) == m % MbW
Y(m) == m \div MbW
EyeOf(m) == IF X(m) < MbW \div 2 THEN "left" ELSE "right"

LevelsOf(plane) == IF plane = "y" THEN Levels ELSE UvLevels
Values == 0..(Levels - 1)
UvValues == 0..(UvLevels - 1)

Source(m, v) == [v |-> v, eyes |-> {EyeOf(m)}]
Blank == [m \in Macroblocks |-> [y |-> Source(m, 0), uv |-> Source(m, 0)]]

(* The prediction of macroblock m from a set of macroblocks, and a residual *)
(* added to it.                                                             *)
MixOf(f, plane, m, S) ==
  [v |-> SumFunction([n \in S |-> f[n][plane].v]) % LevelsOf(plane),
   eyes |-> {EyeOf(m)} \cup UNION {f[n][plane].eyes : n \in S}]

Plus(p, plane, d) == [p EXCEPT !.v = (@ + d) % LevelsOf(plane)]
----------------------------------------------------------------------------
(* Motion compensation.                                                     *)
EyeMinX(x) == IF x < MbW \div 2 THEN 0 ELSE MbW \div 2
EyeMaxX(x) == IF x < MbW \div 2 THEN MbW \div 2 - 1 ELSE MbW - 1

RoundDiv4(v) == IF v >= 0 THEN (v + 2) \div 4 ELSE -((-v + 2) \div 4)

(* Mutant: the pixel to the right of a half-pixel position is forgotten.    *)
MvInBoundsFullPel(m, mv) ==
  LET x2 == X(m) * 2 * Size + mv.col
      y2 == Y(m) * 2 * Size + mv.row
  IN /\ x2 >= EyeMinX(X(m)) * Size * 2 /\ y2 >= 0
     /\ x2 \div 2 + Size <= (EyeMaxX(X(m)) + 1) * Size
     /\ y2 \div 2 + Size <= MbH * Size

MvInBounds(m, mv) ==
  LET x2 == X(m) * 2 * Size + mv.col
      y2 == Y(m) * 2 * Size + mv.row
  IN /\ x2 >= EyeMinX(X(m)) * Size * 2 /\ y2 >= 0
     /\ x2 \div 2 + Size + (x2 % 2) <= (EyeMaxX(X(m)) + 1) * Size
     /\ y2 \div 2 + Size + (y2 % 2) <= MbH * Size

(* Macroblocks of size s that the n pixels from a on lie in.                *)
Overlapped(a, n, s) == (a \div s)..((a + n - 1) \div s)

MbsAt(cols, rows) == {m \in Macroblocks : X(m) \in cols /\ Y(m) \in rows}

LumaRead(m, mv) ==
  LET x2 == X(m) * 2 * Size + mv.col
      y2 == Y(m) * 2 * Size + mv.row
  IN MbsAt(Overlapped(x2 \div 2, Size + (x2 % 2), Size),
           Overlapped(y2 \div 2, Size + (y2 % 2), Size))

ChromaRead(m, mv) ==
  LET half == Size \div 2
  IN MbsAt(Overlapped(X(m) * half + RoundDiv4(mv.col), half, half),
           Overlapped(Y(m) * half + RoundDiv4(mv.row), half, half))

CopyFromRef(ref, m, mv) ==
  [y |-> MixOf(ref, "y", m, LumaRead(m, mv)),
   uv |-> MixOf(ref, "uv", m, ChromaRead(m, mv))]

(* Intra prediction, from the frame being reconstructed.                    *)
HaveLeft(m) == X(m) > EyeMinX(X(m))
HaveTop(m) == Y(m) > 0

Neighbours(m, mode) ==
  LET top == IF HaveTop(m) THEN {m - MbW} ELSE {}
      left == IF HaveLeft(m) THEN {m - 1} ELSE {}
  IN CASE mode = "intraV" /\ HaveTop(m) -> top
       [] mode = "intraH" /\ HaveLeft(m) -> left
       [] OTHER -> top \cup left

PredictIntra(recon, m, mode) ==
  [y |-> MixOf(recon, "y", m, Neighbours(m, mode)),
   uv |-> MixOf(recon, "uv", m, Neighbours(m, mode))]
----------------------------------------------------------------------------
(* A macroblock of a payload: its mode, motion vector and data for the two  *)
(* planes: raw pixels, or in "res" what blocks (MODE_COPY16_RES4) or plane   *)
(* offsets (MODE_COPY16_DC) add.                                            *)
NoMv == [col |-> 0, row |-> 0]

ItemsOf(modes, mvs, ys, uvs) == [mode : modes, mv : mvs, y : ys, uv : uvs]

Items(m) ==
  LET mvs == {v \in Mvs : MvInBounds(m, v)}
  IN UNION {ItemsOf({"copy"}, mvs, {0}, {0}),
            ItemsOf({"rawY"}, mvs, Values, {0}),
            ItemsOf({"rawUv"}, mvs, {0}, UvValues),
            ItemsOf({"res", "resRawUv"}, mvs, Values, UvValues),
            ItemsOf({"raw"}, {NoMv}, Values, UvValues),
            ItemsOf({"intraDc", "intraV", "intraH"}, {NoMv}, {0}, {0})}

(* The macroblock m of recon, for one item of the payload: the code the     *)
(* encoder and the decoder share.                                           *)
Reconstructed(ref, recon, m, it) ==
  LET copy == CopyFromRef(ref, m, it.mv)
      rawY == Source(m, it.y)
      rawUv == Source(m, it.uv)
  IN CASE it.mode = "copy" -> copy
       [] it.mode = "res" ->
            [y |-> Plus(copy.y, "y", it.y), uv |-> Plus(copy.uv, "uv", it.uv)]
       [] it.mode = "rawY" -> [y |-> rawY, uv |-> copy.uv]
       [] it.mode = "rawUv" -> [y |-> copy.y, uv |-> rawUv]
       [] it.mode = "resRawUv" -> [y |-> Plus(copy.y, "y", it.y), uv |-> rawUv]
       [] it.mode = "raw" -> [y |-> rawY, uv |-> rawUv]
       [] OTHER -> PredictIntra(recon, m, it.mode)

CodecInit ==
  /\ eref = Blank /\ erecon = Blank      \* not initialised, and not read
  /\ dref = Blank /\ drecon = Blank
  /\ frame = "first" /\ mb = 0

(* A raw key, which the first frame is: copied by the encoder, read into    *)
(* the older buffer by the decoder, which then swaps its buffers.           *)
KeyFrame ==
  /\ frame \in {"first", "idle"}
  /\ \E src \in KeySources :
       LET f == [m \in Macroblocks |-> [y |-> Source(m, src[m].y),
                                uv |-> Source(m, src[m].uv)]]
       IN eref' = f /\ erecon' = f /\ drecon' = f /\ dref' = drecon
  /\ frame' = "idle"
  /\ UNCHANGED mb

BeginPFrame ==
  /\ frame = "idle"
  /\ frame' = "p" /\ mb' = 0
  /\ UNCHANGED <<eref, erecon, dref, drecon>>

(* vp8_o3vpx_decoder_next_frame passes recon as the reference and ref as    *)
(* the frame to write.                                                      *)
DecodeMb(m, it) ==
  dref' = [dref EXCEPT ![m] = Reconstructed(drecon, dref, m, it)]

EncodeMb(m, it) ==
  erecon' = [erecon EXCEPT ![m] = Reconstructed(eref, erecon, m, it)]

CodeMb ==
  /\ frame = "p" /\ mb \in Macroblocks
  /\ \E it \in Items(mb) : EncodeMb(mb, it) /\ DecodeMb(mb, it)
  /\ mb' = mb + 1
  /\ UNCHANGED <<eref, drecon, frame>>

(* Mutant: the decoder's buffers are not swapped.                           *)
SwappedNever == <<dref, drecon>>

Swapped == <<drecon, dref>>

EndPFrame ==
  /\ frame = "p" /\ mb \notin Macroblocks
  /\ eref' = erecon
  /\ dref' = Swapped[1] /\ drecon' = Swapped[2]
  /\ frame' = "idle"
  /\ UNCHANGED <<erecon, mb>>

(* vp8_o3vpx_decoder_reset between two frames: the same stream again.       *)
Reset ==
  /\ frame = "idle"
  /\ dref' = Blank /\ drecon' = Blank
  /\ eref' = Blank /\ erecon' = Blank
  /\ frame' = "first"
  /\ UNCHANGED mb

CodecNext == KeyFrame \/ BeginPFrame \/ CodeMb \/ EndPFrame \/ Reset

CodecSpec == CodecInit /\ [][CodecNext]_codecVars
----------------------------------------------------------------------------
(* The decoder shows what the encoder measured: between frames the buffer   *)
(* that write_current_yuv420p() splits is the encoder's reference, whatever *)
(* older frame the buffer held before and whichever modes were mixed.       *)
InSync == frame = "idle" => drecon = eref

(* The two eyes never leak into each other: no prediction, copied or intra, *)
(* luma or chroma, takes pixels of the other eye.                           *)
EyesApart ==
  \A m \in Macroblocks : /\ drecon[m].y.eyes \subseteq {EyeOf(m)}
                 /\ drecon[m].uv.eyes \subseteq {EyeOf(m)}

(* The decoder reads back two blocks that were written one after the other, *)
(* whichever forms follow each other: it finds the end of each and never    *)
(* gives up, and the bytes are the ones the encoder's budget was charged    *)
(* with.  Blocks do not depend on the frame, so they are tried at the start *)
(* of the stream only.                                                      *)
RoundTrip == frame = "first" => \A b, c \in Blocks : ReadBack(b, c)

(* A block changes the frame by exactly the residual its gain was computed  *)
(* from: the routines for few coefficients agree with the general one, for  *)
(* the largest coefficients and quantisers too, where a short overflows.    *)
RepairsExact ==
  frame = "first" =>
    \A b \in {c \in Blocks : c.type = "res"}, q \in ResQs :
      Applied(b, q) = Idct(Deq(b, q))
=============================================================================
