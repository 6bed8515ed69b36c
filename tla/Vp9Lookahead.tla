---------------------------- MODULE Vp9Lookahead ----------------------------
(***************************************************************************)
(* The queue of source frames in front of the encoder:                     *)
(* vp9/encoder/vp9_lookahead.c and vp9_svc_lookahead_pop().  A ring of     *)
(* frame buffers, one more than the queue is deep: the frame that was      *)
(* removed last stays behind the read index, for peeks at index -1.  An    *)
(* image stands for the pixels and what is kept with them (time stamps,    *)
(* flags, show_idx).                                                       *)
(***************************************************************************)
EXTENDS Integers

CONSTANTS Images,      \* contents of source frames
          Sizes,       \* dimensions, as numbers
          Depth,       \* lag_in_frames, clamped
          Layers       \* number_spatial_layers

ASSUME LookaheadAssumption ==
  /\ Depth \in Nat \ {0} /\ Layers \in Nat \ {0}
  /\ Sizes \subseteq Nat

MAX_PRE_FRAMES == 1

\* max_sz, as vp9_lookahead_init() computes it.
MaxSz == Depth + MAX_PRE_FRAMES

\* No image: nothing was copied to the buffer yet.
NoImage == "none"

VARIABLES
  sz, readIdx, writeIdx,  \* of the lookahead_ctx
  buf,      \* img of every entry, with the dimensions it was allocated for
  last,     \* history: the frame removed last
  source,   \* what the last pop returned
  layer     \* spatial_layer_id

lookaheadVars == <<sz, readIdx, writeIdx, buf, last, source, layer>>

Entries == 0 .. MaxSz - 1

\* vp9_lookahead_init
LookaheadInit ==
  /\ sz = 0 /\ readIdx = 0 /\ writeIdx = 0
  /\ \E s \in Sizes : buf = [i \in Entries |-> [img |-> NoImage, size |-> s]]
  /\ last = NoImage /\ source = NoImage /\ layer = 0

\* The index after idx: ++index, and back to the beginning.
After(idx) == IF idx + 1 >= MaxSz THEN idx + 1 - MaxSz ELSE idx + 1

\* Mutant of Full: no buffer is kept for the last frame.
FullRing == sz + 1 > MaxSz

\* vp9_lookahead_full
Full == sz + 1 + MAX_PRE_FRAMES > MaxSz

\* vp9_lookahead_push: the image is copied into the next buffer, which takes the
\* dimensions of the image.  The queue does not know the layers: after an error
\* in the encoder a frame may be pushed while another has layers to come.
Push(i, s) ==
  /\ ~Full
  /\ sz' = sz + 1 /\ writeIdx' = After(writeIdx)
  /\ buf' = [buf EXCEPT ![writeIdx] = [img |-> i, size |-> s]]
  /\ UNCHANGED <<readIdx, last, source, layer>>

\* A larger buffer is not to be had: an error is returned, with the indices
\* already moved.
PushFails(s) ==
  /\ ~Full /\ s > buf[writeIdx].size
  /\ sz' = sz + 1 /\ writeIdx' = After(writeIdx)
  /\ UNCHANGED <<readIdx, buf, last, source, layer>>

\* vp9_lookahead_peek with an index that is not negative.
Forward(index) ==
  IF readIdx + index >= MaxSz THEN readIdx + index - MaxSz ELSE readIdx + index

\* vp9_lookahead_peek at -1.
Backward == IF readIdx - 1 < 0 THEN readIdx - 1 + MaxSz ELSE readIdx - 1

\* Mutant of TopLayer: every layer removes the frame.
TopLayerAlways == TRUE

\* "Only remove the buffer when pop the highest layer."
TopLayer == layer = Layers - 1

\* vp9_lookahead_pop and vp9_svc_lookahead_pop: when the queue has the
\* configured depth, or is drained.
Pop(drain) ==
  /\ sz > 0 /\ (drain \/ sz = MaxSz - MAX_PRE_FRAMES)
  /\ source' = buf[Forward(0)].img
  /\ IF TopLayer
       THEN /\ readIdx' = After(readIdx) /\ sz' = sz - 1
            /\ last' = buf[readIdx].img /\ layer' = 0
       ELSE layer' = layer + 1 /\ UNCHANGED <<readIdx, sz, last>>
  /\ UNCHANGED <<writeIdx, buf>>

LookaheadNext ==
  \/ \E i \in Images, s \in Sizes : Push(i, s)
  \/ \E drain \in BOOLEAN : Pop(drain)

LookaheadSpec == LookaheadInit /\ [][LookaheadNext]_lookaheadVars

\* The same where memory may run out.
SpecAllocFails ==
  /\ LookaheadInit
  /\ [][LookaheadNext \/ \E s \in Sizes : PushFails(s)]_lookaheadVars

-----------------------------------------------------------------------------
(* Properties.                                                             *)

LookaheadTypeOK ==
  /\ sz \in 0 .. Depth /\ readIdx \in Entries /\ writeIdx \in Entries
  /\ buf \in [Entries -> [img : Images \cup {NoImage}, size : Sizes]]
  /\ last \in Images \cup {NoImage} /\ source \in Images \cup {NoImage}
  /\ layer \in 0 .. Layers - 1

\* The writer is sz buffers ahead of the reader.
WriterAhead == writeIdx = Forward(sz)

\* A peek at index -1 finds the frame that was removed last, however many frames
\* were pushed since: the encoder compares the next source with it.
LastIsKept == last # NoImage => buf[Backward].img = last

\* The ring implements the queue: the frames in it are those from the read index
\* on, and they come out complete and in order.
Abstract == INSTANCE FrameQueue
  WITH queue <- [i \in 1 .. sz |-> buf[Forward(i - 1)].img]
QueueSpec == Abstract!QueueSpec

\* The inductive invariant.
LookaheadInv == LookaheadTypeOK /\ WriterAhead /\ LastIsKept

-----------------------------------------------------------------------------
(* What is said about the queue and does not hold.                         *)

\* vp9/encoder/vp9_lookahead.h: pop returns NULL if the queue is empty, so what
\* it returns was pushed.
OnlyPushed == [][sz' < sz => buf[readIdx].img # NoImage]_lookaheadVars
=============================================================================
