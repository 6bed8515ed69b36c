----------------------------- MODULE FrameQueue -----------------------------
(***************************************************************************)
(* What the encoder's lookahead promises: a first-in first-out queue of at *)
(* most Depth frames that is read when it is full or drained, and that     *)
(* still knows the frame it gave out last.                                 *)
(***************************************************************************)
EXTENDS Naturals, Sequences

CONSTANTS Images, Depth, Layers

VARIABLES queue,   \* frames to be encoded
          last,    \* the frame removed last, none in the beginning
          source,  \* the frame given out last
          layer    \* spatial layer it is asked for next

None == "none"

QueueInit == queue = <<>> /\ last = None /\ source = None /\ layer = 0

\* A frame is accepted.
Enqueue(i) ==
  /\ Len(queue) < Depth
  /\ queue' = Append(queue, i)
  /\ UNCHANGED <<last, source, layer>>

\* The oldest frame is given out, and removed for the highest layer.
Dequeue ==
  /\ queue # <<>>
  /\ source' = Head(queue)
  /\ IF layer = Layers - 1
       THEN queue' = Tail(queue) /\ last' = Head(queue) /\ layer' = 0
       ELSE layer' = layer + 1 /\ UNCHANGED <<queue, last>>

QueueNext == (\E i \in Images : Enqueue(i)) \/ Dequeue

QueueVars == <<queue, last, source, layer>>

QueueSpec == QueueInit /\ [][QueueNext]_QueueVars
=============================================================================
