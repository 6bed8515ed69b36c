----------------------------- MODULE MCVp9EncMt -----------------------------
\* Model-checking instances of Vp9EncMt.
EXTENDS Vp9EncMt

Shape(c, r, n, w) == [tileCols |-> c, tileRows |-> r, sbRows |-> n, width |-> w]
Stream(svc, cols, S) == [svc |-> svc, tileColumns |-> cols, shapes |-> S]

\* Frames that grow and shrink: with tile columns, and with tile rows.
MCStreams ==
  {Stream(FALSE, TRUE, {Shape(2, 1, 3, 3), Shape(1, 1, 4, 2)}),
   Stream(TRUE, TRUE, {Shape(2, 1, 3, 2), Shape(1, 1, 2, 1)}),
   Stream(FALSE, FALSE, {Shape(1, 2, 5, 3), Shape(1, 2, 3, 2)})}

\* Very wide frames have tile columns nobody asked for, and may have tile rows.
WideStreams == {Stream(FALSE, FALSE, {Shape(4, 2, 2, 1)})}
WideSvcStreams == {Stream(TRUE, FALSE, {Shape(4, 2, 2, 1), Shape(2, 2, 2, 1)})}
NarrowedStreams ==
  {Stream(FALSE, FALSE, {Shape(2, 2, 4, 1), Shape(1, 2, 4, 2)})}
=============================================================================
