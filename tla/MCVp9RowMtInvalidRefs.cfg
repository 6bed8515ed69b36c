\* A reference of an invalid size: a row may fail to be reconstructed.
SPECIFICATION Spec
CONSTANTS
  NumTiles = 1
  TileCols = 1
  NumRows = 3
  Workers = {w1, w2}
  SyncRange = 1
  InvalidRefs = {0, 1, 2}
PROPERTY
  FrameEnds
