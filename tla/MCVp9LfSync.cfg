SPECIFICATION Spec
CONSTANTS
  Frames <- MCFrames
  MaxRows = 4
  MaxWorkers = 3
INVARIANTS AboveRightFiltered WholeFrameFiltered
PROPERTIES FrameEnds
