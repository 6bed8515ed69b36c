SPECIFICATION Spec
CONSTANTS
  Frames <- MCFrames
  MaxThreads = 2
INVARIANTS AboveRightDecoded OthersFinished CleanIsComplete
PROPERTIES FrameEnds
