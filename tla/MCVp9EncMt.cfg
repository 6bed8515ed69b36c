SPECIFICATION EncSpec
CONSTANTS
  Streams <- MCStreams
  MaxThreads = 3
INVARIANTS AboveEncoded EveryRowOnce
PROPERTY FrameEnds
