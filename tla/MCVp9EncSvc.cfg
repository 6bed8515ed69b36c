SPECIFICATION EncSpec
CONSTANTS
  Streams <- WideSvcStreams
  MaxThreads = 4
INVARIANT EveryRowOnce
