SPECIFICATION EncSpec
CONSTANTS
  Streams <- WideStreams
  MaxThreads = 3
INVARIANT AboveEncoded
