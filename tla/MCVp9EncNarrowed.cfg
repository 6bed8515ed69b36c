SPECIFICATION EncSpec
CONSTANTS
  Streams <- NarrowedStreams
  MaxThreads = 2
INVARIANT AboveEncoded
