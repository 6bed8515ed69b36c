SPECIFICATION CodecSpec
CONSTANTS
  MbW = 4
  MbH = 2
  Size = 2
  Levels = 2
  UvLevels = 1
  KeySources <- Flat
  Mvs <- MCMvs
  Blocks <- MCBlocks
  ResQs = {2, 255}
INVARIANTS
  InSync
  EyesApart
  RoundTrip
  RepairsExact
CONSTRAINT
  OneEyeMixed
