SPECIFICATION Spec
CONSTANTS
  NumTiles = 4
  NumWorkers = 3
  NumRows = 4
  NumCols = 2
  SyncRange = 1
  SpuriousRecon = FALSE
INVARIANTS FilterAfterDecode CleanIsComplete
PROPERTIES FrameEnds
