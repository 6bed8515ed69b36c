SPECIFICATION Spec
CONSTANTS
  NumTiles = 4
  NumWorkers = 3
  NumRows = 4
  NumCols = 2
  SyncRange = 1
  SpuriousRecon = TRUE
INVARIANT FilterAfterDecode
