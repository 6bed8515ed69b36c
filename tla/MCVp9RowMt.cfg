\* Two tiles, a row is complete when both are done with it; errors anywhere.
SPECIFICATION Spec
SYMMETRY WorkerSymmetry
CONSTANTS
  NumTiles = 2
  TileCols = 2
  NumRows = 3
  Workers = {w1, w2}
  SyncRange = 1
  InvalidRefs = {1}
INVARIANTS ReconBelowRecon FilterAfterRecon NotAllWaiting NoJobLost CleanIsComplete
