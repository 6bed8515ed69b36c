SPECIFICATION Spec
CONSTANTS
  A = A
  B = B
  Sizes = {A, B}
  NoSize = NoSize
  Headers <- MCHeaders
  MaxCalls = 6
  MaxPartitions = 1
  MayFail = {"threads"}
SYMMETRY SizeSymmetry
CHECK_DEADLOCK FALSE
INVARIANT BufferSizeMatches
