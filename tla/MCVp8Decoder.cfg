SPECIFICATION Spec
CONSTANTS
  A = A
  B = B
  Sizes = {A, B}
  NoSize = NoSize
  Headers <- MCHeaders
  MaxCalls = 4
  MaxPartitions = 1
  MayFail = {"create", "frames"}
SYMMETRY SizeSymmetry
CHECK_DEADLOCK FALSE
INVARIANTS CountsExact FreeBufferExists BufferSizeMatches ImageIsLatest
PROPERTY RefsSpec
