SPECIFICATION Spec
SYMMETRY MemSymmetry
CONSTANTS
  RefFrames = 2
  FrameBuffers = 3
  Mems = {m1, m2, m3}
  Kinds <- MCKinds
  Refreshes <- MCRefreshes
INVARIANTS MemoryExclusive RefsDecoded ImageValid MemoryReturned
