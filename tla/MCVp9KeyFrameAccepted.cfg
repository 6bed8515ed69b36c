\* A stream of key frames; one buffer is lost with each one that fails.
SPECIFICATION Spec
SYMMETRY MemSymmetry
CONSTANTS
  RefFrames = 2
  FrameBuffers = 4
  Mems = {m1, m2, m3, m4}
  Kinds = {"key"}
  Refreshes = {}
INVARIANT KeyFrameAccepted
