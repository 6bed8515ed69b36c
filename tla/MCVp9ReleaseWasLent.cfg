SPECIFICATION Spec
CONSTANTS
  RefFrames = 2
  FrameBuffers = 4
  Mems = {m1, m2, m3, m4}
  Kinds <- MCKinds
  Refreshes <- MCRefreshes
PROPERTY ReleaseWasLent
