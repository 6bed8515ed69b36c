SPECIFICATION EncoderSpec
CONSTANTS
  MaxFrames = 4
  Keyints = {1, 4}
  Targets <- MCTargets
  Lookahead = 2
  FileHeader = 1
  FrameHeader = 1
  KeyPayload = 8
  MinPayload = 3
  MaxBurst = 2
  Mbs = 1
  LumaSlots = {0, 1}
  ChromaSlots = {16}
  BlockCosts = {2, 3}
  RawYBytes = 4
  RawUvBytes = 2
INVARIANTS
  AccountsHold
  StreamWithinTarget
PROPERTY
  BudgetSpec
CHECK_DEADLOCK FALSE
