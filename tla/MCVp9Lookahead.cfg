SPECIFICATION LookaheadSpec
CONSTANTS
  Images = {"a", "b", "c"}
  Sizes <- MCSizes
  Depth = 3
  Layers = 2
INVARIANTS LastIsKept
PROPERTY QueueSpec
