SPECIFICATION SpecAllocFails
CONSTANTS
  Images = {"a"}
  Sizes <- MCSizes
  Depth = 1
  Layers = 1
PROPERTY OnlyPushed
