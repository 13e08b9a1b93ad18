CONSTANTS
  Step = 640
  MaxResizes = 1
  MaxHeaps = 2
  MaxLive = 3
  Sizes <- MCSizes
  ReSizes <- MCReSizes
  Fails <- MCFails
SPECIFICATION Spec
INVARIANTS
  HeapsSound
  Accounted
  LiveBlocksFit
  FewFragments
CHECK_DEADLOCK FALSE
