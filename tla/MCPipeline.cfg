SPECIFICATION FairSpec
CONSTANTS
  InputNb = 3
  OutputNb = 2
  SlotCount = 3
  MaxFrames = 5
  NULL = NULL
INVARIANTS
  DropsAccounted
PROPERTIES
  EveryFrameAnswered
  EveryResultSent
