SPECIFICATION RxFairSpec
CONSTANTS
  RingSize = 4
  PrefixLen = 2
  MaxLen = 3
  MsgLen = 2
  MaxFrames = 2
INVARIANTS
  RxTypeOK
  BytesInOrder
  InStep
PROPERTIES
  DrainsRing
  EveryCommandDispatched
