SPECIFICATION FairSpec
CONSTANTS
  BufferNb = 3
  MaxFrames = 6
  NULL = NULL
INVARIANTS
  OwnersApart
  NoBufferLost
PROPERTIES
  ReturnsNewest
  ImplementsChannel
  EveryFrameTaken
