SPECIFICATION FairSpec
CONSTANTS
  Depth = 2
  StartTries = 2
  Senders = {rx, log}
  MaxSends = 3
  NONE = NONE
INVARIANTS
  SlotsConserved
  EncodesApart
  SendsFinishedFrames
PROPERTIES
  InOrderOnce
  OwnCompletion
  NeverWedged
