SPECIFICATION FairSpec
CONSTANTS
  SlotCount = 3
  Readers = {fusion, log, ui}
  Suspendable = {ui}
  MaxVersions = 3
INVARIANTS
  CountsExact
  WriterApart
PROPERTIES
  ImplementsSnapshot
  NeverOlder
  WriterProgress
