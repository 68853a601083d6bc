SPECIFICATION FairSpec
CONSTANTS
  MaxCommands = 3
  MaxReconnects = 1
INVARIANTS
  HostShowsDisplay
  NoPanic
  SectionsApart
PROPERTIES
  OverlayReturns
