SPECIFICATION Spec
CONSTANTS
  Boxes = {b1, b2, b3, b4}
  MaxDets = 2
  MaxPersons = 1
  MaxLost = 3
  MaxIds = 5
SYMMETRY Symmetry
INVARIANTS
  PersonsAreCurrent
  IdsNeverReused
  OverdueOnlyIfLowered
  RefusedOnlyByOldTracks
