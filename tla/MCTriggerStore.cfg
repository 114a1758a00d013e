\* Two requests at a time, one trigger there and one more to be created.
SPECIFICATION Spec
CONSTANTS
  Requests = {r1, r2}
  MaxTriggers = 2
  MaxRequests = 3
  MaxFaults = 1
SYMMETRY Symmetry
INVARIANTS
  PositionsAreDense
  TriggersAreKept
  StatusIsOwn
  SoundFilesExist
CHECK_DEADLOCK FALSE
