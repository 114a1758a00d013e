\* Two default rows, tables of up to two rows left by older releases, two
\* requests and two faults.
SPECIFICATION Spec
CONSTANTS
  Defaults = 2
  MaxOld = 2
  MaxRequests = 2
  MaxFaults = 2
INVARIANTS
  PositionsAreDense
  SourcesSurvive
  MigratedInOrder
  BoostsAreListed
CHECK_DEADLOCK FALSE
