\* Two payments in pages of one, one boost, one reply at a time, two faults.
SPECIFICATION FairSpec
CONSTANTS
  Boosts = {1}
  Requests = {r1}
  MaxPayments = 2
  PageSize = 1
  MaxFaults = 2
INVARIANTS
  LinksAreTrue
  TriggersRunOnce
PROPERTIES
  RepliesArePermanent
  HistoryIsSilent
  CompletedIsStored
CHECK_DEADLOCK FALSE
