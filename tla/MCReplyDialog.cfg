CONSTANTS
  b1 = b1
  b2 = b2
  Rows = {b1, b2}
  Fetchable = {b2}
  MaxOpenings = 2
  MaxReplies = 2
  MaxFetches = 2
SPECIFICATION DialogSpec
INVARIANTS
  RepliedWasPaid
  OncePerOpening
  PaidIsShown
CHECK_DEADLOCK FALSE
