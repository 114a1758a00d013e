\* Three invoices in pages of two, three faults.
SPECIFICATION FairSpec
CONSTANTS
  MaxInvoices = 3
  MaxOld = 1
  PageSize = 2
  MaxFaults = 3
INVARIANTS
  StoredWerePaid
  NothingMislaid
  StoredIsAnnounced
  RepeatsNeedRetreat
PROPERTIES
  EventuallyCaughtUp
CHECK_DEADLOCK FALSE
