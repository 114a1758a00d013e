\* README.md:7-8 says invoices are checked every 9 seconds and stored.
SPECIFICATION FairSpec
CONSTANTS
  MaxInvoices = 1
  MaxOld = 0
  PageSize = 2
  MaxFaults = 0
PROPERTIES
  PaidIsStored
CHECK_DEADLOCK FALSE
