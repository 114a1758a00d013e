\* One request at a time: the table implements an ordered list.
SPECIFICATION Spec
CONSTANTS
  Requests = {r1}
  MaxTriggers = 4
  MaxRequests = 2
  MaxFaults = 0
PROPERTIES
  KeepsOrder
CHECK_DEADLOCK FALSE
