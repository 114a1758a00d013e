\* A poll asks for one boost, and two are newer.
SPECIFICATION Spec
CONSTANTS
  MaxIndex = 3
  Others = {}
  Matching = {1, 3}
  FirstPage = 2
  PollPage = 1
  MaxUpsets = 0
INVARIANTS
  NewerPagesAscend
CHECK_DEADLOCK FALSE
