\* Two boosts and between them a row of another list, in any order, pages of
\* two and polls of one, and one broken connection,
\* lost request or change of the filter.
SPECIFICATION FairSpec
CONSTANTS
  MaxIndex = 3
  Others = {2}
  Matching = {1}
  FirstPage = 2
  PollPage = 1
  MaxUpsets = 1
INVARIANTS
  ListIsOrdered
  TrackingIsExact
  EffectsPlayOnce
PROPERTIES
  StoredIsShown
CHECK_DEADLOCK FALSE
