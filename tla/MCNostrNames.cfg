CONSTANTS
  r1 = r1
  r2 = r2
  x = x
  a = a
  b = b
  Relays = {r1, r2}
  BadUrls = {x}
  UseRelays <- ChosenRelays
  Authors = {a, b}
  Events <- ChosenEvents
  Nameless = {}
  MaxQueries = 2
  MaxAttempts = 2
  MaxMessages = 2
SPECIFICATION FairSpec
INVARIANTS
  AnsweredIsClosed
  NamesAreRemembered
PROPERTIES
  Answers
  EventuallyAnswered
CHECK_DEADLOCK FALSE
