\* All keys of a small curve; messages of up to three blocks; eight references, one of
\* them too long and one that the page does not get through, and what becomes of one
\* mistyped; amounts of up to five digits; ages at each boundary, and the days of two
\* years and more before 18 March 2024.
CONSTANTS
  P = 43
  N = 31
  Gx = 2
  Gy = 12
  B = 7
  Beta = 36
  A1 = 1
  B1neg = 5
  A2 = 6
  HalfBits = 3
  W = 2
  Few = {0, 1, 2, 8, 16, 17, 25, 30}
  BlockLen = 64
  PadOffset = 8
  Lengths <- AllLengths
  Pieces = {0, 1, 55, 63, 64, 65, 128}
  KeyBytes = 2
  KindBytes = 1
  Bech32MaxSize = 31
  Contents <- ClientContents
  Letters = {0, 1, 13, 31, 32}
  WordLists <- Messages
  Values <- Amounts
  NumerologyLists <- Lists
  Ages <- AllAges
  Today = 19800
  Now = 100000
SPECIFICATION Spec
INVARIANTS
  SignaturesAreChecked
  DigestsArePadded
  ReferencesAreLinked
  AmountsAreRead
  AgesAreTold
CHECK_DEADLOCK FALSE
