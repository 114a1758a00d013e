CONSTANTS
  Lists <- BoostLists
  MaxEffects = 4
  MaxParticles = 3
  Height = 1
  MaxShots = 3
  Balances = {1, 2}
  MaxGets = 2
  MaxBalanceFaults = 3
  Indexes <- InfoIndexes
  NotJson <- Texts
  MaxInfos = 3
SPECIFICATION FairSpec
INVARIANTS
  PlayedInTurn
  InfoIsOfItsRow
PROPERTIES
  EffectsArePlayed
  ConfettiEnds
  BalanceIsCurrent
CHECK_DEADLOCK FALSE
