SPECIFICATION FairSpec
CONSTANT Configs <- SoundConfigs
CONSTANTS
  MaxContinuations = 1
  Prices = {0, 1}
  Sizes = {1}
  MaxSessionTurns = 2
  MaxSteers = 1
CHECK_DEADLOCK FALSE
INVARIANTS
  LimitsHold
  SessionCostExact
  OutcomeIsTrue
PROPERTIES
  StopIsFinal
  TurnEnds
