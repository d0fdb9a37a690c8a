SPECIFICATION Spec
CONSTANT Configs <- SuspendingConfigs
CONSTANTS
  MaxContinuations = 1
  Prices = {0, 1}
  Sizes = {0, 1}
  MaxSessionTurns = 2
  MaxSteers = 1
CHECK_DEADLOCK FALSE
PROPERTY StopIsFinal
