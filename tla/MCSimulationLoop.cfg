CONSTANTS
  Orders <- Everything
  Capacity = 2
  Burst = 2
  Lag = 2
  Width = 10
  Plenty = 7
  MaxCommands = 3
  MaxActions = 2
SPECIFICATION FairSpec
CHECK_DEADLOCK FALSE
PROPERTIES ImplementsClock CommandsApplied ActionsRun
