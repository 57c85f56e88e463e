CONSTANTS
  Totals = {0, 2}
  Depth = 2
  Missed = {1, 2}
  MaxCaptures = 2
  MaxFrames = 3
  MaxStills = 1
SPECIFICATION FairSpec
CHECK_DEADLOCK FALSE
PROPERTIES PauseRestored
