CONSTANTS
  Sizes = {s1, s2}
  NoSize = NoSize
  Interlacing = {TRUE, FALSE}
  MaxRequests = 3
SPECIFICATION FairSpec
CHECK_DEADLOCK FALSE
INVARIANTS ShownWhole NoSleepOverRequest
PROPERTIES NewestShown
