CONSTANTS
  m1 = m1  m2 = m2
  Peers = {p1, p2}
  Sessions = {s1, s2}
  Masters <- First
  Called <- First
  Callers = {}
  Tiles = {t1}
  Chunks = 2
  None = None
  Retained = 1
  MaxQueued = 1
  MaxFrames = 0
  Budget <- SendsNothing
  MaxFaults = 2
SPECIFICATION FairSpec
CHECK_DEADLOCK FALSE
PROPERTIES MasterRetried
