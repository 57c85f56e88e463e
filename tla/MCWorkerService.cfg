CONSTANTS
  m1 = m1  m2 = m2
  Peers = {p1}
  Sessions = {s1, s2}
  Masters <- Both
  Called <- First
  Callers <- Second
  Tiles = {t1}
  Chunks = 2
  None = None
  Retained = 1
  MaxQueued = 2
  MaxFrames = 2
  Budget <- PerMaster
  MaxFaults = 1
SPECIFICATION FairSpec
CHECK_DEADLOCK FALSE
INVARIANT RightBodies
PROPERTIES JobsTracked JobsEnd
