CONSTANTS
  m = m  w = w  p1 = p1  p2 = p2  s1 = s1  s2 = s2
  None = None
  Nodes <- ListedAndNot
  Managed <- Listed
  Slots <- TwoPeers
  Sessions <- TwoSessions
  MaxNodes = 2
  MaxTasks = 2
  MaxFaults = 4
SPECIFICATION FairSpec
INVARIANTS IndexesAgree BindingIsLive LoadMatchesState
PROPERTIES ServingHasSession ManagedServes StallEnds
CHECK_DEADLOCK FALSE
