CONSTANTS
  m = m  w = w  p1 = p1  p2 = p2  s1 = s1  s2 = s2
  None = None
  Nodes <- ListedAndNot
  Managed <- Listed
  Slots <- TwoPeers
  Sessions <- TwoSessions
  MaxNodes = 2
  MaxTasks = 1
  MaxFaults = 2
SPECIFICATION Spec
INVARIANT LostCanReturn
