CONSTANTS
  Values = {a, b}
  Capacity = 2
  Wrap = 4
  MaxSent = 6
SPECIFICATION FairSpec
INVARIANTS
  NoSlotRace
PROPERTIES
  ImplementsFifo
  EverythingArrives
