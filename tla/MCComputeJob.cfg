CONSTANTS
  Units = {u1, u2}
  Nodes = {n1}
  Local = Local
  Workers = {w1}
  Pump = Pump
  MaxJobs = 2
SPECIFICATION FairSpec
CHECK_DEADLOCK FALSE
INVARIANTS
  NoApplyAfterReturn
  OneApplier
  SuccessMeansApplied
  NoUnitStranded
PROPERTIES
  ImplementsContract
  JobReturns
