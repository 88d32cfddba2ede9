CONSTANTS
  Sessions = {s1, s2}
  Instances = {i1}
  PoolCycle = PoolCycle
  NoSession = NoSession
  NoInstance = NoInstance
  Jobs = {}
  Failing = {}
  MaxFailures = 0
  MaxCrashes = 0
  TargetIdle = 0
  StoppedPoolSize = 0
  SlowAllocation = FALSE
  StaleListings = FALSE
SYMMETRY Symmetry
CHECK_DEADLOCK FALSE
SPECIFICATION Spec
PROPERTIES NextSessionLeftAlone
