CONSTANTS
  Sessions = {s1, s2}
  Instances = {i1}
  PoolCycle = PoolCycle
  NoSession = NoSession
  NoInstance = NoInstance
  Jobs = {"reconcile", "missing"}
  Failing = {"attempt", "container", "insert"}
  MaxFailures = 1
  MaxCrashes = 1
  TargetIdle = 0
  StoppedPoolSize = 0
  SlowAllocation = FALSE
  StaleListings = FALSE
 
SPECIFICATION FairSpec
PROPERTIES PendingSettles  
