CONSTANTS
  Sessions = {s1, s2}
  Instances = {i1}
  PoolCycle = PoolCycle
  NoSession = NoSession
  NoInstance = NoInstance
  Jobs = {"unused", "reclaim"}
  Failing = {"reserve", "start", "launch", "host", "insert", "undeploy", "tagIdle", "terminate", "attempt", "cycle"}
  MaxFailures = 1
  MaxCrashes = 1
  TargetIdle = 0
  StoppedPoolSize = 0
  SlowAllocation = FALSE
  StaleListings = FALSE
SYMMETRY Symmetry
SPECIFICATION Spec
INVARIANTS SessionKeepsInstance IdleIsClean ContainerIsClaimed
PROPERTIES LeasesKept
