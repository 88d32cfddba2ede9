CONSTANTS
  Sessions = {s1, s2}
  Instances = {i1, i2}
  PoolCycle = PoolCycle
  NoSession = NoSession
  NoInstance = NoInstance
  Jobs = {"cycle"}
  Failing = {"reserve", "start", "launch", "host", "insert", "undeploy", "tagIdle", "terminate", "attempt", "cycle", "claim", "getInstance", "pollTag", "container"}
  MaxFailures = 1
  MaxCrashes = 0
  TargetIdle = 1
  StoppedPoolSize = 1
  SlowAllocation = FALSE
  StaleListings = TRUE
SYMMETRY Symmetry
SPECIFICATION Spec
INVARIANTS TypeOK HeldByOne
