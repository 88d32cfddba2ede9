CONSTANTS
  Sessions = {s1}
  Instances = {i1, i2}
  PoolCycle = PoolCycle
  NoSession = NoSession
  NoInstance = NoInstance
  Jobs = {"unused", "reclaim", "missing"}
  Failing = {"reserve", "start", "launch", "host", "insert", "undeploy", "tagIdle", "terminate", "attempt", "cycle", "claim", "getInstance", "pollTag", "container"}
  MaxFailures = 1
  MaxCrashes = 1
  TargetIdle = 0
  StoppedPoolSize = 0
  SlowAllocation = FALSE
  StaleListings = FALSE
 
SPECIFICATION FairSpec
PROPERTIES NoLeak
