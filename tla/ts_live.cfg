CONSTANTS
  t1 = t1
  t2 = t2
  t3 = t3
  alice = alice
  bob = bob
  Tasks = {t1, t2}
  Users = {alice}
  Owner <- MCOwner
  NoTask = NoTask
  MaxConcurrent = 1
  MaxConcurrentPerUser = 2
  Hanging = {t1, t2}
  Failing = {"remove", "stop"}
  MaxFailures = 1
  MaxCrashes = 1
  Cancelable = {t1, t2}
  Removable = {}
  MaxResubmits = 0
  MaxQueue = 0
SPECIFICATION FairSpec
INVARIANTS LimitsHold 
PROPERTIES CancelEnds PendingStarts NothingIsLeft
