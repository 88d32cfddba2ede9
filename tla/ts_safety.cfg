CONSTANTS
  t1 = t1
  t2 = t2
  t3 = t3
  alice = alice
  bob = bob
  Tasks = {t1, t2}
  Users = {alice}
  Owner <- MCOwner
  NoTask = NoTask
  MaxConcurrent = 2
  MaxConcurrentPerUser = 1
  Hanging = {}
  Failing = {"run", "kill"}
  MaxFailures = 1
  MaxCrashes = 0
  Cancelable = {t1}
  Removable = {t1}
  MaxResubmits = 2
  MaxQueue = 0
SPECIFICATION Spec
INVARIANTS TypeOK IInv RerunOnce
PROPERTIES RunnerLeftAlone LifecycleKept StoppedOnce
CHECK_DEADLOCK FALSE
