CONSTANTS
  t1 = t1
  t2 = t2
  t3 = t3
  alice = alice
  bob = bob
  Tasks = {t1, t2}
  NoTask = NoTask
  Owner <- MCOwner
  MaxSlots = 1
  MaxGrants = 2
  MaxSteps = 1
  Punctual = TRUE
  Failing = {}
  Cancelable = {}
  MaxGivenUp = 0
  MaxLost = 1
  MaxFailures = 0
  MaxCrashes = 0
SPECIFICATION FairSpec
PROPERTIES WaiterIsGranted
INVARIANTS EndedHoldsUntilGone
CHECK_DEADLOCK FALSE
