CONSTANTS
  t1 = t1
  t2 = t2
  t3 = t3
  alice = alice
  bob = bob
  Tasks = {t1, t2}
  NoTask = NoTask
  Owner <- MCOwner
  MaxSlots = 1
  MaxGrants = 2
  MaxSteps = 2
  Punctual = FALSE
  Failing = {"kill"}
  Cancelable = {t1, t2}
  MaxGivenUp = 1
  MaxLost = 1
  MaxFailures = 1
  MaxCrashes = 1
SPECIFICATION Spec
SYMMETRY Symmetry
INVARIANTS TypeOK SlotsAreEnough ProcessingHolds SlotIsInSight IInv
CHECK_DEADLOCK FALSE
