CONSTANTS
  Messages = {m1, m2}
  MaxCopies = 2
  MaxCuts = 1
  MaxFailures = 2
  MaxCrashes = 1
  Failing = {"handler", "broker"}
SPECIFICATION FairSpec
INVARIANTS TypeOK RepeatedByCutsOnly NoneUnaccounted IInv
PROPERTIES DeliveryKept PublishedIsServed
CHECK_DEADLOCK FALSE
