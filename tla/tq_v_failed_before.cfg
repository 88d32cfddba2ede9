CONSTANTS
  Messages = {m1}
  MaxCopies = 2
  MaxCuts = 1
  MaxFailures = 2
  MaxCrashes = 1
  Failing = {"handler", "broker"}
SPECIFICATION Spec
INVARIANTS DroppedFailedTwice
CHECK_DEADLOCK FALSE
