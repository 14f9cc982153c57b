SPECIFICATION Spec
CONSTANTS
  Iter = 4
  Runs = 2
  Limits = {2, 4}
  MaxFaults = 2
INVARIANTS EveryTaskTimed ReportedOnce
PROPERTY Completes
CHECK_DEADLOCK FALSE
