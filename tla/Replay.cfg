SPECIFICATION Spec
CONSTANTS
  Schedules <- MCSchedules
  NextRun <- MCNextRun
  MaxCatchup = 1
  Horizon = 12
INVARIANTS FiredOnceInOrder
PROPERTIES BacklogReplayed
\* time is bounded
CHECK_DEADLOCK FALSE
