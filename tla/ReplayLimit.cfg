\* One missed slot more than max_catchup is replayed.
SPECIFICATION Spec
CONSTANTS
  Schedules <- MCSchedules
  NextRun <- MCNextRun
  MaxCatchup = 1
  Horizon = 12
PROPERTIES DeepBacklogSkipped
\* time is bounded
CHECK_DEADLOCK FALSE
