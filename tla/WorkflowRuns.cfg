\* Three runs in any order, two that wait for the third among them, and one disturbance.
SPECIFICATION FairSpec
CONSTANTS
  r1 = r1  r2 = r2  r3 = r3
  Null = Null
  Runs = {r1, r2, r3}
  Tasks = 3
  Disturbances = {"cancel", "error", "spawn fails", "queued error", "hook", "interrupt", "rebuild"}
  MaxDisturbances = 1
INVARIANTS RunTypeOK ResultTruthful OnlyOwnTasks
PROPERTIES RunsEnd
\* every run is over in the end
CHECK_DEADLOCK FALSE
