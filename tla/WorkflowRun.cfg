\* Two runs of one workflow of three tasks that may overlap on its worker in any order; three disturbances of any kind.
SPECIFICATION FairSpec
CONSTANTS
  r1 = r1  r2 = r2  r3 = r3
  Null = Null
  Runs = {r1, r2}
  Tasks = 3
  Disturbances = {"cancel", "error", "spawn fails", "queued error", "hook", "interrupt", "rebuild"}
  MaxDisturbances = 3
INVARIANTS ResultTruthful OnlyOwnTasks
PROPERTIES RunsEnd
\* every run is over in the end
CHECK_DEADLOCK FALSE
