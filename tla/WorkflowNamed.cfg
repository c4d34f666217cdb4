\* For the reader: which task a cancelled run is said to have ended at; violated.
SPECIFICATION Spec
CONSTANTS
  r1 = r1  r2 = r2  r3 = r3
  Null = Null
  Runs = {r1, r2}
  Tasks = 3
  Disturbances = {"cancel"}
  MaxDisturbances = 1
INVARIANTS FailingTaskNamed
\* every run is over in the end
CHECK_DEADLOCK FALSE
