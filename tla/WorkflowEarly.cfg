\* For the reader: a run begins before the one on its worker has counted what is left; violated.
SPECIFICATION Spec
CONSTANTS
  r1 = r1  r2 = r2  r3 = r3
  Null = Null
  Runs = {r1, r2}
  Tasks = 3
  Disturbances = {"error"}
  MaxDisturbances = 1
INVARIANTS AllTruthful
\* every run is over in the end
CHECK_DEADLOCK FALSE
