\* For the reader: two runs wait for a third; violated, the first of them stops the tasks of the second.
SPECIFICATION Spec
CONSTANTS
  r1 = r1  r2 = r2  r3 = r3
  Null = Null
  Runs = {r1, r2, r3}
  Tasks = 3
  Disturbances = {}
  MaxDisturbances = 0
INVARIANTS AllTruthful
\* every run is over in the end
CHECK_DEADLOCK FALSE
