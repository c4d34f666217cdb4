\* For the reader: a queued task raises, and the tasks behind it are processed; violated.
SPECIFICATION Spec
CONSTANTS
  r1 = r1  r2 = r2  r3 = r3
  Null = Null
  Runs = {r1, r2}
  Tasks = 3
  Disturbances = {"queued error"}
  MaxDisturbances = 1
INVARIANTS ErrorsStop
\* every run is over in the end
CHECK_DEADLOCK FALSE
