\* For the reader: the documentation, by letter; each of the three is violated (tlc -continue).
SPECIFICATION Spec
CONSTANTS
  p1 = p1  p2 = p2  p3 = p3  p4 = p4
  Processes = {p1, p2}
  Null = Null
  Detached = Detached
  MaxAlive = 2
  MaxFaults = 1
  MaxUuids = 2
  MaxWork = 1
  MaxMoves = 1
SYMMETRY Alike
INVARIANTS WorkKept AllRecorded SharersKeepCheckout
\* processes end
CHECK_DEADLOCK FALSE
