\* Three processes, two of them at a time, with a crash or a call of git that fails.
SPECIFICATION Spec
CONSTANTS
  p1 = p1  p2 = p2  p3 = p3  p4 = p4
  Processes = {p1, p2, p3}
  Null = Null
  Detached = Detached
  MaxAlive = 2
  MaxFaults = 1
  MaxUuids = 2
  MaxWork = 1
  MaxMoves = 1
SYMMETRY Alike
INVARIANTS WorktreesTypeOK NoWorkLost NothingLeaks OwnerKeepsCheckout
\* processes end
CHECK_DEADLOCK FALSE
