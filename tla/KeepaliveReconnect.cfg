\* A server that stops answering pings and can be reached again.
SPECIFICATION Spec
CONSTANTS
  c = c
  Callers = {c}
  Null = Null
  Threshold = 3
  MaxConnects = 2
  MaxPings = 3
  MaxRemovals = 0
  MaxFaults = 0
PROPERTIES Recovers
CHECK_DEADLOCK FALSE
