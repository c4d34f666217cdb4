\* A rebuild that fails or is cancelled loses the queue of a sub-agent.
SPECIFICATION Spec
CONSTANTS
  t1 = t1  t2 = t2  f = f  ui = ui
  Agents = {"worker"}
  Own = {t1, t2}
  Foreign = {f}
  Producers = {ui}
  Null = Null
  Capacity = 1
  Races = {}
  MaxPrompts = 3
  MaxMessages = 2
  MaxStops = 1
  MaxSwitches = 1
INVARIANTS RebuildKeepsQueue
\* prompts and messages are bounded
CHECK_DEADLOCK FALSE
