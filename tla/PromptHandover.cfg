\* ... and the queue is edited while a sub-agent's coder is handed over.
SPECIFICATION Spec
CONSTANTS
  t1 = t1  t2 = t2  f = f  ui = ui
  Agents = {"worker"}
  Own = {t1, t2}
  Foreign = {f}
  Producers = {ui}
  Null = Null
  Capacity = 1
  Races = {"edit while handing over"}
  MaxPrompts = 3
  MaxMessages = 2
  MaxStops = 1
  MaxSwitches = 1
INVARIANTS NoPromptLost
\* prompts and messages are bounded
CHECK_DEADLOCK FALSE
