\* A primary or a workflow's worker, a foreign /queue run; nobody edits while a coder is handed over.
SPECIFICATION FairSpec
CONSTANTS
  t1 = t1  t2 = t2  f = f  ui = ui
  Agents = {"primary", "worker"}
  Own = {t1, t2}
  Foreign = {f}
  Producers = {ui}
  Null = Null
  Capacity = 1
  Races = {}
  MaxPrompts = 3
  MaxMessages = 2
  MaxStops = 1
  MaxSwitches = 1
INVARIANTS NoPromptLost RerunsAreInterruptions OneDrain CapacityOvershoot
PROPERTIES OrderKept QueueIsServed
\* prompts and messages are bounded
CHECK_DEADLOCK FALSE
