\* For the reader: as AgentService.cfg; results of nested sub-agents too; violated.
SPECIFICATION Spec
CONSTANTS
  Null = Null
  MaxSpawns = 3
  MaxEvents = 1
  Limit = 2
  Kinds <- MCKinds
  Races = {}
INVARIANTS ResultsReachParent
CHECK_DEADLOCK FALSE
