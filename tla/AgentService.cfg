\* Three spawns at a limit of two (the first may be a workflow's worker, the
\* second a memorizer, the others are delegates of anyone) and one event.
SPECIFICATION Spec
CONSTANTS
  Null = Null
  MaxSpawns = 3
  MaxEvents = 1
  Limit = 2
  Kinds <- MCKinds
  Races = {}
INVARIANTS AgentTypeOK StatusFollowsRun YieldIsDelivered ReapSafe LimitHolds TreeFollowsSpawns
PROPERTIES InvokeIsReleased
CHECK_DEADLOCK FALSE
