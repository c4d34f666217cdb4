\* Services started, stopped and reloaded with different YAML, workflows toggled, cancelled and not ending, crashes.
SPECIFICATION SchedulerSpec
CONSTANTS
  a = a  b = b  j1 = j1  j2 = j2
  Null = Null
  Instances = {a, b}
  Jobs = {j1}
  Hashes = {h}
  LeaseTimeout = 2
  Period = 2
  Offset = 0
  NextRun <- MCNextRun
  NextRunUTC <- MCNextRunUTC
  MaxTime = 5
  MaxAttempts <- NotUsed
  Config <- OnlyAHasJ1
  Hash <- OneHash
  CatchUpOn = TRUE
  MaxCatchup = 1
  Running = {a}
  Faults = {"start", "reload", "toggle", "stop", "ignore", "cancel", "crash"}
  MaxFaults = 4
INVARIANTS ClaimIsDispatched StopLeavesNoLease
PROPERTIES TerminalNeverRerun
\* time is bounded and services may all have ended
CHECK_DEADLOCK FALSE
