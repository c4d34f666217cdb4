\* One of two instances crashes, or a write to its database fails, at any step.
SPECIFICATION FairSpec
CONSTANTS
  a = a  b = b  j1 = j1  j2 = j2
  Null = Null
  Instances = {a, b}
  Jobs = {j1}
  Hashes = {h}
  LeaseTimeout = 2
  Period = 2
  Offset = 0
  NextRun <- MCNextRun
  NextRunUTC <- MCNextRunUTC
  MaxTime = 5
  MaxAttempts <- NotUsed
  Config <- BothSame
  Hash <- OneHash
  CatchUpOn = TRUE
  MaxCatchup = 1
  Running = {a, b}
  Faults = {"crash", "dbfail"}
  MaxFaults = 1
INVARIANTS AtMostOneExecuting
PROPERTIES QuietSlotPasses CrashedSlotRetried LeaseSpec
\* time is bounded and services may all have ended
CHECK_DEADLOCK FALSE
