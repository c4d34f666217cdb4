\* A finished command is removed while its reader has not read all of its output.
SPECIFICATION Spec
CONSTANTS
  MaxSize = 2
  PageSize = 2
  Missing = Missing
  Terminals = {FALSE}
  DiskFaults = {0}
  MaxChunk = 2
  MaxOutput = 2
  MaxInputs = 0
INVARIANTS OutputReported
CHECK_DEADLOCK FALSE
