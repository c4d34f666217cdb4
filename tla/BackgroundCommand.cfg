\* Three characters of output in pages of two; the first page of a spill may fail.
SPECIFICATION FairSpec
CONSTANTS
  MaxSize = 2
  PageSize = 2
  Missing = Missing
  Terminals = {TRUE, FALSE}
  DiskFaults = {0, 1}
  MaxChunk = 3
  MaxOutput = 3
  MaxInputs = 2
INVARIANTS NothingUnaccounted ReadsFollowStream
PROPERTIES InputArrives ThreadsEnd
\* a command ends
CHECK_DEADLOCK FALSE
