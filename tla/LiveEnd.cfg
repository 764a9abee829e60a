SPECIFICATION FairSpec
CONSTANTS
  MaxLen = 2
  MaxEpoch = 2
  MaxGen = 1
  MaxChunk = 1
  MaxId = 4
  MaxLosses = 2
  Endings = {"completed", "deadline_exceeded"}
  PageSize = 1
  MaxUpsets = 1
INVARIANTS TypeOK TerminalIsTheRunsEnd
PROPERTY EndIsLearnt
CHECK_DEADLOCK FALSE
