SPECIFICATION Spec
CONSTANTS
  MaxLen = 2
  MaxEpoch = 2
  MaxGen = 2
  MaxChunk = 3
  MaxId = 5
  MaxLosses = 1
  Endings = {"deadline_exceeded"}
  PageSize = 2
  MaxUpsets = 1
INVARIANT TrimmedCursorStopsDraft
CHECK_DEADLOCK FALSE
