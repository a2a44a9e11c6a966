SPECIFICATION FairSpec
CONSTANTS
  NONE = NONE
  Callers = {poll}
  Overlap = 1
  Limit = 1
  PageSize = 2
  MaxPages = 2
  Late = 0
  Ahead = 1
  MaxLines = 3
  MaxDay = 2
  Faults <- Unreachable
PROPERTIES EveryLineArrives
