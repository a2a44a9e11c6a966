SPECIFICATION Spec
CONSTANTS
  NONE = NONE
  Callers = {poll, manual}
  Overlap = 2
  Limit = 1
  PageSize = 2
  MaxPages = 2
  Late = 1
  Ahead = 1
  MaxLines = 3
  MaxDay = 3
  Faults <- AllButMidSweep
SYMMETRY Sym
INVARIANTS TypeOK NoLineLost
