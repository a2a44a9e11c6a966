SPECIFICATION ClockSpec
CONSTANTS
  DAY = 24
  Zones <- MidnightZones
  LastDay = 3
INVARIANTS GapWins
CHECK_DEADLOCK FALSE
