SPECIFICATION Spec
CONSTANTS
  NONE = NONE
  Members = {m1}
  NextDueOn <- DayGrid
  Backdating <- Now
  Procs = {p1, p2}
  MaxDay = 1
  MaxOccs = 3
  MaxTasks = 1
  Specs <- EveryDayOnOff
  HasTaskProvider = TRUE
  Ops <- Everyday
SYMMETRY Sym
INVARIANTS TypeOK LinkedToOwnTask NoBacklog
PROPERTIES NeverReopened
