SPECIFICATION Spec
CONSTANTS
  NONE = NONE
  Members = {m1, m2}
  NextDueOn <- DayGrid
  Backdating <- Now
  Procs = {p1, p2}
  MaxDay = 1
  MaxOccs = 3
  MaxTasks = 1
  Specs <- TwoGrids
  HasTaskProvider = FALSE
  Ops <- Editing
PROPERTIES HistoryIsFinal
CHECK_DEADLOCK FALSE
