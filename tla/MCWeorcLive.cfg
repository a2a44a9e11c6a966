SPECIFICATION FairSpec
CONSTANTS
  NONE = NONE
  Members = {m1}
  MaxDay = 0
  Specs <- EveryDay
  NextDueOn <- DayGrid
  Backdating <- Now
  Procs = {p1}
  MaxOccs = 2
  MaxTasks = 3
  HasTaskProvider = TRUE
  Ops <- TasksLost
INVARIANTS AtMostOneTask
PROPERTIES WorkIsMaterialised TickedIsCompleted
