SPECIFICATION FairSpec
CONSTANTS
  NONE = NONE
  Members = {m1}
  MaxDay = 1
  Specs <- AfterDone
  NextDueOn <- DayGrid
  Backdating <- Now
  Procs = {p1}
  MaxOccs = 4
  MaxTasks = 1
  HasTaskProvider = FALSE
  Ops <- TickOnly
PROPERTIES WorkIsMaterialised
