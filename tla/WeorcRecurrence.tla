--------------------------- MODULE WeorcRecurrence ---------------------------
(***************************************************************************)
(* The recurrence of src/modules/weorc/recurrence.ts, step by step as the  *)
(* code computes it, and a routine lived through on a calendar: days pass, *)
(* and whenever its occurrence is finished the next one is asked for.      *)
(***************************************************************************)
EXTENDS CivilDates

CONSTANTS Specs,                \* routine settings: mode, unit, count, anchor
          Start,                \* the day the routine is created
          Horizon,              \* bound: days lived through
          NONE

VARIABLES spec, last, day
vars == <<spec, last, day>>
-----------------------------------------------------------------------------
AddInterval(x, unit, n) ==
  CASE unit = "day"   -> AddDays(x, n)
    [] unit = "week"  -> AddDays(x, 7 * n)
    [] unit = "month" -> AddMonths(x, n)

(* Seeded fault: a slot computed from the one before it, so clamping accumulates. *)
RECURSIVE DriftingSlotAt(_, _)
DriftingSlotAt(s, k) == IF k = 0 THEN s.anchor
                        ELSE AddInterval(DriftingSlotAt(s, k - 1), s.unit, s.count)

SlotAt(s, k) == AddInterval(s.anchor, s.unit, s.count * k)

EstimateK(s, target) ==
  CASE s.unit = "month" -> (target[1] - s.anchor[1]) \div s.count
    [] s.unit = "week"  -> (DayNo(target) - DayNo(s.anchor)) \div (7 * s.count)
    [] s.unit = "day"   -> (DayNo(target) - DayNo(s.anchor)) \div s.count
-----------------------------------------------------------------------------
RECURSIVE StepDown(_, _, _)
StepDown(s, k, after) ==
  IF k > 0 /\ Before(after, SlotAt(s, k - 1)) THEN StepDown(s, k - 1, after) ELSE k

(* Seeded fault: a slot on the last terminal date counts as new. *)
RECURSIVE StepUpTooShort(_, _, _)
StepUpTooShort(s, k, after) ==
  IF Before(SlotAt(s, k), after) THEN StepUpTooShort(s, k + 1, after) ELSE k

RECURSIVE StepUp(_, _, _)
StepUp(s, k, after) ==
  IF NotAfter(SlotAt(s, k), after) THEN StepUp(s, k + 1, after) ELSE k

(* Seeded fault: no fast-forward, every missed slot is due in turn. *)
NoFastForward(s, k, today) == k

RECURSIVE FastForward(_, _, _)
FastForward(s, k, today) ==
  IF NotAfter(SlotAt(s, k + 1), today) THEN FastForward(s, k + 1, today) ELSE k

FixedDue(s, terminal, today) ==
  LET after == IF terminal = NONE THEN AddDays(s.anchor, -1) ELSE terminal
      guess == EstimateK(s, after)
      k     == StepUp(s, StepDown(s, IF guess < 0 THEN 0 ELSE guess, after), after)
  IN  SlotAt(s, FastForward(s, k, today))

NextDueOn(s, terminal, today) ==
  CASE s.mode = "from_completion" /\ terminal = NONE -> s.anchor
    [] s.mode = "from_completion" /\ terminal # NONE -> AddInterval(terminal, s.unit, s.count)
    [] s.mode = "fixed" /\ terminal = NONE /\ NotAfter(today, s.anchor) -> s.anchor
    [] OTHER -> FixedDue(s, terminal, today)
-----------------------------------------------------------------------------
Due == NextDueOn(spec, last, day)

TypeOK ==
  /\ spec \in Specs
  /\ day[1] \in 0..MaxMonth /\ day[2] \in 1..DaysInMonth(day[1])
  /\ Due[1] \in 0..MaxMonth /\ Due[2] \in 1..DaysInMonth(Due[1])

Init == spec \in Specs /\ last = NONE /\ day = Start

DayPasses == /\ DayNo(day) < DayNo(Start) + Horizon
             /\ day' = AddDays(day, 1)
             /\ UNCHANGED <<spec, last>>

(* terminalDateOf: the grid keeps the due date, from_completion the day it was done. *)
Finish == /\ NotAfter(Due, day)
          /\ last' = IF spec.mode = "fixed" THEN Due ELSE day
          /\ UNCHANGED <<spec, day>>

Next == DayPasses \/ Finish

Spec == Init /\ [][Next]_vars
-----------------------------------------------------------------------------
(* The grid, without steps and estimates: every date the routine can fall on. *)
GridOf ==
  [s \in Specs |->
    {x \in Dates :
       /\ NotAfter(s.anchor, x)
       /\ CASE s.unit = "month" -> /\ (x[1] - s.anchor[1]) % s.count = 0
                                  /\ x[2] = Smaller(s.anchor[2], DaysInMonth(x[1]))
            [] s.unit = "week"  -> (DayNo(x) - DayNo(s.anchor)) % (7 * s.count) = 0
            [] s.unit = "day"   -> (DayNo(x) - DayNo(s.anchor)) % s.count = 0}]

Ahead  == {x \in GridOf[spec] : last # NONE => Before(last, x)}
Missed == {x \in Ahead : NotAfter(x, day)}

(* On a fixed grid the estimate, its corrections and the fast-forward find the *)
(* one right slot: the latest missed one if any was missed (never a backlog),   *)
(* the first one after history if none was -- through month ends, leap days     *)
(* and gaps of any length.                                                      *)
FixedIsRightSlot ==
  spec.mode = "fixed" =>
    IF Missed = {} THEN Due \in Ahead /\ \A x \in Ahead : NotAfter(Due, x)
    ELSE Due \in Missed /\ \A x \in Missed : NotAfter(x, Due)

(* In either mode the next occurrence lies strictly after the last finished    *)
(* one's base date, so a routine can always go on.                              *)
DueAfterLast == last # NONE => Before(last, Due)
=============================================================================
