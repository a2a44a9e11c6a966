------------------------------ MODULE FeohCadence ------------------------------
(***************************************************************************)
(* The due dates of a recurring bill: modules/feoh/cadence.ts, as it steps *)
(* from the bill's nextDue, and as occurrences.ts asks it, day by day.     *)
(***************************************************************************)
EXTENDS CivilDates

CONSTANTS BillAnchors,   \* values of nextDue
          LastAsked      \* bound: how many days after nextDue are asked about

VARIABLES nextDue, cadence, asked
cadenceVars == <<nextDue, cadence, asked>>
-----------------------------------------------------------------------------
MONTH_STEPS == [monthly |-> 1, quarterly |-> 3, semiannual |-> 6, yearly |-> 12]
CADENCES    == DOMAIN MONTH_STEPS \cup {"weekly"}

addPeriods(a, c, n) == IF c = "weekly" THEN AddDays(a, 7 * n) ELSE AddMonths(a, MONTH_STEPS[c] * n)

(* How often the loop of projectDueDates comes round before it passes the end. *)
RECURSIVE PeriodsThrough(_, _, _, _)
PeriodsThrough(a, c, end, n) ==
  IF Before(end, addPeriods(a, c, n)) THEN n ELSE PeriodsThrough(a, c, end, n + 1)

projectDueDates(a, c, toInclusive) ==
  {addPeriods(a, c, n) : n \in 0..(PeriodsThrough(a, c, toInclusive, 0) - 1)}

(* Seeded fault: each date is computed from the one before, so Feb 28 sticks. *)
RECURSIVE ReachesByChain(_, _, _)
ReachesByChain(d, c, due) ==
  CASE d = due          -> TRUE
    [] Before(due, d)   -> FALSE
    [] OTHER            -> ReachesByChain(addPeriods(d, c, 1), c, due)
isProjectedByChain(a, c, due) == ~Before(due, a) /\ ReachesByChain(a, c, due)

RECURSIVE Reaches(_, _, _, _)
Reaches(a, c, due, n) ==
  LET d == addPeriods(a, c, n)
  IN  CASE d = due        -> TRUE
        [] Before(due, d) -> FALSE
        [] OTHER          -> Reaches(a, c, due, n + 1)

isProjectedDate(a, c, due) == ~Before(due, a) /\ Reaches(a, c, due, 0)

(* listOccurrences: to, or half a year from today, and never past two years. *)
ListHorizon(today, to) ==
  LET cap  == AddMonths(today, 24)
      want == IF to = <<>> THEN AddMonths(today, 6) ELSE to
  IN  IF Before(cap, want) THEN cap ELSE want
-----------------------------------------------------------------------------
CadenceInit == /\ nextDue \in BillAnchors /\ cadence \in CADENCES
               /\ asked = AddDays(nextDue, -1)

(* The members ask about each day in turn. *)
AskNextDay == /\ DayNo(asked) < DayNo(nextDue) + LastAsked
              /\ asked' = AddDays(asked, 1)
              /\ UNCHANGED <<nextDue, cadence>>

CadenceTypeOK == /\ nextDue \in BillAnchors /\ cadence \in CADENCES
                 /\ asked \in Dates
-----------------------------------------------------------------------------
(* The due dates without loops: same day of the month, or the month's last. *)
IsDue(x) ==
  /\ NotAfter(nextDue, x)
  /\ IF cadence = "weekly" THEN (DayNo(x) - DayNo(nextDue)) % 7 = 0
     ELSE /\ (x[1] - nextDue[1]) % MONTH_STEPS[cadence] = 0
          /\ x[2] = Smaller(nextDue[2], DaysInMonth(x[1]))

(* Linking or skipping accepts exactly the dates that are due (isProjectedDate, *)
(* "Arbitrary dates are NOT occurrences"), and a list through that day shows    *)
(* them all: month ends and leap days clamp without drifting.                    *)
ProjectionRight ==
  LET listed == projectDueDates(nextDue, cadence, ListHorizon(nextDue, asked))
  IN  /\ isProjectedDate(nextDue, cadence, asked) <=> IsDue(asked)
      /\ asked \in listed <=> IsDue(asked)
      /\ \A x \in listed : IsDue(x) /\ NotAfter(x, asked)
=============================================================================
