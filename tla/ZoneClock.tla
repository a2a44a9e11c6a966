------------------------------- MODULE ZoneClock -------------------------------
(* The household's days as instants. The browser turns calendar days into the    *)
(* windows it asks the API for (web/src/lib/format.ts), the server turns date-only *)
(* data into instants (src/lib/local-date.ts), and both read instants back as      *)
(* days. Between two changes of the clock a zone is its offset; the module looks   *)
(* at one change at a time.                                                       *)
EXTENDS Integers, FiniteSetsExt

CONSTANTS DAY,         \* a day, in ticks
          Zones,       \* [before, after: the offsets, at: the instant of the change]
          LastDay      \* bound: the days walked through

VARIABLES zone, day
clockVars == <<zone, day>>

IsZone(z) == /\ z.before \in Int /\ -DAY < z.before /\ z.before < DAY
             /\ z.after \in Int /\ -DAY < z.after /\ z.after < DAY
             /\ z.at \in Int

ZoneConstants == DAY \in Nat \ {0} /\ \A z \in Zones : IsZone(z)
-----------------------------------------------------------------------------
zoneOffset(z, t) == IF t < z.at THEN z.before ELSE z.after

(* What the wall clock reads at instant t, and the calendar day it is in. *)
wallClock(z, t) == t + zoneOffset(z, t)
localDateOf(z, t) == wallClock(z, t) \div DAY

(* The first instant with the new offset, between one with the old and one with it. *)
firstAfterGap(z, old, new) ==
  LET search[p \in Int \X Int] ==
        LET mid == p[1] + ((p[2] - p[1]) \div 2)
        IN  IF p[2] - p[1] <= 1 THEN p[2]
            ELSE IF zoneOffset(z, mid) = z.after THEN search[<<p[1], mid>>] ELSE search[<<mid, p[2]>>]
  IN  search[<<old, new>>]

(* The offsets a day either side, and the instants at which they would give w. *)
Readings(z, w) ==
  {t \in {w - zoneOffset(z, w - DAY), w - zoneOffset(z, w + DAY)} : wallClock(z, t) = w}

\* Seeded fault: of two instants that read the same, the later.
LatestReading(z, w) ==
  IF Readings(z, w) # {} THEN Max(Readings(z, w))
  ELSE firstAfterGap(z, w - zoneOffset(z, w + DAY), w - zoneOffset(z, w - DAY))

(* In a fold the earlier instant, in a gap the first one after it. *)
instantFromWallClock(z, w) ==
  IF Readings(z, w) # {} THEN Min(Readings(z, w))
  ELSE firstAfterGap(z, w - zoneOffset(z, w + DAY), w - zoneOffset(z, w - DAY))

startOfDay(z, d) == instantFromWallClock(z, d * DAY)

(* Both ends are included. *)
dayWindow(z, from, to) == startOfDay(z, from) .. (startOfDay(z, to + 1) - 1)

(* The server's: corrected by the error of the wall clock, up to three times. *)
Corrected(z, w, guess) == guess + (w - wallClock(z, guess))

\* Seeded fault: the guess is corrected once.
CorrectedOnce(z, d) == Corrected(z, d * DAY, d * DAY)

zonedMidnightUtc(z, d) ==
  LET w == d * DAY
  IN  Corrected(z, w, Corrected(z, w, Corrected(z, w, w)))

\* Seeded fault: the date the instant has at Greenwich.
DateAtGreenwich(z, t) == t \div DAY

(* The date that goes out with a task that is due, or completed, at t. *)
dateSent(z, t) == localDateOf(z, t)

(* To Do keeps midnight in the author's zone, Google and To Do's own stamps midnight UTC. *)
KeptByToDo(z, d) == instantFromWallClock(z, d * DAY)
KeptAtGreenwich(d) == d * DAY

\* Seeded fault: a midnight at Greenwich is read in the household's zone.
DateInZone(z, raw) == localDateOf(z, raw)

(* A midnight at Greenwich is a bare date; another instant is read in the household's zone. *)
dateRecovered(z, raw) == IF raw % DAY = 0 THEN raw \div DAY ELSE localDateOf(z, raw)

toLocalMidnightIso(z, raw) == zonedMidnightUtc(z, dateRecovered(z, raw))
googleMidnight(z, raw)     == zonedMidnightUtc(z, raw \div DAY)
-----------------------------------------------------------------------------
ClockInit == zone \in Zones /\ day = 0

Midnight == day < LastDay /\ day' = day + 1 /\ UNCHANGED zone

ClockNext == Midnight

ClockSpec == ClockInit /\ [][ClockNext]_clockVars
-----------------------------------------------------------------------------
Today == (day * DAY) .. ((day + 1) * DAY - 1)

(* The instants that can be in the day. *)
Around == ((day - 1) * DAY) .. ((day + 2) * DAY)

Reads(w) == {t \in Around : wallClock(zone, t) = w}

(* The clock is never put back over a midnight: it would be one day, the next, and *)
(* the first again.                                                              *)
DaysInOrder == \A t \in Around : localDateOf(zone, t) <= localDateOf(zone, t + 1)

ClockTypeOK == zone \in Zones /\ day \in 0..LastDay

(* A wall clock time stands for the first instant at which the wall reads it, and   *)
(* for the change of the clock if it never does (format.ts:113-131).               *)
WallClockRight ==
  \A w \in Today :
    instantFromWallClock(zone, w) = IF Reads(w) # {} THEN Min(Reads(w)) ELSE zone.at

(* The days' windows tile the time: an instant is in the window of a day exactly    *)
(* when it is bucketed there, so that what the wall fetches for its columns is what *)
(* it shows in them (format.ts:163-174, hearth.ts:86-97).                          *)
WindowsTile ==
  DaysInOrder => \A t \in Around : t \in dayWindow(zone, day, day) <=> localDateOf(zone, t) = day

(* A date without a time is anchored by the server to an instant that everyone      *)
(* reads as that date, and as its midnight (local-date.ts:41-61).                  *)
AnchorRight == Reads(day * DAY) # {} => zonedMidnightUtc(zone, day) \in Reads(day * DAY)

(* A task that is due, or was completed, on a day is mirrored on that day, whichever *)
(* provider keeps it, in the zone of the household or in UTC (m365/task-provider.ts:58-72,*)
(* google/task-provider.ts:205-210).                                               *)
DuesRight ==
  Reads(day * DAY) # {} =>
    \A t \in Around : localDateOf(zone, t) = day =>
      LET sent    == dateSent(zone, t)
          mirrors == {toLocalMidnightIso(zone, KeptByToDo(zone, sent)),
                      toLocalMidnightIso(zone, KeptAtGreenwich(sent)),
                      googleMidnight(zone, KeptAtGreenwich(sent))}
      IN  \A m \in mirrors : localDateOf(zone, m) = day

DaysRight == WallClockRight /\ WindowsTile /\ AnchorRight /\ DuesRight
-----------------------------------------------------------------------------
(* "If local midnight does not exist (a spring-forward exactly at midnight) the     *)
(* first instant after the gap wins" (local-date.ts:45-46).                        *)
GapWins == Reads(day * DAY) = {} => zonedMidnightUtc(zone, day) = zone.at
=============================================================================
