------------------------------ MODULE MCZoneClock ------------------------------
(* Zones for ZoneClock, in ticks of an hour: clocks that are put forward at        *)
(* midnight, west of Greenwich (Havana) and east of it (Cairo).                   *)
EXTENDS ZoneClock

MidnightZones == {[before |-> o, after |-> o + 1, at |-> DAY - o] : o \in {-5, 2}}
=============================================================================
