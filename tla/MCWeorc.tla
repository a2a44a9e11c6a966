------------------------------- MODULE MCWeorc -------------------------------
(* Instances of Weorc for TLC, with intervals of whole days. *)
EXTENDS Weorc, TLC

(* recurrence.ts for intervals in days: from_completion, and the fixed grid    *)
(* with its fast-forward.                                                      *)
DayGrid(s, last, day) ==
  IF s.mode = "from_completion"
  THEN IF last = NONE THEN s.anchor ELSE last + s.every
  ELSE LET after == IF last = NONE THEN s.anchor - 1 ELSE last
           slots == {s.anchor + k * s.every : k \in 0..20}
           first == CHOOSE d \in slots : d > after /\ \A e \in slots : e > after => d <= e
       IN  IF first > day THEN first
           ELSE CHOOSE d \in slots : d <= day /\ \A e \in slots : e <= day => e <= d

Spec1(mode, every, lead) ==
  [mode |-> mode, anchor |-> 0, every |-> every, lead |-> lead, active |-> TRUE]
Off(s) == [s EXCEPT !.active = FALSE]

EveryDay      == {Spec1("fixed", 1, 1)}
EveryDayOnOff == EveryDay \cup {Off(s) : s \in EveryDay}
AfterDone     == {Spec1("from_completion", 1, 1)}
TwoGrids      == {Spec1("fixed", 1, 1), Spec1("fixed", 2, 1)}

Now == {0}

Everyday  == {"tick", "end", "tasks", "update", "delete", "crash", "lostAnswer"}
TasksLost == {"tick", "end", "tasks", "drop"}
TickOnly  == {"tick", "end"}
Editing   == {"end", "update", "delete"}

Sym == Permutations(Procs)
=============================================================================
