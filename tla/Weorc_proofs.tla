----------------------------- MODULE Weorc_proofs -----------------------------
(* Proofs about Weorc: its types, that an occurrence is linked to its own task *)
(* only, that what is over is never due again, that there is never a backlog    *)
(* and never a second task, for any number of ticks and requests.              *)
EXTENDS Weorc, FiniteSetTheorems, WellFoundedInduction, TLAPS

USE WeorcAssumption

(* What recurrence.ts promises its caller: a day, whatever it is asked. *)
RecurrenceAnswers ==
  \A s \in Specs, last \in Int \cup {NONE}, day \in Int : NextDueOn(s, last, day) \in Int

(* A fixed routine falls on the slots of a grid: the latest one missed since    *)
(* the last terminal date, or else the first one after it                      *)
(* (FixedIsRightSlot of WeorcRecurrence).                                       *)
RightSlot(slots, last, day, due) ==
  LET ahead  == {x \in slots : last # NONE => last < x}
      missed == {x \in ahead : x <= day}
  IN  IF missed = {} THEN due \in ahead /\ \A x \in ahead : due <= x
      ELSE due \in missed /\ \A x \in missed : x <= due

FixedGrids ==
  /\ \A s \in Specs : s.mode = "fixed"
  /\ \E slots \in [Specs -> SUBSET Int] :
       \A s \in Specs, last \in Int \cup {NONE}, day \in Int :
         RightSlot(slots[s], last, day, NextDueOn(s, last, day))

(* Such grids exist: a daily routine, answered as recurrence.ts does, with the   *)
(* next slot after history and the fast-forward to today.                       *)
LEMMA DailyGrid ==
  ASSUME NEW anchor \in Int, NEW last \in Int \cup {NONE}, NEW day \in Int, NEW first, NEW due,
         first = IF last = NONE THEN anchor ELSE IF last < anchor THEN anchor ELSE last + 1,
         due = IF first > day THEN first ELSE day
  PROVE  RightSlot({x \in Int : anchor <= x}, last, day, due)
<1>1. CASE last = NONE
  BY <1>1 DEF RightSlot
<1>2. CASE last # NONE
  BY <1>2 DEF RightSlot
<1> QED BY <1>1, <1>2
-----------------------------------------------------------------------------
(* ------------------------------------------------------- the invariants *)
(* What a process needs at a step it has read before. *)
JobFits(step, j) ==
  /\ step \in {"reconcile", "relink", "relinked", "reconciled", "find", "create", "mirror",
               "link", "end", "outward", "local", "updHistory", "move"} => j.occ # NONE
  /\ step \in {"reconcile", "relink", "relinked", "reconciled", "mirror", "link", "outward",
               "local"} => j.link # NONE
  /\ step \in {"history", "updOpen", "updHistory"} => j.spec # NONE
  /\ step \in {"end", "reconciled"} => (j.status = "completed" => j.at # NONE)

(* A process only ever links an occurrence to a task made for it. *)
OwnTask(step, j) ==
  step \in {"relinked", "mirror", "link"} =>
    task[j.link] # NONE /\ task[j.link].marker = j.occ

JobInv == \A p \in Procs : JobFits(pc[p], job[p]) /\ OwnTask(pc[p], job[p])

(* A mirror row stands for a task of the provider and carries its marker. *)
Backed ==
  \A t \in TaskIds :
    /\ task[t] # NONE => (task[t].state = "done" => task[t].at # NONE)
    /\ mirror[t] # NONE => /\ task[t] # NONE /\ task[t].marker = mirror[t].marker
                           /\ mirror[t].state = "done" => mirror[t].at # NONE

TypeInv == TypeOK /\ JobInv /\ Backed

(* Ids are given out in order and never again. *)
RowsInOrder == \A o \in OccIds : o > made => occ[o] = NONE

IsOpen(o) == occ[o] # NONE /\ occ[o].status = "due"
IsOver(o) == occ[o] # NONE /\ occ[o].status # "due"

(* The last terminal date, NONE without one. *)
LastDate(last) ==
  \/ last = NONE /\ \A q \in OccIds : ~IsOver(q)
  \/ /\ last \in Int
     /\ \E o \in OccIds : IsOver(o) /\ occ[o].dueOn = last
     /\ \A q \in OccIds : IsOver(q) => occ[q].dueOn <= last

(* What a process is about to insert: the slot the history calls for now, or   *)
(* one that is history already, which the unique date refuses.                  *)
Pending(last, due) ==
  \/ due = NextDueOn(routine, last, today)
  \/ \E q \in OccIds : IsOver(q) /\ occ[q].dueOn = due

JobOnSlot(last, step, j) ==
  /\ step \notin {"updOpen", "updHistory", "move"}
  /\ step \in {"reconcile", "relink", "relinked", "reconciled", "materialise", "advance",
               "history", "insert", "reread", "rowAgain"} => j.today = today
  /\ routine # NONE =>
       /\ step = "history" => j.spec = routine
       /\ step \in {"insert", "reread", "rowAgain"} => Pending(last, j.due)

(* The open occurrence lies after the last date and not after the slot the     *)
(* routine has now.                                                             *)
OpenOnSlot(last, o) ==
  IsOpen(o) => /\ last # NONE => last < occ[o].dueOn
               /\ routine # NONE => occ[o].dueOn <= NextDueOn(routine, last, today)

BacklogAt(last) ==
  /\ LastDate(last)
  /\ \A o \in OccIds : OpenOnSlot(last, o)
  /\ \A p \in Procs : JobOnSlot(last, pc[p], job[p])

OneOpen == \A o, q \in OccIds : IsOpen(o) /\ IsOpen(q) => o = q

BacklogInv ==
  OneOpen /\ \E last \in {occ[o].dueOn : o \in Terminal} \cup {NONE} : BacklogAt(last)

Untasked(o) == \A t \in TaskIds : task[t] # NONE => task[t].marker # o

Live(t) == task[t] # NONE /\ task[t].state # "gone"

(* One process at a time: what it looks for or makes a task for has none, and   *)
(* a request that has ended an occurrence finds no other open one.              *)
OneJob(step, j) ==
  /\ step \in {"find", "create"} => j.occ <= made /\ Untasked(j.occ)
  /\ step \in {"reconcile", "relink", "relinked", "reconciled", "materialise", "unlinked"} =>
       j.kind = "tick"
  /\ step \in {"end", "outward", "local"} => j.kind = "end"
  /\ step = "end" => IsOpen(j.occ)
  /\ step \in {"outward", "local", "advance", "history", "insert", "reread", "rowAgain"} =>
       (j.kind = "end" => \A o \in OccIds : ~IsOpen(o))

(* A second task would be made for an occurrence that is unlinked although it   *)
(* has one: that lasts only while the process links it.                         *)
OneTaskFor(o) ==
  /\ o > made => Untasked(o)
  /\ occ[o] # NONE =>
       \/ occ[o].link # NONE \/ Untasked(o)
       \/ \E p \in Procs : pc[p] \in {"mirror", "link"} /\ job[p].occ = o

LiveOnce == \A t, u \in TaskIds : Live(t) /\ Live(u) /\ task[t].marker = task[u].marker => t = u

OneTaskInv ==
  /\ LiveOnce
  /\ \A o \in OccIds : OneTaskFor(o)
  /\ \A p \in Procs : OneJob(pc[p], job[p])
-----------------------------------------------------------------------------
(* ------------------------------------------------------ jobs and tasks *)
LEMMA NoJobFits == NoJob \in Job /\ JobFits("idle", NoJob)
BY DEF NoJob, Job, JobFits

(* Tasks keep their markers: whatever happens to a task, it stays one for the   *)
(* same occurrence.                                                             *)
MarkersKept ==
  \A t \in TaskIds : task[t] # NONE => task'[t] # NONE /\ task'[t].marker = task[t].marker

(* One process takes a step, the others wait. *)
LEMMA DoKeeps ==
  ASSUME TypeInv, MarkersKept, NEW p \in Procs, NEW step \in Steps, NEW j \in Job,
         Do(p, step, j), JobFits(step, j), OwnTask(step, j)'
  PROVE  pc' \in [Procs -> Steps] /\ job' \in [Procs -> Job] /\ JobInv'
<1>1. pc \in [Procs -> Steps] /\ job \in [Procs -> Job] /\ JobInv
  BY DEF TypeInv, TypeOK
<1>2. pc' = [pc EXCEPT ![p] = step] /\ job' = [job EXCEPT ![p] = j]
  BY DEF Do
<1>3. pc' \in [Procs -> Steps] /\ job' \in [Procs -> Job]
  BY <1>1, <1>2
<1>4. ASSUME NEW q \in Procs
      PROVE  JobFits(pc'[q], job'[q]) /\ OwnTask(pc[q], job[q])'
  <2>1. CASE q = p
    <3>1. pc'[q] = step /\ job'[q] = j
      BY <1>1, <1>2, <2>1
    <3> QED BY <3>1 DEF OwnTask
  <2>2. CASE q # p
    <3>1. pc'[q] = pc[q] /\ job'[q] = job[q]
      BY <1>1, <1>2, <2>2
    <3>2. JobFits(pc[q], job[q]) /\ OwnTask(pc[q], job[q])
      BY <1>1 DEF JobInv
    <3>3. pc[q] \in {"relinked", "mirror", "link"} => job[q].link \in TaskIds
      BY <1>1, <3>2 DEF JobFits, Job
    <3> QED BY <3>1, <3>2, <3>3 DEF OwnTask, MarkersKept
  <2> QED BY <2>1, <2>2
<1> QED BY <1>3, <1>4 DEF JobInv

LEMMA GotoIsDo ==
  ASSUME TypeOK, NEW p \in Procs, NEW step, Goto(p, step)
  PROVE  Do(p, step, job[p])
<1>1. job \in [Procs -> Job]
  BY DEF TypeOK
<1>2. [job EXCEPT ![p] = job[p]] = job
  BY <1>1
<1> QED BY <1>2 DEF Goto, Do

(* The step after which a process is idle again. *)
LEMMA DoneKeeps ==
  ASSUME TypeInv, MarkersKept, NEW p \in Procs, Done(p)
  PROVE  pc' \in [Procs -> Steps] /\ job' \in [Procs -> Job] /\ JobInv'
<1>1. OwnTask("idle", NoJob)'
  BY DEF OwnTask
<1> QED BY <1>1, NoJobFits, DoKeeps DEF Done, Steps

(* Steps that leave the provider, its mirror and the calendar alone. *)
LEMMA OutsideStays ==
  ASSUME TypeInv, UNCHANGED outside
  PROVE  /\ today' \in Days /\ task' \in [TaskIds -> Task \cup {NONE}]
         /\ mirror' \in [TaskIds -> Task \cup {NONE}]
         /\ Backed' /\ MarkersKept
<1>1. today' = today /\ task' = task /\ mirror' = mirror
  BY DEF outside
<1>2. TypeOK /\ Backed
  BY DEF TypeInv
<1>3. Backed'
  BY <1>1, <1>2 DEF Backed
<1> QED BY <1>1, <1>2, <1>3 DEF TypeOK, MarkersKept

OccsOK ==
  /\ occ \in [OccIds -> Occ \cup {NONE}]
  /\ \A o \in OccIds : occ[o] # NONE => (occ[o].status = "completed" <=> occ[o].at # NONE)

LEMMA TablesStay ==
  ASSUME TypeInv, UNCHANGED tables
  PROVE  routine' \in Specs \cup {NONE} /\ made' \in 0..MaxOccs /\ OccsOK'
BY DEF TypeInv, TypeOK, tables, OccsOK

(* A step of one process that changes nothing but its job. *)
LEMMA JobOnly ==
  ASSUME TypeInv, UNCHANGED tables, UNCHANGED outside,
         NEW p \in Procs, NEW step \in Steps, NEW j \in Job,
         Do(p, step, j), JobFits(step, j), OwnTask(step, j)'
  PROVE  TypeInv'
<1>1. MarkersKept
  BY OutsideStays
<1>2. pc' \in [Procs -> Steps] /\ job' \in [Procs -> Job] /\ JobInv'
  BY <1>1, DoKeeps
<1> QED BY <1>2, OutsideStays, TablesStay DEF TypeInv, TypeOK, OccsOK

LEMMA DoneOnly ==
  ASSUME TypeInv, UNCHANGED tables, UNCHANGED outside, NEW p \in Procs, Done(p)
  PROVE  TypeInv'
<1>1. MarkersKept
  BY OutsideStays
<1>2. pc' \in [Procs -> Steps] /\ job' \in [Procs -> Job] /\ JobInv'
  BY <1>1, DoneKeeps
<1> QED BY <1>2, OutsideStays, TablesStay DEF TypeInv, TypeOK, OccsOK

(* What a process knows of its job at a step. *)
LEMMA JobKnown ==
  ASSUME TypeInv, NEW p \in Procs
  PROVE  /\ job[p] \in Job /\ pc[p] \in Steps
         /\ JobFits(pc[p], job[p]) /\ OwnTask(pc[p], job[p])
BY DEF TypeInv, TypeOK, JobInv

LEMMA AdvancedIs ==
  ASSUME TypeOK, NEW p \in Procs, NEW o \in OccIds \cup {NONE}, Advanced(p, o)
  PROVE  \E step \in {"idle", "unlinked", "find"}, j \in Job :
           /\ Do(p, step, j) /\ JobFits(step, j)
           /\ step = "unlinked" => job[p].kind = "tick" /\ j = job[p]
           /\ step = "find" => o # NONE /\ job[p].kind = "end" /\ j.occ = o
<1>1. job[p] \in Job
  BY DEF TypeOK
<1>2. CASE job[p].kind = "tick"
  <2>1. Do(p, "unlinked", job[p])
    BY <1>2, GotoIsDo DEF Advanced
  <2> QED BY <2>1, <1>1, <1>2 DEF JobFits
<1>3. CASE job[p].kind = "end" /\ o # NONE /\ HasTaskProvider
  <2> DEFINE j == [job[p] EXCEPT !.occ = o, !.link = NONE]
  <2>1. Do(p, "find", j)
    BY <1>3 DEF Advanced
  <2>2. j \in Job /\ j.occ = o
    BY <1>1 DEF Job
  <2> QED BY <2>1, <2>2, <1>3 DEF JobFits
<1>4. CASE job[p].kind # "tick" /\ ~(job[p].kind = "end" /\ o # NONE /\ HasTaskProvider)
  <2>1. Do(p, "idle", NoJob)
    BY <1>4 DEF Advanced, Done
  <2> QED BY <2>1, NoJobFits
<1> QED BY <1>2, <1>3, <1>4

(* advanceRoutine's answer to its caller, where it changed no table. *)
LEMMA AdvancedOnly ==
  ASSUME TypeInv, UNCHANGED tables, UNCHANGED outside,
         NEW p \in Procs, NEW o \in OccIds \cup {NONE}, Advanced(p, o)
  PROVE  TypeInv'
<1>1. PICK step \in {"idle", "unlinked", "find"}, j \in Job : Do(p, step, j) /\ JobFits(step, j)
  BY AdvancedIs DEF TypeInv
<1>2. step \in Steps /\ OwnTask(step, j)'
  BY DEF Steps, OwnTask
<1> QED BY <1>1, <1>2, JobOnly

(* ------------------------------------------------------------- history *)
LEMMA FewerRows ==
  ASSUME NEW S, S \subseteq OccIds, NEW T, T \subseteq S
  PROVE  /\ Cardinality(T) \in Nat /\ Cardinality(S) \in 0..MaxOccs
         /\ Cardinality(T) <= Cardinality(S)
         /\ T # S => Cardinality(T) < Cardinality(S)
<1>1. IsFiniteSet(OccIds) /\ Cardinality(OccIds) = MaxOccs
  <2>1. IsFiniteSet(1..MaxOccs) /\ Cardinality(1..MaxOccs) = IF 1 > MaxOccs THEN 0 ELSE MaxOccs - 1 + 1
    BY FS_Interval
  <2> QED BY <2>1 DEF OccIds
<1>2. IsFiniteSet(S) /\ Cardinality(S) <= Cardinality(OccIds)
  BY <1>1, FS_Subset
<1>3. IsFiniteSet(T) /\ Cardinality(T) <= Cardinality(S) /\ (Cardinality(S) = Cardinality(T) => S = T)
  BY <1>2, FS_Subset
<1>4. Cardinality(S) \in Nat /\ Cardinality(T) \in Nat
  BY <1>2, <1>3, FS_CardinalityType
<1> QED BY <1>1, <1>2, <1>3, <1>4

LEMMA LeastNumber ==
  ASSUME NEW T, T \subseteq Nat, T # {}
  PROVE  \E x \in T : \A y \in T : x <= y
<1>1. PICK x \in T : \A y \in T : <<y, x>> \notin OpToRel(<, Nat)
  BY NatLessThanWellFounded, WFMin
<1>2. \A y \in T : ~(y < x)
  BY <1>1 DEF OpToRel
<1> QED BY <1>2

(* Of several occurrences one is due last. *)
LEMMA LastOne ==
  ASSUME TypeOK, NEW S, S \subseteq Rows, S # {}
  PROVE  \E o \in S : \A q \in S : occ[q].dueOn <= occ[o].dueOn
<1> DEFINE later(o) == {q \in S : occ[o].dueOn < occ[q].dueOn}
           n(o) == Cardinality(later(o))
<1>1. S \subseteq OccIds /\ \A o \in S : occ[o].dueOn \in Int
  BY DEF Rows, TypeOK, Occ
<1>2. \A o \in S : n(o) \in Nat
  BY <1>1, FewerRows
<1>3. \A o, q \in S : occ[o].dueOn < occ[q].dueOn => n(q) < n(o)
  <2> SUFFICES ASSUME NEW o \in S, NEW q \in S, occ[o].dueOn < occ[q].dueOn
               PROVE  Cardinality(later(q)) < Cardinality(later(o))
    OBVIOUS
  <2>1. later(q) \subseteq later(o) /\ q \in later(o) /\ q \notin later(q) /\ later(o) \subseteq OccIds
    BY <1>1
  <2> HIDE DEF later
  <2> QED BY <2>1, FewerRows
<1>4. PICK o \in S : \A q \in S : n(o) <= n(q)
  <2> DEFINE T == {n(q) : q \in S}
  <2>1. T \subseteq Nat /\ T # {}
    BY <1>2
  <2> HIDE DEF n
  <2>2. PICK x \in T : \A y \in T : x <= y
    <3> HIDE DEF T
    <3> QED BY <2>1, LeastNumber
  <2> QED BY <2>2
<1> HIDE DEF n
<1> QED BY <1>1, <1>2, <1>3, <1>4

LEMMA LastTerminalIs ==
  ASSUME TypeOK
  PROVE  \/ Terminal = {}
         \/ /\ (CHOOSE o \in LastTerminal : TRUE) \in Terminal
            /\ \A q \in Terminal : occ[q].dueOn <= occ[CHOOSE o \in LastTerminal : TRUE].dueOn
<1> SUFFICES ASSUME Terminal # {}
             PROVE  (CHOOSE o \in LastTerminal : TRUE) \in LastTerminal
  BY DEF LastTerminal
<1>1. Terminal \subseteq Rows
  BY DEF Terminal
<1>2. \E o \in LastTerminal : TRUE
  BY <1>1, LastOne DEF LastTerminal
<1> QED BY <1>2

LEMMA DueType ==
  ASSUME TypeOK, RecurrenceAnswers, NEW s \in Specs, NEW day \in Int
  PROVE  DueAfterHistory(s, day) \in Int
<1>1. CASE Terminal = {}
  BY <1>1 DEF DueAfterHistory, RecurrenceAnswers
<1>2. CASE Terminal # {}
  <2> DEFINE o == CHOOSE o \in LastTerminal : TRUE
  <2>1. o \in Terminal
    BY <1>2, LastTerminalIs
  <2> HIDE DEF o
  <2>2. occ[o] \in Occ
    BY <2>1 DEF Terminal, Rows, TypeOK
  <2>3. TerminalDate(o, s) \in Int \cup {NONE}
    BY <2>2 DEF TerminalDate, Occ
  <2> QED BY <2>3, <1>2 DEF DueAfterHistory, RecurrenceAnswers, o
<1> QED BY <1>1, <1>2
-----------------------------------------------------------------------------
(* ------------------------------------- types: steps that change a job only *)
LEMMA TickStartTypes == ASSUME TypeInv, NEW p \in Procs, TickStart(p) PROVE TypeInv'
<1> USE DEF TypeInv, TypeOK
<1>0. today \in Int
  BY DEF Days
<1>1. CASE \E o \in Open : /\ occ[o].link # NONE
                           /\ Do(p, "reconcile", [NoJob EXCEPT !.kind = "tick", !.today = today,
                                                    !.occ = o, !.link = occ[o].link])
  <2>1. PICK o \in Open :
          /\ occ[o].link # NONE
          /\ Do(p, "reconcile", [NoJob EXCEPT !.kind = "tick", !.today = today,
                                   !.occ = o, !.link = occ[o].link])
    BY <1>1
  <2>2. o \in OccIds /\ o # NONE /\ occ[o].link \in TaskIds
    BY <2>1 DEF Open, Rows, Occ, OccIds
  <2>a. PICK j : j = [NoJob EXCEPT !.kind = "tick", !.today = today, !.occ = o, !.link = occ[o].link]
    OBVIOUS
  <2>3. j \in Job /\ JobFits("reconcile", j) /\ OwnTask("reconcile", j)'
    BY <1>0, <2>1, <2>2, <2>a, NoJobFits DEF NoJob, Job, JobFits, OwnTask
  <2>4. Do(p, "reconcile", j) /\ "reconcile" \in Steps /\ UNCHANGED tables /\ UNCHANGED outside
    BY <2>1, <2>a DEF TickStart, Steps
  <2> QED BY <2>3, <2>4, JobOnly
<1>2. CASE Do(p, "materialise", [NoJob EXCEPT !.kind = "tick", !.today = today])
  <2>a. PICK j : j = [NoJob EXCEPT !.kind = "tick", !.today = today]
    OBVIOUS
  <2>1. j \in Job /\ JobFits("materialise", j) /\ OwnTask("materialise", j)'
    BY <1>0, <2>a, NoJobFits DEF NoJob, Job, JobFits, OwnTask
  <2>2. Do(p, "materialise", j) /\ "materialise" \in Steps /\ UNCHANGED tables /\ UNCHANGED outside
    BY <1>2, <2>a DEF TickStart, Steps
  <2> QED BY <2>1, <2>2, JobOnly
<1> QED BY <1>1, <1>2 DEF TickStart

(* Going on to a step that asks nothing of the job. *)
LEMMA GoesOn ==
  ASSUME TypeInv, UNCHANGED tables, UNCHANGED outside, NEW p \in Procs,
         NEW step \in {"relink", "materialise", "advance", "unlinked", "reread", "rowAgain",
                       "create", "idle"},
         Goto(p, step), JobFits(step, job[p])
  PROVE  TypeInv'
<1>1. Do(p, step, job[p])
  BY GotoIsDo DEF TypeInv
<1>2. job[p] \in Job /\ step \in Steps
  BY JobKnown DEF Steps
<1>3. \A j : OwnTask(step, j)'
  BY DEF OwnTask
<1> QED BY <1>1, <1>2, <1>3, JobOnly

LEMMA ReconcileTypes == ASSUME TypeInv, NEW p \in Procs, Reconcile(p) PROVE TypeInv'
<1>0. PICK t : t = job[p].link
  OBVIOUS
<1>1. job[p] \in Job /\ JobFits("reconcile", job[p])
  BY JobKnown DEF Reconcile
<1>2. t \in TaskIds /\ job[p].occ # NONE
  BY <1>0, <1>1 DEF JobFits, Job
<1>3. UNCHANGED tables /\ UNCHANGED outside
  BY DEF Reconcile
<1>4. CASE mirror[t] = NONE
  <2>1. Goto(p, "relink") /\ JobFits("relink", job[p])
    BY <1>0, <1>1, <1>4 DEF Reconcile, JobFits
  <2> QED BY <1>3, <2>1, GoesOn
<1>5. CASE mirror[t] # NONE /\ mirror[t].state = "done"
  <2>a. PICK j : j = [job[p] EXCEPT !.link = t, !.at = mirror[t].at, !.status = "completed",
                                    !.member = NONE]
    OBVIOUS
  <2>1. Do(p, "reconciled", j)
    BY <1>0, <1>5, <2>a DEF Reconcile, Mirrored
  <2>2. j \in Job /\ j.link = t /\ j.occ = job[p].occ /\ j.at = mirror[t].at
    <3>1. mirror[t] \in Task
      BY <1>2, <1>5 DEF TypeInv, TypeOK
    <3> QED BY <1>1, <1>2, <2>a, <3>1 DEF Job, Task
  <2>3. mirror[t].at # NONE
    BY <1>2, <1>5 DEF TypeInv, Backed
  <2>4. JobFits("reconciled", j) /\ OwnTask("reconciled", j)'
    BY <1>2, <2>2, <2>3 DEF JobFits, OwnTask, TaskIds
  <2>5. "reconciled" \in Steps
    BY DEF Steps
  <2> QED BY <1>3, <2>1, <2>2, <2>4, <2>5, JobOnly
<1>6. CASE mirror[t] # NONE /\ mirror[t].state # "done"
  <2>1. Goto(p, "materialise") /\ JobFits("materialise", job[p])
    BY <1>0, <1>6 DEF Reconcile, JobFits
  <2> QED BY <1>3, <2>1, GoesOn
<1> QED BY <1>4, <1>5, <1>6

LEMMA RelinkTypes == ASSUME TypeInv, NEW p \in Procs, Relink(p) PROVE TypeInv'
<1>1. job[p] \in Job /\ job[p].occ # NONE
  BY JobKnown DEF Relink, JobFits
<1>2. UNCHANGED tables /\ UNCHANGED outside
  BY DEF Relink
<1>3. ASSUME NEW t \in Marked(job[p].occ), Mirrored(p, t, "relinked")
      PROVE  TypeInv'
  <2>a. PICK j : j = [job[p] EXCEPT !.link = t, !.at = mirror[t].at, !.status = "completed",
                                    !.member = NONE]
    OBVIOUS
  <2>1. t \in TaskIds /\ mirror[t] # NONE /\ mirror[t].marker = job[p].occ
    BY DEF Marked
  <2>2. Do(p, "relinked", j)
    BY <1>3, <2>a DEF Mirrored
  <2>3. j \in Job /\ j.link = t /\ j.occ = job[p].occ
    <3>1. mirror[t] \in Task
      BY <2>1 DEF TypeInv, TypeOK
    <3> QED BY <1>1, <2>1, <2>a, <3>1 DEF Job, Task
  <2>4. task[t] # NONE /\ task[t].marker = job[p].occ
    BY <2>1 DEF TypeInv, Backed
  <2>5. task' = task
    BY <1>2 DEF outside
  <2>6. JobFits("relinked", j) /\ OwnTask("relinked", j)'
    BY <1>1, <2>1, <2>3, <2>4, <2>5 DEF JobFits, OwnTask, TaskIds
  <2>7. "relinked" \in Steps
    BY DEF Steps
  <2> QED BY <1>2, <2>2, <2>3, <2>6, <2>7, JobOnly
<1>4. ASSUME Goto(p, "materialise") PROVE TypeInv'
  <2>1. JobFits("materialise", job[p])
    BY DEF JobFits
  <2> QED BY <1>2, <1>4, <2>1, GoesOn
<1> QED BY <1>3, <1>4 DEF Relink

LEMMA MaterialiseTypes == ASSUME TypeInv, NEW p \in Procs, Materialise(p) PROVE TypeInv'
<1>1. JobFits("advance", job[p]) /\ JobFits("unlinked", job[p])
  BY DEF JobFits
<1> QED BY <1>1, GoesOn DEF Materialise

LEMMA AdvanceTypes == ASSUME TypeInv, NEW p \in Procs, Advance(p) PROVE TypeInv'
<1>1. UNCHANGED tables /\ UNCHANGED outside /\ Open \subseteq OccIds
  BY DEF Advance, Open, Rows
<1>2. ASSUME NEW o \in OccIds \cup {NONE}, Advanced(p, o) PROVE TypeInv'
  BY <1>1, <1>2, AdvancedOnly
<1>3. ASSUME Active, Do(p, "history", [job[p] EXCEPT !.spec = routine]) PROVE TypeInv'
  <2>a. PICK j : j = [job[p] EXCEPT !.spec = routine]
    OBVIOUS
  <2>1. routine \in Specs /\ routine # NONE
    BY <1>3 DEF Active, TypeInv, TypeOK
  <2>2. j \in Job /\ JobFits("history", j) /\ OwnTask("history", j)'
    BY <2>1, <2>a, JobKnown DEF Job, JobFits, OwnTask
  <2>3. Do(p, "history", j) /\ "history" \in Steps
    BY <1>3, <2>a DEF Steps
  <2> QED BY <1>1, <2>2, <2>3, JobOnly
<1> QED BY <1>1, <1>2, <1>3 DEF Advance

LEMMA AdvanceHistoryTypes ==
  ASSUME TypeInv, RecurrenceAnswers, NEW p \in Procs, AdvanceHistory(p)
  PROVE  TypeInv'
<1>1. job[p] \in Job /\ job[p].spec \in Specs
  BY JobKnown DEF AdvanceHistory, JobFits, Job
<1>2. PICK due : due = DueAfterHistory(job[p].spec, job[p].today)
  OBVIOUS
<1>3. due \in Int
  <2>1. job[p].today \in Int
    BY <1>1 DEF Job
  <2> QED BY <1>1, <1>2, <2>1, DueType DEF TypeInv
<1>4. UNCHANGED tables /\ UNCHANGED outside
  BY DEF AdvanceHistory
<1>5. ASSUME Advanced(p, NONE) PROVE TypeInv'
  BY <1>4, <1>5, AdvancedOnly
<1>6. ASSUME Do(p, "insert", [job[p] EXCEPT !.due = due, !.attempt = 1]) PROVE TypeInv'
  <2>a. PICK j : j = [job[p] EXCEPT !.due = due, !.attempt = 1]
    OBVIOUS
  <2>1. j \in Job /\ JobFits("insert", j) /\ OwnTask("insert", j)'
    <3>1. j \in Job
      <4>1. PICK old \in Job : old = job[p]
        BY <1>1
      <4>2. 1 \in 0..3
        OBVIOUS
      <4> QED BY <1>3, <2>a, <4>1, <4>2 DEF Job
    <3> QED BY <3>1 DEF JobFits, OwnTask
  <2>2. Do(p, "insert", j) /\ "insert" \in Steps
    BY <1>6, <2>a DEF Steps
  <2> QED BY <1>4, <2>1, <2>2, JobOnly
<1> QED BY <1>2, <1>5, <1>6 DEF AdvanceHistory

LEMMA ReadOpenTypes == ASSUME TypeInv, NEW p \in Procs, ReadOpen(p) PROVE TypeInv'
<1>1. UNCHANGED tables /\ UNCHANGED outside /\ Open \subseteq OccIds
  BY DEF ReadOpen, Open, Rows
<1>2. ASSUME NEW o \in OccIds \cup {NONE}, Advanced(p, o) PROVE TypeInv'
  BY <1>1, <1>2, AdvancedOnly
<1>3. JobFits("rowAgain", job[p])
  BY DEF JobFits
<1>4. ASSUME Goto(p, "rowAgain") PROVE TypeInv'
  BY <1>1, <1>3, <1>4, GoesOn
<1> QED BY <1>1, <1>2, <1>4 DEF ReadOpen

LEMMA ReadSameDateTypes == ASSUME TypeInv, NEW p \in Procs, ReadSameDate(p) PROVE TypeInv'
<1>1. UNCHANGED tables /\ UNCHANGED outside
  BY DEF ReadSameDate
<1>2. ASSUME NEW o \in OccIds, Advanced(p, IF occ[o].status = "due" THEN o ELSE NONE)
      PROVE  TypeInv'
  <2>1. PICK r : r = IF occ[o].status = "due" THEN o ELSE NONE
    OBVIOUS
  <2>2. r \in OccIds \cup {NONE} /\ Advanced(p, r)
    BY <1>2, <2>1
  <2> QED BY <1>1, <2>2, AdvancedOnly
<1>3. ASSUME job[p].attempt < 3,
             Do(p, "insert", [job[p] EXCEPT !.attempt = job[p].attempt + 1])
      PROVE  TypeInv'
  <2>a. PICK j : j = [job[p] EXCEPT !.attempt = job[p].attempt + 1]
    OBVIOUS
  <2>1. j \in Job /\ JobFits("insert", j) /\ OwnTask("insert", j)'
    BY <1>3, <2>a, JobKnown DEF Job, JobFits, OwnTask
  <2>2. Do(p, "insert", j) /\ "insert" \in Steps
    BY <1>3, <2>a DEF Steps
  <2> QED BY <1>1, <2>1, <2>2, JobOnly
<1>4. ASSUME Done(p) PROVE TypeInv'
  BY <1>1, <1>4, DoneOnly
<1>5. \A o \in Rows : o \in OccIds
  BY DEF Rows
<1> QED BY <1>2, <1>3, <1>4, <1>5 DEF ReadSameDate

LEMMA UnlinkedTypes == ASSUME TypeInv, NEW p \in Procs, Unlinked(p) PROVE TypeInv'
<1>1. UNCHANGED tables /\ UNCHANGED outside
  BY DEF Unlinked
<1>2. ASSUME NEW o \in Open, Do(p, "find", [job[p] EXCEPT !.occ = o, !.link = NONE])
      PROVE  TypeInv'
  <2>a. PICK j : j = [job[p] EXCEPT !.occ = o, !.link = NONE]
    OBVIOUS
  <2>1. o \in OccIds /\ o # NONE
    BY DEF Open, Rows, OccIds
  <2>2. j \in Job /\ JobFits("find", j) /\ OwnTask("find", j)'
    <3>1. job[p] \in Job
      BY JobKnown
    <3>2. j \in Job /\ j.occ = o
      BY <2>1, <2>a, <3>1 DEF Job
    <3> QED BY <2>1, <3>2 DEF JobFits, OwnTask
  <2>3. Do(p, "find", j) /\ "find" \in Steps
    BY <1>2, <2>a DEF Steps
  <2> QED BY <1>1, <2>2, <2>3, JobOnly
<1>3. ASSUME Done(p) PROVE TypeInv'
  BY <1>1, <1>3, DoneOnly
<1> QED BY <1>2, <1>3 DEF Unlinked

LEMMA ProjectFindTypes == ASSUME TypeInv, NEW p \in Procs, ProjectFind(p) PROVE TypeInv'
<1>1. UNCHANGED tables /\ UNCHANGED outside
  BY DEF ProjectFind
<1>2. job[p] \in Job /\ job[p].occ # NONE
  BY JobKnown DEF ProjectFind, JobFits
<1>3. ASSUME NEW t \in Marked(job[p].occ), Do(p, "link", [job[p] EXCEPT !.link = t])
      PROVE  TypeInv'
  <2>a. PICK j : j = [job[p] EXCEPT !.link = t]
    OBVIOUS
  <2>1. t \in TaskIds /\ t # NONE /\ task[t] # NONE /\ task[t].marker = job[p].occ
    BY DEF Marked, TypeInv, Backed, TaskIds
  <2>2. task' = task
    BY <1>1 DEF outside
  <2>3. j \in Job /\ j.link = t /\ j.occ = job[p].occ
    BY <1>2, <2>1, <2>a DEF Job
  <2>4. JobFits("link", j) /\ OwnTask("link", j)'
    BY <1>2, <2>1, <2>2, <2>3 DEF JobFits, OwnTask
  <2>5. Do(p, "link", j) /\ "link" \in Steps
    BY <1>3, <2>a DEF Steps
  <2> QED BY <1>1, <2>3, <2>4, <2>5, JobOnly
<1>4. ASSUME Goto(p, "create") PROVE TypeInv'
  <2>1. JobFits("create", job[p])
    BY <1>2 DEF JobFits
  <2> QED BY <1>1, <1>4, <2>1, GoesOn
<1>5. ASSUME Done(p) PROVE TypeInv'
  BY <1>1, <1>5, DoneOnly
<1> QED BY <1>3, <1>4, <1>5 DEF ProjectFind

LEMMA EndReadTypes ==
  ASSUME TypeInv, NEW p \in Procs, NEW o \in OccIds, NEW status \in {"completed", "skipped"},
         NEW m \in Members, NEW ago \in Backdating, EndRead(p, o, status, m, ago)
  PROVE  TypeInv'
<1>a. PICK j : j = [NoJob EXCEPT !.kind = "end", !.occ = o, !.link = occ[o].link,
                                 !.status = status, !.at = today - ago, !.member = m]
  OBVIOUS
<1>1. o # NONE /\ occ[o].link \in TaskIds \cup {NONE}
  BY DEF EndRead, Open, Rows, OccIds, TypeInv, TypeOK, Occ
<1>2. today - ago \in Int /\ today - ago # NONE
  BY DEF TypeInv, TypeOK, Days
<1>3. j \in Job /\ JobFits("end", j) /\ OwnTask("end", j)'
  BY <1>1, <1>2, <1>a, NoJobFits DEF NoJob, Job, JobFits, OwnTask
<1>4. Do(p, "end", j) /\ "end" \in Steps /\ UNCHANGED tables /\ UNCHANGED outside
  BY <1>a DEF EndRead, Steps
<1> QED BY <1>3, <1>4, JobOnly

(* The request goes on to advance the routine: its job then says today. *)
LEMMA ThenAdvanceIs ==
  ASSUME TypeInv, NEW p \in Procs, ThenAdvance(p)
  PROVE  \E j \in Job : /\ Do(p, "advance", j) /\ JobFits("advance", j) /\ OwnTask("advance", j)'
                        /\ j.today = today /\ j.kind = job[p].kind
<1>a. PICK j : j = [job[p] EXCEPT !.today = today]
  OBVIOUS
<1>1. today \in Int
  BY DEF TypeInv, TypeOK, Days
<1>2. j \in Job /\ JobFits("advance", j) /\ OwnTask("advance", j)' /\ j.today = today
      /\ j.kind = job[p].kind
  BY <1>1, <1>a, JobKnown DEF Job, JobFits, OwnTask
<1> QED BY <1>2, <1>a DEF ThenAdvance

LEMMA OutwardFailsTypes == ASSUME TypeInv, NEW p \in Procs, OutwardFails(p) PROVE TypeInv'
<1>1. UNCHANGED tables /\ UNCHANGED outside
  BY DEF OutwardFails
<1>2. ASSUME ThenAdvance(p) PROVE TypeInv'
  <2>1. PICK j \in Job : Do(p, "advance", j) /\ JobFits("advance", j) /\ OwnTask("advance", j)'
    BY <1>2, ThenAdvanceIs
  <2>2. "advance" \in Steps
    BY DEF Steps
  <2> QED BY <1>1, <2>1, <2>2, JobOnly
<1>3. ASSUME Done(p) PROVE TypeInv'
  BY <1>1, <1>3, DoneOnly
<1> QED BY <1>2, <1>3 DEF OutwardFails

LEMMA UpdateOpenTypes == ASSUME TypeInv, NEW p \in Procs, UpdateOpen(p) PROVE TypeInv'
<1>1. UNCHANGED tables /\ UNCHANGED outside
  BY DEF UpdateOpen
<1>2. ASSUME NEW o \in Open,
             Do(p, "updHistory", [job[p] EXCEPT !.occ = o, !.due = occ[o].dueOn])
      PROVE  TypeInv'
  <2>a. PICK j : j = [job[p] EXCEPT !.occ = o, !.due = occ[o].dueOn]
    OBVIOUS
  <2>1. o \in OccIds /\ o # NONE /\ occ[o].dueOn \in Int
    BY DEF Open, Rows, OccIds, TypeInv, TypeOK, Occ
  <2>2. j \in Job /\ j.occ = o /\ j.spec = job[p].spec
    BY <2>1, <2>a, JobKnown DEF Job
  <2>3. job[p].spec # NONE
    BY JobKnown DEF UpdateOpen, JobFits
  <2>4. JobFits("updHistory", j) /\ OwnTask("updHistory", j)'
    BY <2>1, <2>2, <2>3 DEF JobFits, OwnTask
  <2>5. Do(p, "updHistory", j) /\ "updHistory" \in Steps
    BY <1>2, <2>a DEF Steps
  <2> QED BY <1>1, <2>2, <2>4, <2>5, JobOnly
<1>3. ASSUME Done(p) PROVE TypeInv'
  BY <1>1, <1>3, DoneOnly
<1> QED BY <1>2, <1>3 DEF UpdateOpen

LEMMA UpdateHistoryTypes ==
  ASSUME TypeInv, RecurrenceAnswers, NEW p \in Procs, UpdateHistory(p)
  PROVE  TypeInv'
<1>1. job[p] \in Job /\ job[p].spec \in Specs /\ job[p].occ # NONE
  BY JobKnown DEF UpdateHistory, JobFits, Job
<1>2. PICK due : due = DueAfterHistory(job[p].spec, job[p].today)
  OBVIOUS
<1>3. due \in Int
  <2>1. job[p].today \in Int
    BY <1>1 DEF Job
  <2> QED BY <1>1, <1>2, <2>1, DueType DEF TypeInv
<1>4. UNCHANGED tables /\ UNCHANGED outside
  BY DEF UpdateHistory
<1>5. ASSUME Done(p) PROVE TypeInv'
  BY <1>4, <1>5, DoneOnly
<1>6. ASSUME Do(p, "move", [job[p] EXCEPT !.due = due]) PROVE TypeInv'
  <2>a. PICK j : j = [job[p] EXCEPT !.due = due]
    OBVIOUS
  <2>1. j \in Job /\ j.occ = job[p].occ
    BY <1>1, <1>3, <2>a DEF Job
  <2>2. JobFits("move", j) /\ OwnTask("move", j)'
    BY <1>1, <2>1 DEF JobFits, OwnTask
  <2>3. Do(p, "move", j) /\ "move" \in Steps
    BY <1>6, <2>a DEF Steps
  <2> QED BY <1>4, <2>1, <2>2, <2>3, JobOnly
<1> QED BY <1>2, <1>5, <1>6 DEF UpdateHistory

LEMMA DeleteReadTypes == ASSUME TypeInv, NEW p \in Procs, DeleteRead(p) PROVE TypeInv'
<1>a. PICK j : j = [NoJob EXCEPT !.kind = "delete"]
  OBVIOUS
<1>1. j \in Job /\ JobFits("delete", j) /\ OwnTask("delete", j)'
  BY <1>a, NoJobFits DEF NoJob, Job, JobFits, OwnTask
<1>2. Do(p, "delete", j) /\ "delete" \in Steps /\ UNCHANGED tables /\ UNCHANGED outside
  BY <1>a DEF DeleteRead, Steps
<1> QED BY <1>1, <1>2, JobOnly
-----------------------------------------------------------------------------
(* ------------------------------------ types: steps that change the tables *)
LEMMA SetProjectionTypes ==
  ASSUME TypeOK, NEW o \in OccIds, NEW t \in TaskIds, SetProjection(o, t)
  PROVE  OccsOK'
<1>1. occ \in [OccIds -> Occ \cup {NONE}]
  BY DEF TypeOK
<1>2. ASSUME NEW q \in OccIds
      PROVE  /\ occ'[q] \in Occ \cup {NONE}
             /\ occ'[q] # NONE => (occ'[q].status = "completed" <=> occ'[q].at # NONE)
  <2>1. CASE occ'[q] = occ[q]
    BY <1>1, <2>1 DEF TypeOK
  <2>2. CASE q = o /\ occ[o] # NONE
    <3>1. occ[o] \in Occ /\ (occ[o].status = "completed" <=> occ[o].at # NONE)
      BY <2>2 DEF TypeOK
    <3>2. occ'[q] = [occ[o] EXCEPT !.link = t]
      BY <1>1, <2>2 DEF SetProjection
    <3>3. /\ occ'[q] \in Occ /\ occ'[q].status = occ[o].status /\ occ'[q].at = occ[o].at
      BY <3>1, <3>2 DEF Occ
    <3> QED BY <3>1, <3>3
  <2> QED BY <1>1, <2>1, <2>2 DEF SetProjection
<1>3. occ' \in [OccIds -> Occ \cup {NONE}]
  <2>1. DOMAIN occ' = OccIds /\ occ' = [q \in OccIds |-> occ'[q]]
    BY <1>1 DEF SetProjection
  <2> QED BY <1>2, <2>1
<1> QED BY <1>2, <1>3 DEF OccsOK

LEMMA RelinkedTypes == ASSUME TypeInv, NEW p \in Procs, Relinked(p) PROVE TypeInv'
<1>1. job[p] \in Job /\ job[p].occ \in OccIds /\ job[p].link \in TaskIds
  BY JobKnown DEF Relinked, JobFits, Job
<1>2. OccsOK'
  BY <1>1, SetProjectionTypes DEF Relinked, TypeInv
<1>3. UNCHANGED outside /\ routine' = routine /\ made' = made
  BY DEF Relinked
<1>4. PICK step : step = IF job[p].at = NONE THEN "materialise" ELSE "reconciled"
  OBVIOUS
<1>5. Do(p, step, job[p]) /\ step \in Steps
  BY <1>4, GotoIsDo DEF Relinked, TypeInv, Steps
<1>6. JobFits(step, job[p]) /\ \A j : OwnTask(step, j)'
  BY <1>1, <1>4 DEF JobFits, OwnTask, OccIds, TaskIds
<1>7. pc' \in [Procs -> Steps] /\ job' \in [Procs -> Job] /\ JobInv'
  BY <1>1, <1>3, <1>5, <1>6, DoKeeps, OutsideStays
<1> QED BY <1>2, <1>3, <1>7, OutsideStays DEF TypeInv, TypeOK, OccsOK

LEMMA LinkTypes == ASSUME TypeInv, NEW p \in Procs, Link(p) PROVE TypeInv'
<1>1. job[p].occ \in OccIds /\ job[p].link \in TaskIds
  BY JobKnown DEF Link, JobFits, Job
<1>2. OccsOK'
  BY <1>1, SetProjectionTypes DEF Link, TypeInv
<1>3. UNCHANGED outside /\ routine' = routine /\ made' = made /\ Done(p)
  BY DEF Link
<1>4. pc' \in [Procs -> Steps] /\ job' \in [Procs -> Job] /\ JobInv'
  BY <1>3, DoneKeeps, OutsideStays
<1> QED BY <1>2, <1>3, <1>4, OutsideStays DEF TypeInv, TypeOK, OccsOK

(* An occurrence as it is ended: with a time exactly if it was completed. *)
LEMMA TerminateTypes ==
  ASSUME TypeOK, NEW p \in Procs, job[p].occ \in OccIds,
         job[p].status = "completed" => job[p].at # NONE, Terminate(p)
  PROVE  OccsOK'
<1> DEFINE o == job[p].occ
<1>1. occ \in [OccIds -> Occ \cup {NONE}] /\ job[p] \in Job
  BY DEF TypeOK
<1>2. ASSUME NEW q \in OccIds
      PROVE  /\ occ'[q] \in Occ \cup {NONE}
             /\ occ'[q] # NONE => (occ'[q].status = "completed" <=> occ'[q].at # NONE)
  <2>1. CASE occ'[q] = occ[q]
    BY <1>1, <2>1 DEF TypeOK
  <2>2. CASE q = o /\ occ[o] # NONE
    <3>1. occ[o] \in Occ
      BY <1>1, <2>2
    <3>2. PICK st, at, m : /\ st = job[p].status /\ m = job[p].member
                           /\ at = IF job[p].status = "completed" THEN job[p].at ELSE NONE
      OBVIOUS
    <3>3. st \in {"completed", "skipped"} /\ at \in Int \cup {NONE} /\ m \in Members \cup {NONE}
      BY <1>1, <3>2 DEF Job
    <3>4. occ'[q] = [occ[o] EXCEPT !.status = st, !.at = at, !.member = m]
      BY <1>1, <2>2, <3>2 DEF Terminate
    <3>5. occ'[q] \in Occ /\ occ'[q].status = st /\ occ'[q].at = at
      BY <3>1, <3>3, <3>4 DEF Occ
    <3> QED BY <3>2, <3>5
  <2> QED BY <1>1, <2>1, <2>2 DEF Terminate
<1>3. occ' \in [OccIds -> Occ \cup {NONE}]
  <2>1. DOMAIN occ' = OccIds /\ occ' = [q \in OccIds |-> occ'[q]]
    BY <1>1 DEF Terminate
  <2> QED BY <1>2, <2>1
<1> QED BY <1>2, <1>3 DEF OccsOK

LEMMA ReconciledTypes == ASSUME TypeInv, NEW p \in Procs, Reconciled(p) PROVE TypeInv'
<1>1. job[p] \in Job /\ job[p].occ \in OccIds /\ (job[p].status = "completed" => job[p].at # NONE)
  BY JobKnown DEF Reconciled, JobFits, Job
<1>2. OccsOK'
  BY <1>1, TerminateTypes DEF Reconciled, TypeInv
<1>3. UNCHANGED outside /\ routine' = routine /\ made' = made
  BY DEF Reconciled
<1>4. Do(p, "materialise", job[p]) /\ "materialise" \in Steps
  BY GotoIsDo DEF Reconciled, TypeInv, Steps
<1>5. JobFits("materialise", job[p]) /\ \A j : OwnTask("materialise", j)'
  BY DEF JobFits, OwnTask
<1>6. pc' \in [Procs -> Steps] /\ job' \in [Procs -> Job] /\ JobInv'
  BY <1>1, <1>3, <1>4, <1>5, DoKeeps, OutsideStays
<1> QED BY <1>2, <1>3, <1>6, OutsideStays DEF TypeInv, TypeOK, OccsOK

LEMMA EndTypes == ASSUME TypeInv, NEW p \in Procs, End(p) PROVE TypeInv'
<1>1. job[p] \in Job /\ job[p].occ \in OccIds /\ (job[p].status = "completed" => job[p].at # NONE)
  BY JobKnown DEF End, JobFits, Job
<1>2. OccsOK'
  BY <1>1, TerminateTypes DEF End, TypeInv
<1>3. UNCHANGED outside /\ routine' = routine /\ made' = made
  BY DEF End
<1>4. PICK step \in Steps, j \in Job : Do(p, step, j) /\ JobFits(step, j) /\ OwnTask(step, j)'
  <2>1. CASE job[p].status = "completed" /\ job[p].link # NONE /\ HasTaskProvider
    <3>1. Do(p, "outward", job[p]) /\ "outward" \in Steps
      BY <2>1, GotoIsDo DEF End, TypeInv, Steps
    <3>2. JobFits("outward", job[p]) /\ \A j : OwnTask("outward", j)'
      BY <1>1, <2>1 DEF JobFits, OwnTask, OccIds
    <3> QED BY <1>1, <3>1, <3>2
  <2>2. CASE ThenAdvance(p)
    <3>1. "advance" \in Steps
      BY DEF Steps
    <3> QED BY <2>2, <3>1, ThenAdvanceIs
  <2> QED BY <2>1, <2>2 DEF End
<1>5. pc' \in [Procs -> Steps] /\ job' \in [Procs -> Job] /\ JobInv'
  BY <1>3, <1>4, DoKeeps, OutsideStays
<1> QED BY <1>2, <1>3, <1>5, OutsideStays DEF TypeInv, TypeOK, OccsOK

LEMMA NewOccType ==
  ASSUME NEW due \in Int
  PROVE  /\ NewOcc(due) \in Occ /\ NewOcc(due).status = "due" /\ NewOcc(due).dueOn = due
         /\ NewOcc(due).at = NONE /\ NewOcc(due).link = NONE
BY DEF NewOcc, Occ

LEMMA InsertTypes == ASSUME TypeInv, NEW p \in Procs, Insert(p) PROVE TypeInv'
<1>1. UNCHANGED outside /\ routine' = routine
  BY DEF Insert
<1>2. occ \in [OccIds -> Occ \cup {NONE}] /\ made \in 0..MaxOccs
  BY DEF TypeInv, TypeOK
<1>3. ASSUME UNCHANGED <<occ, made>>, Goto(p, "reread") PROVE TypeInv'
  <2>1. JobFits("reread", job[p])
    BY DEF JobFits
  <2> QED BY <1>1, <1>3, <2>1, GoesOn DEF tables
<1>4. ASSUME UNCHANGED <<occ, made>>, Done(p) PROVE TypeInv'
  BY <1>1, <1>4, DoneOnly DEF tables
<1>5. ASSUME made < MaxOccs, occ' = [occ EXCEPT ![made + 1] = NewOcc(job[p].due)],
             made' = made + 1, Advanced(p, made + 1)
      PROVE  TypeInv'
  <2>1. job[p].due \in Int
    BY JobKnown DEF Job
  <2>2. made + 1 \in OccIds /\ made' \in 0..MaxOccs
    BY <1>2, <1>5 DEF OccIds
  <2>3. OccsOK'
    <3>1. occ' \in [OccIds -> Occ \cup {NONE}]
      BY <1>2, <1>5, <2>1, NewOccType
    <3>2. ASSUME NEW q \in OccIds, occ'[q] # NONE
          PROVE  occ'[q].status = "completed" <=> occ'[q].at # NONE
      <4>1. CASE q = made + 1
        BY <1>2, <1>5, <2>1, <2>2, <4>1, NewOccType
      <4>2. CASE q # made + 1
        <5>1. occ'[q] = occ[q]
          BY <1>2, <1>5, <4>2
        <5> QED BY <3>2, <5>1 DEF TypeInv, TypeOK
      <4> QED BY <4>1, <4>2
    <3> QED BY <3>1, <3>2 DEF OccsOK
  <2>4. PICK step \in {"idle", "unlinked", "find"}, j \in Job : Do(p, step, j) /\ JobFits(step, j)
    BY <1>5, <2>2, AdvancedIs DEF TypeInv
  <2>5. step \in Steps /\ OwnTask(step, j)'
    BY DEF Steps, OwnTask
  <2>6. pc' \in [Procs -> Steps] /\ job' \in [Procs -> Job] /\ JobInv'
    BY <1>1, <2>4, <2>5, DoKeeps, OutsideStays
  <2> QED BY <1>1, <2>2, <2>3, <2>6, OutsideStays DEF TypeInv, TypeOK, OccsOK
<1> QED BY <1>3, <1>4, <1>5 DEF Insert

LEMMA MoveTypes == ASSUME TypeInv, NEW p \in Procs, Move(p) PROVE TypeInv'
<1>1. job[p].occ \in OccIds /\ job[p].due \in Int
  BY JobKnown DEF Move, JobFits, Job
<1>2. occ \in [OccIds -> Occ \cup {NONE}]
  BY DEF TypeInv, TypeOK
<1>3. PICK o, due : o = job[p].occ /\ due = job[p].due
  OBVIOUS
<1>4. occ' = occ \/ (occ[o] # NONE /\ occ' = [occ EXCEPT ![o] = [occ[o] EXCEPT !.dueOn = due]])
  BY <1>3 DEF Move
<1>5. OccsOK'
  <2>1. CASE occ' = occ
    BY <2>1 DEF OccsOK, TypeInv, TypeOK
  <2>2. CASE occ[o] # NONE /\ occ' = [occ EXCEPT ![o] = [occ[o] EXCEPT !.dueOn = due]]
    <3>1. occ[o] \in Occ /\ (occ[o].status = "completed" <=> occ[o].at # NONE)
      BY <1>1, <1>3, <2>2 DEF TypeInv, TypeOK
    <3>2. PICK row : row = [occ[o] EXCEPT !.dueOn = due]
      OBVIOUS
    <3>3. row \in Occ /\ row.status = occ[o].status /\ row.at = occ[o].at
      BY <1>1, <1>3, <3>1, <3>2 DEF Occ
    <3>4. occ' = [occ EXCEPT ![o] = row]
      BY <2>2, <3>2
    <3>5. occ' \in [OccIds -> Occ \cup {NONE}]
      BY <1>1, <1>2, <1>3, <3>3, <3>4
    <3>6. \A q \in OccIds : occ'[q] = IF q = o THEN row ELSE occ[q]
      BY <1>2, <3>4
    <3>7. \A q \in OccIds : occ'[q] # NONE => (occ'[q].status = "completed" <=> occ'[q].at # NONE)
      BY <3>1, <3>3, <3>6 DEF TypeInv, TypeOK
    <3> QED BY <3>5, <3>7 DEF OccsOK
  <2> QED BY <1>4, <2>1, <2>2
<1>6. UNCHANGED outside /\ routine' = routine /\ made' = made /\ Done(p)
  BY DEF Move
<1>7. pc' \in [Procs -> Steps] /\ job' \in [Procs -> Job] /\ JobInv'
  BY <1>6, DoneKeeps, OutsideStays
<1> QED BY <1>5, <1>6, <1>7, OutsideStays DEF TypeInv, TypeOK, OccsOK

LEMMA DeleteTypes == ASSUME TypeInv, NEW p \in Procs, Delete(p) PROVE TypeInv'
<1>1. UNCHANGED outside /\ routine' = NONE /\ made' = made /\ Done(p)
      /\ occ' = [o \in OccIds |-> NONE]
  BY DEF Delete
<1>2. pc' \in [Procs -> Steps] /\ job' \in [Procs -> Job] /\ JobInv'
  BY <1>1, DoneKeeps, OutsideStays
<1> QED BY <1>1, <1>2, OutsideStays DEF TypeInv, TypeOK

LEMMA CreateRoutineTypes ==
  ASSUME TypeInv, NEW p \in Procs, NEW s \in Specs, CreateRoutine(p, s)
  PROVE  TypeInv'
<1>1. UNCHANGED outside /\ routine' = s /\ occ' = occ /\ made' = made
  BY DEF CreateRoutine
<1>a. PICK j : j = [NoJob EXCEPT !.kind = "create", !.today = today]
  OBVIOUS
<1>2. today \in Int
  BY DEF TypeInv, TypeOK, Days
<1>3. j \in Job /\ JobFits("advance", j) /\ OwnTask("advance", j)'
  BY <1>2, <1>a, NoJobFits DEF NoJob, Job, JobFits, OwnTask
<1>4. Do(p, "advance", j) /\ "advance" \in Steps
  BY <1>a DEF CreateRoutine, Steps
<1>5. pc' \in [Procs -> Steps] /\ job' \in [Procs -> Job] /\ JobInv'
  BY <1>1, <1>3, <1>4, DoKeeps, OutsideStays
<1> QED BY <1>1, <1>5, OutsideStays DEF TypeInv, TypeOK

LEMMA UpdateRoutineTypes ==
  ASSUME TypeInv, NEW p \in Procs, NEW s \in Specs, UpdateRoutine(p, s)
  PROVE  TypeInv'
<1>1. UNCHANGED outside /\ routine' = s /\ occ' = occ /\ made' = made
  BY DEF UpdateRoutine
<1>a. PICK j : j = [NoJob EXCEPT !.kind = "update", !.today = today, !.spec = s]
  OBVIOUS
<1>2. today \in Int /\ s # NONE
  BY DEF TypeInv, TypeOK, Days
<1>3. j \in Job /\ JobFits("updOpen", j) /\ OwnTask("updOpen", j)'
  BY <1>2, <1>a, NoJobFits DEF NoJob, Job, JobFits, OwnTask
<1>4. Do(p, "updOpen", j) /\ "updOpen" \in Steps
  BY <1>a DEF UpdateRoutine, Steps
<1>5. pc' \in [Procs -> Steps] /\ job' \in [Procs -> Job] /\ JobInv'
  BY <1>1, <1>3, <1>4, DoKeeps, OutsideStays
<1> QED BY <1>1, <1>5, OutsideStays DEF TypeInv, TypeOK
-----------------------------------------------------------------------------
(* ----------------------------- types: steps of the provider and its mirror *)
TasksOK ==
  /\ today \in Days /\ task \in [TaskIds -> Task \cup {NONE}]
  /\ mirror \in [TaskIds -> Task \cup {NONE}] /\ Backed

LEMMA TaskStep ==
  ASSUME TypeInv, UNCHANGED tables, TasksOK', MarkersKept,
         NEW p \in Procs, NEW step \in Steps, NEW j \in Job,
         Do(p, step, j), JobFits(step, j), OwnTask(step, j)'
  PROVE  TypeInv'
<1>1. pc' \in [Procs -> Steps] /\ job' \in [Procs -> Job] /\ JobInv'
  BY DoKeeps
<1> QED BY <1>1, TablesStay DEF TypeInv, TypeOK, OccsOK, TasksOK

(* Nothing of any job changes when the household's list or its mirror does. *)
LEMMA ListStep ==
  ASSUME TypeInv, UNCHANGED tables, UNCHANGED <<pc, job>>, TasksOK', MarkersKept
  PROVE  TypeInv'
<1>1. JobInv'
  <2> SUFFICES ASSUME NEW q \in Procs PROVE JobFits(pc[q], job[q]) /\ OwnTask(pc[q], job[q])'
    BY DEF JobInv
  <2>1. job[q] \in Job /\ JobFits(pc[q], job[q]) /\ OwnTask(pc[q], job[q])
    BY JobKnown
  <2>2. pc[q] \in {"relinked", "mirror", "link"} => job[q].link \in TaskIds
    BY <2>1 DEF JobFits, Job
  <2> QED BY <2>1, <2>2 DEF OwnTask, MarkersKept
<1> QED BY <1>1, TablesStay DEF TypeInv, TypeOK, OccsOK, TasksOK

LEMMA NewTaskTypes ==
  ASSUME TypeInv, NEW p \in Procs, NEW t \in TaskIds, NewTask(p, t)
  PROVE  /\ TasksOK' /\ MarkersKept /\ UNCHANGED tables
         /\ task'[t] # NONE /\ task'[t].marker = job[p].occ
<1>1. job[p] \in Job /\ job[p].occ \in OccIds
  BY JobKnown DEF NewTask, JobFits, Job
<1>2. /\ task[t] = NONE
      /\ task' = [task EXCEPT ![t] = [marker |-> job[p].occ, state |-> "open", at |-> NONE]]
  BY DEF NewTask
<1>3. task \in [TaskIds -> Task \cup {NONE}] /\ mirror \in [TaskIds -> Task \cup {NONE}]
      /\ today \in Days /\ Backed
  BY DEF TypeInv, TypeOK
<1>4. PICK new : new = [marker |-> job[p].occ, state |-> "open", at |-> NONE]
  OBVIOUS
<1>5. new \in Task /\ new # NONE /\ new.marker = job[p].occ /\ new.state = "open"
  BY <1>1, <1>4 DEF Task
<1>6. task' = [task EXCEPT ![t] = new] /\ mirror' = mirror /\ today' = today /\ UNCHANGED tables
  BY <1>2, <1>4 DEF NewTask
<1>7. task' \in [TaskIds -> Task \cup {NONE}] /\ \A u \in TaskIds : task'[u] = IF u = t THEN new ELSE task[u]
  BY <1>3, <1>5, <1>6
<1>8. MarkersKept
  BY <1>2, <1>7 DEF MarkersKept
<1>9. TasksOK'
  BY <1>2, <1>3, <1>5, <1>6, <1>7 DEF TasksOK, Backed
<1> QED BY <1>5, <1>6, <1>7, <1>8, <1>9

LEMMA CreateTaskTypes == ASSUME TypeInv, NEW p \in Procs, CreateTask(p) PROVE TypeInv' /\ MarkersKept
<1>1. PICK t \in TaskIds : NewTask(p, t) /\ Do(p, "mirror", [job[p] EXCEPT !.link = t])
  BY DEF CreateTask
<1>2. job[p] \in Job /\ job[p].occ \in OccIds
  BY <1>1, JobKnown DEF NewTask, JobFits, Job
<1>3. /\ TasksOK' /\ MarkersKept /\ UNCHANGED tables
      /\ task'[t] # NONE /\ task'[t].marker = job[p].occ
  BY <1>1, NewTaskTypes
<1>4. PICK j : j = [job[p] EXCEPT !.link = t]
  OBVIOUS
<1>5. j \in Job /\ j.link = t /\ j.occ = job[p].occ
  BY <1>2, <1>4 DEF Job
<1>6. JobFits("mirror", j) /\ OwnTask("mirror", j)'
  BY <1>2, <1>3, <1>5 DEF JobFits, OwnTask, OccIds, TaskIds
<1>7. Do(p, "mirror", j) /\ "mirror" \in Steps
  BY <1>1, <1>4 DEF Steps
<1> QED BY <1>3, <1>5, <1>6, <1>7, TaskStep

LEMMA CreateTaskLostTypes ==
  ASSUME TypeInv, NEW p \in Procs, CreateTaskLost(p)
  PROVE  TypeInv' /\ MarkersKept
<1>1. PICK t \in TaskIds : NewTask(p, t)
  BY DEF CreateTaskLost
<1>2. TasksOK' /\ MarkersKept /\ UNCHANGED tables
  BY <1>1, NewTaskTypes
<1>3. Do(p, "idle", NoJob) /\ "idle" \in Steps
  BY DEF CreateTaskLost, Done, Steps
<1>4. NoJob \in Job /\ JobFits("idle", NoJob) /\ OwnTask("idle", NoJob)'
  BY NoJobFits DEF OwnTask
<1> QED BY <1>2, <1>3, <1>4, TaskStep

LEMMA CreateTaskFailsTypes == ASSUME TypeInv, NEW p \in Procs, CreateTaskFails(p) PROVE TypeInv'
BY DoneOnly DEF CreateTaskFails

LEMMA MirrorCreatedTypes == ASSUME TypeInv, NEW p \in Procs, MirrorCreated(p) PROVE TypeInv'
<1>1. /\ job[p] \in Job /\ job[p].occ \in OccIds /\ job[p].link \in TaskIds
      /\ JobFits("link", job[p])
      /\ task[job[p].link] # NONE /\ task[job[p].link].marker = job[p].occ
  BY JobKnown DEF MirrorCreated, JobFits, OwnTask, Job
<1>2. PICK t, new : t = job[p].link /\ new = [marker |-> job[p].occ, state |-> "open", at |-> NONE]
  OBVIOUS
<1>3. new \in Task /\ new.marker = job[p].occ /\ new.state = "open"
  BY <1>1, <1>2 DEF Task
<1>4. task \in [TaskIds -> Task \cup {NONE}] /\ mirror \in [TaskIds -> Task \cup {NONE}]
      /\ today \in Days /\ Backed
  BY DEF TypeInv, TypeOK
<1>5. mirror' = [mirror EXCEPT ![t] = new] /\ task' = task /\ today' = today /\ UNCHANGED tables
  BY <1>2 DEF MirrorCreated
<1>6. mirror' \in [TaskIds -> Task \cup {NONE}]
      /\ \A u \in TaskIds : mirror'[u] = IF u = t THEN new ELSE mirror[u]
  BY <1>1, <1>2, <1>3, <1>4, <1>5
<1>7. MarkersKept
  BY <1>5 DEF MarkersKept
<1>8. TasksOK'
  BY <1>1, <1>2, <1>3, <1>4, <1>5, <1>6 DEF TasksOK, Backed
<1>9. Do(p, "link", job[p]) /\ "link" \in Steps
  BY GotoIsDo DEF MirrorCreated, TypeInv, Steps
<1>10. PICK j : j = job[p]
  OBVIOUS
<1>11. OwnTask("link", j)'
  BY <1>1, <1>5, <1>10 DEF OwnTask
<1> QED BY <1>1, <1>5, <1>7, <1>8, <1>9, <1>10, <1>11, TaskStep

(* A task, or what the mirror holds of it, is set done; the marker stays. *)
LEMMA SetDoneType ==
  ASSUME NEW row \in Task, NEW day \in Days
  PROVE  LET set == [row EXCEPT !.state = "done", !.at = day]
         IN  /\ set \in Task /\ set.marker = row.marker /\ set.state = "done"
             /\ set.at # NONE /\ set # NONE
<1>1. day \in Int /\ day # NONE
  BY DEF Days
<1>2. PICK set : set = [row EXCEPT !.state = "done", !.at = day]
  OBVIOUS
<1>3. set \in Task /\ set.marker = row.marker /\ set.state = "done" /\ set.at = day
  BY <1>1, <1>2 DEF Task
<1> QED BY <1>1, <1>2, <1>3

LEMMA TaskSetDone ==
  ASSUME TypeInv, NEW t \in TaskIds, task[t] # NONE,
         task' = [task EXCEPT ![t] = [task[t] EXCEPT !.state = "done", !.at = today]],
         UNCHANGED <<today, mirror>>
  PROVE  TasksOK' /\ MarkersKept
<1>1. task \in [TaskIds -> Task \cup {NONE}] /\ mirror \in [TaskIds -> Task \cup {NONE}]
      /\ today \in Days /\ Backed
  BY DEF TypeInv, TypeOK
<1>2. PICK new : new = [task[t] EXCEPT !.state = "done", !.at = today]
  OBVIOUS
<1>3. new \in Task /\ new.marker = task[t].marker /\ new.at # NONE /\ new # NONE
  BY <1>1, <1>2, SetDoneType
<1>4. task' \in [TaskIds -> Task \cup {NONE}] /\ \A u \in TaskIds : task'[u] = IF u = t THEN new ELSE task[u]
  BY <1>1, <1>2, <1>3
<1>5. MarkersKept
  BY <1>3, <1>4 DEF MarkersKept
<1>6. Backed'
  BY <1>1, <1>3, <1>4 DEF Backed
<1> QED BY <1>1, <1>4, <1>5, <1>6 DEF TasksOK

LEMMA OutwardTypes == ASSUME TypeInv, NEW p \in Procs, Outward(p) PROVE TypeInv' /\ MarkersKept
<1>1. job[p] \in Job /\ JobFits("outward", job[p]) /\ job[p].link \in TaskIds
  BY JobKnown DEF Outward, JobFits, Job
<1>2. PICK t : t = job[p].link
  OBVIOUS
<1>3. t \in TaskIds /\ task[t] # NONE
  BY <1>1, <1>2 DEF Outward, TypeInv, Backed
<1>4. TasksOK' /\ MarkersKept
  <2>1. task' = [task EXCEPT ![t] = [task[t] EXCEPT !.state = "done", !.at = today]]
        /\ UNCHANGED <<today, mirror>>
    BY <1>2 DEF Outward
  <2> QED BY <1>3, <2>1, TaskSetDone
<1>5. Do(p, "local", job[p]) /\ "local" \in Steps /\ UNCHANGED tables
  BY GotoIsDo DEF Outward, TypeInv, Steps
<1>6. JobFits("local", job[p]) /\ \A j : OwnTask("local", j)'
  BY <1>1 DEF JobFits, OwnTask
<1> QED BY <1>1, <1>4, <1>5, <1>6, TaskStep

LEMMA LocalTypes == ASSUME TypeInv, NEW p \in Procs, Local(p) PROVE TypeInv'
<1>1. PICK t : t = job[p].link
  OBVIOUS
<1>2. t \in TaskIds
  BY <1>1, JobKnown DEF Local, JobFits, Job
<1>3. task \in [TaskIds -> Task \cup {NONE}] /\ mirror \in [TaskIds -> Task \cup {NONE}]
      /\ today \in Days /\ Backed
  BY DEF TypeInv, TypeOK
<1>4. task' = task /\ today' = today /\ UNCHANGED tables
  BY DEF Local
<1>5. MarkersKept
  BY <1>4 DEF MarkersKept
<1>6. TasksOK'
  <2>1. CASE mirror[t] = NONE
    BY <1>1, <1>3, <1>4, <2>1 DEF Local, TasksOK, Backed
  <2>2. CASE mirror[t] # NONE
    <3>1. PICK new : new = [mirror[t] EXCEPT !.state = "done", !.at = today]
      OBVIOUS
    <3>2. new \in Task /\ new.marker = mirror[t].marker /\ new.at # NONE
      BY <1>2, <1>3, <2>2, <3>1, SetDoneType
    <3>3. mirror' = [mirror EXCEPT ![t] = new]
      BY <1>1, <2>2, <3>1 DEF Local
    <3>4. mirror' \in [TaskIds -> Task \cup {NONE}]
          /\ \A u \in TaskIds : mirror'[u] = IF u = t THEN new ELSE mirror[u]
      BY <1>3, <3>2, <3>3
    <3> QED BY <1>3, <1>4, <2>2, <3>2, <3>4 DEF TasksOK, Backed
  <2> QED BY <2>1, <2>2
<1>7. PICK j \in Job : Do(p, "advance", j) /\ JobFits("advance", j) /\ OwnTask("advance", j)'
  BY ThenAdvanceIs DEF Local
<1>8. "advance" \in Steps
  BY DEF Steps
<1> QED BY <1>4, <1>5, <1>6, <1>7, <1>8, TaskStep

LEMMA MemberTicksTypes == ASSUME TypeInv, NEW t \in TaskIds, MemberTicks(t) PROVE TypeInv' /\ MarkersKept
<1>1. TasksOK' /\ MarkersKept
  BY TaskSetDone DEF MemberTicks
<1> QED BY <1>1, ListStep DEF MemberTicks

LEMMA SyncTaskTypes == ASSUME TypeInv, NEW t \in TaskIds, SyncTask(t) PROVE TypeInv'
<1>1. task \in [TaskIds -> Task \cup {NONE}] /\ mirror \in [TaskIds -> Task \cup {NONE}]
      /\ today \in Days /\ Backed
  BY DEF TypeInv, TypeOK
<1>2. task' = task /\ today' = today /\ UNCHANGED tables /\ UNCHANGED <<pc, job>> /\ task[t] # NONE
  BY DEF SyncTask
<1>3. PICK row : row = IF task[t].state = "gone" THEN NONE ELSE task[t]
  OBVIOUS
<1>4. mirror' \in [TaskIds -> Task \cup {NONE}]
      /\ \A u \in TaskIds : mirror'[u] = IF u = t THEN row ELSE mirror[u]
  BY <1>1, <1>3 DEF SyncTask
<1>5. TasksOK'
  BY <1>1, <1>2, <1>3, <1>4 DEF TasksOK, Backed
<1>6. MarkersKept
  BY <1>2 DEF MarkersKept
<1> QED BY <1>2, <1>5, <1>6, ListStep

LEMMA DropMirrorTypes == ASSUME TypeInv, NEW t \in TaskIds, DropMirror(t) PROVE TypeInv'
<1>1. task \in [TaskIds -> Task \cup {NONE}] /\ mirror \in [TaskIds -> Task \cup {NONE}]
      /\ today \in Days /\ Backed
  BY DEF TypeInv, TypeOK
<1>2. task' = task /\ today' = today /\ UNCHANGED tables /\ UNCHANGED <<pc, job>>
      /\ mirror' = [mirror EXCEPT ![t] = NONE]
  BY DEF DropMirror
<1>3. TasksOK' /\ MarkersKept
  BY <1>1, <1>2 DEF TasksOK, Backed, MarkersKept
<1> QED BY <1>2, <1>3, ListStep

LEMMA TaskMovesTypes ==
  ASSUME TypeInv, NEW t \in TaskIds, NEW u \in TaskIds, TaskMoves(t, u)
  PROVE  TypeInv' /\ MarkersKept
<1>1. task \in [TaskIds -> Task \cup {NONE}] /\ mirror \in [TaskIds -> Task \cup {NONE}]
      /\ today \in Days /\ Backed
  BY DEF TypeInv, TypeOK
<1>2. task[t] # NONE /\ task[u] = NONE /\ mirror' = mirror /\ today' = today
      /\ UNCHANGED tables /\ UNCHANGED <<pc, job>>
  BY DEF TaskMoves
<1>3. PICK old : old = [task[t] EXCEPT !.state = "gone"]
  OBVIOUS
<1>4. old \in Task /\ old.marker = task[t].marker /\ old.state = "gone" /\ old # NONE
  BY <1>1, <1>2, <1>3 DEF Task
<1>5. task' = [task EXCEPT ![u] = task[t], ![t] = old] /\ t # u
  BY <1>2, <1>3 DEF TaskMoves
<1>6. task' \in [TaskIds -> Task \cup {NONE}]
      /\ \A v \in TaskIds : task'[v] = IF v = t THEN old ELSE IF v = u THEN task[t] ELSE task[v]
  BY <1>1, <1>4, <1>5
<1>7. MarkersKept
  BY <1>2, <1>4, <1>6 DEF MarkersKept
<1>8. TasksOK'
  BY <1>1, <1>2, <1>4, <1>6 DEF TasksOK, Backed
<1> QED BY <1>2, <1>7, <1>8, ListStep

LEMMA NextDayTypes == ASSUME TypeInv, NextDay PROVE TypeInv'
<1>1. task' = task /\ mirror' = mirror /\ today' = today + 1 /\ today < MaxDay
      /\ UNCHANGED tables /\ UNCHANGED <<pc, job>>
  BY DEF NextDay
<1>2. today' \in Days
  BY <1>1 DEF TypeInv, TypeOK, Days
<1>3. TasksOK' /\ MarkersKept
  BY <1>1, <1>2 DEF TypeInv, TypeOK, TasksOK, Backed, MarkersKept
<1> QED BY <1>1, <1>3, ListStep

LEMMA CrashTypes == ASSUME TypeInv, Crash PROVE TypeInv'
<1>1. UNCHANGED tables /\ UNCHANGED outside
      /\ pc' = [p \in Procs |-> "idle"] /\ job' = [p \in Procs |-> NoJob]
  BY DEF Crash
<1>2. pc' \in [Procs -> Steps] /\ job' \in [Procs -> Job]
  BY <1>1, NoJobFits DEF Steps
<1>3. JobInv'
  <2>1. \A p \in Procs : pc'[p] = "idle" /\ job'[p] = NoJob
    BY <1>1
  <2> QED BY <2>1, NoJobFits DEF JobInv, OwnTask
<1> QED BY <1>1, <1>2, <1>3, OutsideStays, TablesStay DEF TypeInv, TypeOK, OccsOK
-----------------------------------------------------------------------------
(* --------------------------------------------------------- type theorem *)
LEMMA TypesFromInit == Init => TypeInv
<1> SUFFICES ASSUME Init PROVE TypeInv
  OBVIOUS
<1>1. TypeOK
  BY NoJobFits DEF Init, TypeOK, Days, Steps
<1>2. JobInv /\ Backed
  BY NoJobFits DEF Init, JobInv, OwnTask, Backed
<1> QED BY <1>1, <1>2 DEF TypeInv

LEMMA TypesKept == TypeInv /\ RecurrenceAnswers /\ [Next]_vars => TypeInv'
<1> SUFFICES ASSUME TypeInv, RecurrenceAnswers, [Next]_vars PROVE TypeInv'
  OBVIOUS
<1>1. ASSUME NEW p \in Procs, Work(p) PROVE TypeInv'
  BY <1>1, ReconcileTypes, RelinkTypes, RelinkedTypes, ReconciledTypes, MaterialiseTypes,
     AdvanceTypes, AdvanceHistoryTypes, InsertTypes, ReadOpenTypes, ReadSameDateTypes,
     UnlinkedTypes, ProjectFindTypes, CreateTaskTypes, CreateTaskLostTypes, CreateTaskFailsTypes,
     MirrorCreatedTypes, LinkTypes, EndTypes, OutwardTypes, OutwardFailsTypes, LocalTypes,
     UpdateOpenTypes, UpdateHistoryTypes, MoveTypes, DeleteTypes DEF Work
<1>2. ASSUME NEW p \in Procs, Ask(p) PROVE TypeInv'
  BY <1>2, TickStartTypes, DeleteReadTypes, EndReadTypes, CreateRoutineTypes,
     UpdateRoutineTypes DEF Ask
<1>3. CASE UNCHANGED vars
  <2>1. UNCHANGED tables /\ UNCHANGED outside /\ UNCHANGED <<pc, job>>
    BY <1>3 DEF vars, tables, outside
  <2>2. TasksOK' /\ MarkersKept
    BY <2>1, OutsideStays DEF TasksOK
  <2> QED BY <2>1, <2>2, ListStep
<1> QED BY <1>1, <1>2, <1>3, MemberTicksTypes, SyncTaskTypes, DropMirrorTypes, TaskMovesTypes,
           NextDayTypes, CrashTypes DEF Next

(* The tables, the provider's tasks, their mirror and every call's state keep   *)
(* their types, and an occurrence has a completion time exactly if it was       *)
(* completed, whatever ticks, requests, syncs and crashes interleave.           *)
THEOREM TypeCorrect == ASSUME RecurrenceAnswers PROVE Spec => []TypeOK
<1>1. TypeInv /\ [Next]_vars => TypeInv'
  BY TypesKept
<1>2. TypeInv => TypeOK
  BY DEF TypeInv
<1> QED BY <1>1, <1>2, TypesFromInit, PTL DEF Spec
-----------------------------------------------------------------------------
(* ------------------------------------------------- what a step does to rows *)
(* The row that a process gets in. *)
Opens(p) ==
  /\ pc[p] = "insert" /\ routine # NONE /\ ~Conflict(job[p].due) /\ made < MaxOccs
  /\ occ' = [occ EXCEPT ![made + 1] = NewOcc(job[p].due)]
  /\ made' = made + 1 /\ UNCHANGED routine /\ UNCHANGED outside
  /\ Advanced(p, made + 1)

RowsStand == UNCHANGED <<occ, made>>

LEMMA WorkOnRows ==
  ASSUME NEW p \in Procs, Work(p)
  PROVE  \/ RowsStand \/ Relinked(p) \/ Link(p) \/ Reconciled(p) \/ End(p) \/ Opens(p)
         \/ Move(p) \/ Delete(p)
<1>1. Insert(p) => RowsStand \/ Opens(p)
  BY DEF Insert, Opens, RowsStand
<1>2. \/ Reconcile(p) \/ Relink(p) \/ Materialise(p)
      \/ Advance(p) \/ AdvanceHistory(p) \/ ReadOpen(p) \/ ReadSameDate(p)
      \/ Unlinked(p) \/ ProjectFind(p) \/ CreateTask(p) \/ CreateTaskLost(p) \/ CreateTaskFails(p)
      \/ MirrorCreated(p) \/ Outward(p) \/ OutwardFails(p) \/ Local(p) \/ UpdateOpen(p) \/ UpdateHistory(p)
      => RowsStand
  BY DEF Reconcile, Relink, Materialise, Advance, AdvanceHistory, ReadOpen, ReadSameDate,
         Unlinked, ProjectFind, NewTask, CreateTask, CreateTaskLost, CreateTaskFails, MirrorCreated,
         Outward, OutwardFails,
         Local, UpdateOpen, UpdateHistory, tables, RowsStand
<1> QED BY <1>1, <1>2 DEF Work

LEMMA AskOnRows == ASSUME NEW p \in Procs, Ask(p) PROVE RowsStand
BY DEF Ask, TickStart, DeleteRead, EndRead, CreateRoutine, UpdateRoutine, tables, RowsStand

LEMMA StepOnRows ==
  ASSUME [Next]_vars
  PROVE  \/ RowsStand
         \/ \E p \in Procs : \/ Relinked(p) \/ Link(p) \/ Reconciled(p) \/ End(p) \/ Opens(p)
                             \/ Move(p) \/ Delete(p)
<1>1. NextDay \/ Crash \/ UNCHANGED vars => RowsStand
  BY DEF NextDay, Crash, vars, tables, RowsStand
<1>2. \A t, u \in TaskIds : MemberTicks(t) \/ SyncTask(t) \/ DropMirror(t) \/ TaskMoves(t, u) => RowsStand
  BY DEF MemberTicks, SyncTask, DropMirror, TaskMoves, tables, RowsStand
<1>3. (\E t \in TaskIds : MemberTicks(t) \/ SyncTask(t) \/ DropMirror(t)) => RowsStand
  BY <1>2
<1> QED BY <1>1, <1>2, <1>3, WorkOnRows, AskOnRows DEF Next

(* Linking changes the link of one occurrence. *)
LEMMA RowsLinked ==
  ASSUME TypeOK, NEW o \in OccIds, NEW t \in TaskIds, SetProjection(o, t), NEW q \in OccIds
  PROVE  /\ occ'[q] = NONE <=> occ[q] = NONE
         /\ occ[q] # NONE => /\ occ'[q].dueOn = occ[q].dueOn /\ occ'[q].status = occ[q].status
                             /\ occ'[q].link = IF q = o THEN t ELSE occ[q].link
<1>1. occ \in [OccIds -> Occ \cup {NONE}]
  BY DEF TypeOK
<1>2. CASE q = o /\ occ[o] # NONE
  <2>1. occ[o] \in Occ
    BY <1>1, <1>2
  <2>2. occ'[q] = [occ[o] EXCEPT !.link = t]
    BY <1>1, <1>2 DEF SetProjection
  <2>3. /\ occ'[q] \in Occ /\ occ'[q].status = occ[o].status /\ occ'[q].dueOn = occ[o].dueOn
        /\ occ'[q].link = t
    BY <2>1, <2>2 DEF Occ
  <2> QED BY <1>2, <2>3
<1>3. CASE ~(q = o /\ occ[o] # NONE)
  <2>1. occ'[q] = occ[q]
    BY <1>1, <1>3 DEF SetProjection
  <2> QED BY <1>3, <2>1
<1> QED BY <1>2, <1>3

(* Ending changes what became of one occurrence. *)
LEMMA RowsEnded ==
  ASSUME TypeOK, NEW p \in Procs, job[p].occ \in OccIds, Terminate(p), NEW q \in OccIds
  PROVE  /\ occ'[q] = NONE <=> occ[q] = NONE
         /\ occ[q] # NONE => /\ occ'[q].dueOn = occ[q].dueOn /\ occ'[q].link = occ[q].link
                             /\ occ'[q].status = IF q = job[p].occ THEN job[p].status
                                                 ELSE occ[q].status
<1>1. occ \in [OccIds -> Occ \cup {NONE}] /\ job[p] \in Job
  BY DEF TypeOK
<1>2. CASE q = job[p].occ /\ occ[q] # NONE
  <2>1. occ[q] \in Occ
    BY <1>1, <1>2
  <2>2. PICK st, at, m : /\ st = job[p].status /\ m = job[p].member
                         /\ at = IF job[p].status = "completed" THEN job[p].at ELSE NONE
    OBVIOUS
  <2>3. st \in {"completed", "skipped"} /\ at \in Int \cup {NONE} /\ m \in Members \cup {NONE}
    BY <1>1, <2>2 DEF Job
  <2>4. occ'[q] = [occ[q] EXCEPT !.status = st, !.at = at, !.member = m]
    BY <1>1, <1>2, <2>2 DEF Terminate
  <2>5. /\ occ'[q] \in Occ /\ occ'[q].status = st /\ occ'[q].dueOn = occ[q].dueOn
        /\ occ'[q].link = occ[q].link
    BY <2>1, <2>3, <2>4 DEF Occ
  <2> QED BY <1>2, <2>2, <2>5
<1>3. CASE ~(q = job[p].occ /\ occ[q] # NONE)
  <2>1. occ'[q] = occ[q]
    BY <1>1, <1>3 DEF Terminate
  <2> QED BY <1>3, <2>1
<1> QED BY <1>2, <1>3

(* Moving changes the date of one occurrence. *)
LEMMA RowsMoved ==
  ASSUME TypeInv, NEW p \in Procs, Move(p), NEW q \in OccIds
  PROVE  /\ occ'[q] = NONE <=> occ[q] = NONE
         /\ occ[q] # NONE => occ'[q].status = occ[q].status /\ occ'[q].link = occ[q].link
<1>1. occ \in [OccIds -> Occ \cup {NONE}] /\ job[p].due \in Int
  BY JobKnown DEF TypeInv, TypeOK, Job
<1>2. CASE occ'[q] # occ[q]
  <2>1. PICK due : due = job[p].due
    OBVIOUS
  <2>2. occ[q] # NONE /\ occ'[q] = [occ[q] EXCEPT !.dueOn = due]
    BY <1>1, <1>2, <2>1 DEF Move
  <2>3. occ[q] \in Occ
    BY <1>1, <2>2
  <2>4. occ'[q] \in Occ /\ occ'[q].status = occ[q].status /\ occ'[q].link = occ[q].link
    BY <1>1, <2>1, <2>2, <2>3 DEF Occ
  <2> QED BY <2>2, <2>4
<1> QED BY <1>2

LEMMA RowsOpened ==
  ASSUME TypeInv, NEW p \in Procs, Opens(p)
  PROVE  /\ made + 1 \in OccIds /\ job[p].due \in Int
         /\ \A q \in OccIds : occ'[q] = IF q = made + 1 THEN NewOcc(job[p].due) ELSE occ[q]
         /\ NewOcc(job[p].due) # NONE
<1>1. occ \in [OccIds -> Occ \cup {NONE}] /\ made \in 0..MaxOccs /\ job[p].due \in Int
  BY JobKnown DEF TypeInv, TypeOK, Job
<1>2. NewOcc(job[p].due) \in Occ
  BY <1>1, NewOccType
<1> QED BY <1>1, <1>2 DEF Opens, OccIds

(* What the processes that change rows work on. *)
LEMMA RowWorkers ==
  ASSUME TypeInv, NEW p \in Procs
  PROVE  /\ Relinked(p) \/ Link(p) =>
              /\ job[p].occ \in OccIds /\ job[p].link \in TaskIds
              /\ SetProjection(job[p].occ, job[p].link)
              /\ task[job[p].link] # NONE /\ task[job[p].link].marker = job[p].occ
         /\ Reconciled(p) \/ End(p) =>
              /\ job[p].occ \in OccIds /\ job[p].status \in {"completed", "skipped"}
              /\ Terminate(p)
<1>1. job[p] \in Job /\ JobFits(pc[p], job[p]) /\ OwnTask(pc[p], job[p])
  BY JobKnown
<1> QED BY <1>1 DEF Relinked, Link, Reconciled, End, JobFits, OwnTask, Job
-----------------------------------------------------------------------------
(* ------------------------------------------------------ never due again *)
SameOrOver(o) == occ'[o] = NONE \/ occ'[o].status # "due"

LEMMA RowsStayInOrder ==
  ASSUME TypeInv, RowsInOrder, [Next]_vars
  PROVE  RowsInOrder' /\ \A o \in Terminal : SameOrOver(o)
<1>0. made \in 0..MaxOccs /\ Terminal \subseteq OccIds
      /\ \A o \in Terminal : occ[o] # NONE /\ occ[o].status # "due"
  BY DEF TypeInv, TypeOK, Terminal, Rows, Open
<1>1. CASE RowsStand
  BY <1>0, <1>1 DEF RowsStand, RowsInOrder, SameOrOver
<1>2. ASSUME NEW p \in Procs, Relinked(p) \/ Link(p) PROVE RowsInOrder' /\ \A o \in Terminal : SameOrOver(o)
  <2>1. /\ made' = made
        /\ job[p].occ \in OccIds /\ job[p].link \in TaskIds /\ SetProjection(job[p].occ, job[p].link)
    BY <1>2, RowWorkers DEF Relinked, Link
  <2>2. \A q \in OccIds : /\ occ'[q] = NONE <=> occ[q] = NONE
                          /\ occ[q] # NONE => occ'[q].status = occ[q].status
    BY <2>1, RowsLinked DEF TypeInv
  <2> QED BY <1>0, <2>1, <2>2 DEF RowsInOrder, SameOrOver
<1>3. ASSUME NEW p \in Procs, Reconciled(p) \/ End(p) PROVE RowsInOrder' /\ \A o \in Terminal : SameOrOver(o)
  <2>1. /\ made' = made /\ Terminate(p)
        /\ job[p].occ \in OccIds /\ job[p].status \in {"completed", "skipped"}
    BY <1>3, RowWorkers DEF Reconciled, End
  <2>2. \A q \in OccIds : /\ occ'[q] = NONE <=> occ[q] = NONE
                          /\ occ[q] # NONE => occ'[q].status = IF q = job[p].occ THEN job[p].status
                                                               ELSE occ[q].status
    BY <2>1, RowsEnded DEF TypeInv
  <2> QED BY <1>0, <2>1, <2>2 DEF RowsInOrder, SameOrOver
<1>4. ASSUME NEW p \in Procs, Opens(p) PROVE RowsInOrder' /\ \A o \in Terminal : SameOrOver(o)
  <2>1. made' = made + 1 /\ made + 1 \in OccIds
        /\ \A q \in OccIds : occ'[q] = IF q = made + 1 THEN NewOcc(job[p].due) ELSE occ[q]
    BY <1>4, RowsOpened DEF Opens
  <2>2. occ[made + 1] = NONE
    BY <1>0, <2>1 DEF RowsInOrder
  <2>3. RowsInOrder'
    BY <1>0, <2>1 DEF RowsInOrder, OccIds
  <2> QED BY <1>0, <2>1, <2>2, <2>3 DEF SameOrOver
<1>5. ASSUME NEW p \in Procs, Move(p) PROVE RowsInOrder' /\ \A o \in Terminal : SameOrOver(o)
  <2>1. \A q \in OccIds : /\ occ'[q] = NONE <=> occ[q] = NONE
                          /\ occ[q] # NONE => occ'[q].status = occ[q].status
    BY <1>5, RowsMoved
  <2>2. made' = made
    BY <1>5 DEF Move
  <2> QED BY <1>0, <2>1, <2>2 DEF RowsInOrder, SameOrOver
<1>6. ASSUME NEW p \in Procs, Delete(p) PROVE RowsInOrder' /\ \A o \in Terminal : SameOrOver(o)
  BY <1>0, <1>6 DEF Delete, RowsInOrder, SameOrOver
<1> QED BY <1>1, <1>2, <1>3, <1>4, <1>5, <1>6, StepOnRows

(* The typed system with its rows in order. *)
RowsInv == TypeInv /\ RowsInOrder

LEMMA RowsInvHolds == ASSUME RecurrenceAnswers PROVE Spec => []RowsInv
<1>1. Init => RowsInv
  <2>1. Init => RowsInOrder
    BY DEF Init, RowsInOrder
  <2> QED BY <2>1, TypesFromInit DEF RowsInv
<1>2. RowsInv /\ [Next]_vars => RowsInv'
  BY TypesKept, RowsStayInOrder DEF RowsInv
<1> QED BY <1>1, <1>2, PTL DEF Spec

(* What is done or skipped is never due again: no insert, edit, tick or late    *)
(* completion turns a finished occurrence back, for any number of processes      *)
(* (insertOccurrence's ON CONFLICT DO NOTHING, terminateOccurrence).            *)
THEOREM NotReopened == ASSUME RecurrenceAnswers PROVE Spec => NeverReopened
<1>1. RowsInv /\ [Next]_vars => [\A o \in Terminal : occ'[o] = NONE \/ occ'[o].status # "due"]_vars
  BY RowsStayInOrder DEF RowsInv, SameOrOver
<1>2. Spec => []RowsInv
  BY RowsInvHolds
<1> QED BY <1>1, <1>2, PTL DEF Spec, NeverReopened
-----------------------------------------------------------------------------
(* -------------------------------------------------- links and their tasks *)
LEMMA StepKeepsMarkers == ASSUME TypeInv, [Next]_vars PROVE MarkersKept
<1>1. task' = task => MarkersKept
  BY DEF MarkersKept
<1>2. ASSUME NEW p \in Procs, Work(p) PROVE MarkersKept
  <2>1. CreateTask(p) \/ CreateTaskLost(p) \/ Outward(p) => MarkersKept
    BY CreateTaskTypes, CreateTaskLostTypes, OutwardTypes
  <2>2. \/ Reconcile(p) \/ Relink(p) \/ Relinked(p) \/ Reconciled(p) \/ Materialise(p)
        \/ Advance(p) \/ AdvanceHistory(p) \/ Insert(p) \/ ReadOpen(p) \/ ReadSameDate(p)
        \/ Unlinked(p) \/ ProjectFind(p) \/ CreateTaskFails(p) \/ MirrorCreated(p)
        \/ Link(p) \/ End(p) \/ OutwardFails(p) \/ Local(p)
        \/ UpdateOpen(p) \/ UpdateHistory(p) \/ Move(p) \/ Delete(p)
        => task' = task
    BY DEF Reconcile, Relink, Relinked, Reconciled, Materialise, Advance, AdvanceHistory, Insert,
           ReadOpen, ReadSameDate, Unlinked, ProjectFind, CreateTaskFails, MirrorCreated, Link,
           End, OutwardFails, Local, UpdateOpen, UpdateHistory, Move, Delete, outside
  <2> QED BY <1>1, <1>2, <2>1, <2>2 DEF Work
<1>3. ASSUME NEW p \in Procs, Ask(p) PROVE task' = task
  BY <1>3 DEF Ask, TickStart, DeleteRead, EndRead, CreateRoutine, UpdateRoutine, outside
<1>4. ASSUME NEW t \in TaskIds, SyncTask(t) \/ DropMirror(t) PROVE task' = task
  BY <1>4 DEF SyncTask, DropMirror
<1>5. NextDay \/ Crash \/ UNCHANGED vars => task' = task
  BY DEF NextDay, Crash, vars, outside
<1> QED BY <1>1, <1>2, <1>3, <1>4, <1>5, MemberTicksTypes, TaskMovesTypes DEF Next

OwnLink(o) == occ[o] # NONE => (occ[o].link # NONE =>
                task[occ[o].link] # NONE /\ task[occ[o].link].marker = o)

LEMMA LinkedIsOwnLink ==
  LinkedToOwnTask <=> \A o \in OccIds : OwnLink(o)
BY DEF LinkedToOwnTask, OwnLink, Rows

LEMMA LinksKept ==
  ASSUME TypeInv, \A o \in OccIds : OwnLink(o), [Next]_vars
  PROVE  \A o \in OccIds : OwnLink(o)'
<1>1. MarkersKept
  BY StepKeepsMarkers
<1> SUFFICES ASSUME NEW q \in OccIds PROVE OwnLink(q)'
  OBVIOUS
<1>2. OwnLink(q)
  OBVIOUS
<1>3. occ[q] # NONE => occ[q].link \in TaskIds \cup {NONE}
  BY DEF TypeInv, TypeOK, Occ
<1>4. ASSUME occ'[q] = NONE <=> occ[q] = NONE, occ[q] # NONE => occ'[q].link = occ[q].link
      PROVE  OwnLink(q)'
  BY <1>1, <1>2, <1>3, <1>4 DEF OwnLink, MarkersKept
<1>5. CASE RowsStand
  BY <1>4, <1>5 DEF RowsStand
<1>6. ASSUME NEW p \in Procs, Relinked(p) \/ Link(p) PROVE OwnLink(q)'
  <2>1. /\ job[p].occ \in OccIds /\ job[p].link \in TaskIds
        /\ SetProjection(job[p].occ, job[p].link)
        /\ task[job[p].link] # NONE /\ task[job[p].link].marker = job[p].occ
    BY <1>6, RowWorkers
  <2>2. /\ occ'[q] = NONE <=> occ[q] = NONE
        /\ occ[q] # NONE => occ'[q].link = IF q = job[p].occ THEN job[p].link ELSE occ[q].link
    BY <2>1, RowsLinked DEF TypeInv
  <2>3. CASE q # job[p].occ
    BY <1>4, <2>2, <2>3
  <2>4. CASE q = job[p].occ
    BY <1>1, <2>1, <2>2, <2>4 DEF OwnLink, MarkersKept
  <2> QED BY <2>3, <2>4
<1>7. ASSUME NEW p \in Procs, Reconciled(p) \/ End(p) PROVE OwnLink(q)'
  <2>1. Terminate(p) /\ job[p].occ \in OccIds
    BY <1>7, RowWorkers
  <2>2. /\ occ'[q] = NONE <=> occ[q] = NONE
        /\ occ[q] # NONE => occ'[q].link = occ[q].link
    BY <2>1, RowsEnded DEF TypeInv
  <2> QED BY <1>4, <2>2
<1>8. ASSUME NEW p \in Procs, Opens(p) PROVE OwnLink(q)'
  <2>1. /\ job[p].due \in Int
        /\ occ'[q] = IF q = made + 1 THEN NewOcc(job[p].due) ELSE occ[q]
    BY <1>8, RowsOpened
  <2>2. CASE q = made + 1
    BY <2>1, <2>2, NewOccType DEF OwnLink
  <2>3. CASE q # made + 1
    BY <1>4, <2>1, <2>3
  <2> QED BY <2>2, <2>3
<1>9. ASSUME NEW p \in Procs, Move(p) PROVE OwnLink(q)'
  <2>1. /\ occ'[q] = NONE <=> occ[q] = NONE
        /\ occ[q] # NONE => occ'[q].link = occ[q].link
    BY <1>9, RowsMoved
  <2> QED BY <1>4, <2>1
<1>10. ASSUME NEW p \in Procs, Delete(p) PROVE OwnLink(q)'
  BY <1>10 DEF Delete, OwnLink
<1> QED BY <1>5, <1>6, <1>7, <1>8, <1>9, <1>10, StepOnRows

(* An occurrence is only ever linked to a task that carries its own marker: a   *)
(* re-link after a mirror row went away, a tick that creates and a request that *)
(* creates the same task, and a move of the task to another list never let one  *)
(* chore's task end another chore (engine.ts, findTaskByNotesMarker).           *)
THEOREM LinksOwned == ASSUME RecurrenceAnswers PROVE Spec => []LinkedToOwnTask
<1> DEFINE Inv == TypeInv /\ \A o \in OccIds : OwnLink(o)
<1>1. Init => Inv
  <2>1. Init => \A o \in OccIds : OwnLink(o)
    BY DEF Init, OwnLink
  <2> QED BY <2>1, TypesFromInit
<1>2. Inv /\ [Next]_vars => Inv'
  BY TypesKept, LinksKept
<1>3. Inv => LinkedToOwnTask
  BY LinkedIsOwnLink
<1> HIDE DEF Inv
<1> QED BY <1>1, <1>2, <1>3, PTL DEF Spec
-----------------------------------------------------------------------------
(* ----------------------------------------------------- grids and backlog *)
(* The slot a grid answers lies after the last date; it is the same for every   *)
(* later date that leaves it ahead; and it never goes back as days pass.        *)
LEMMA GridSlots ==
  ASSUME FixedGrids, NEW s \in Specs, NEW last \in Int \cup {NONE}, NEW day \in Int
  PROVE  /\ NextDueOn(s, last, day) \in Int
         /\ last # NONE => last < NextDueOn(s, last, day)
         /\ \A d \in Int : (last # NONE => last <= d) /\ d < NextDueOn(s, last, day)
                           => NextDueOn(s, d, day) = NextDueOn(s, last, day)
         /\ \A later \in Int : day <= later => NextDueOn(s, last, day) <= NextDueOn(s, last, later)
<1>1. PICK slots \in [Specs -> SUBSET Int] :
        \A r \in Specs, l \in Int \cup {NONE}, d \in Int : RightSlot(slots[r], l, d, NextDueOn(r, l, d))
  BY DEF FixedGrids
<1>2. PICK G : G = slots[s]
  OBVIOUS
<1>3. G \subseteq Int
  BY <1>1, <1>2
<1>4. \A l \in Int \cup {NONE}, d \in Int : RightSlot(G, l, d, NextDueOn(s, l, d))
  BY <1>1, <1>2
<1>5. \A l \in Int \cup {NONE}, d \in Int :
        /\ NextDueOn(s, l, d) \in G /\ NextDueOn(s, l, d) \in Int
        /\ l # NONE => l < NextDueOn(s, l, d)
        /\ \A x \in G : (l # NONE => l < x) /\ x <= d =>
             x <= NextDueOn(s, l, d) /\ NextDueOn(s, l, d) <= d
        /\ \A x \in G : (l # NONE => l < x) /\ d < x =>
             NextDueOn(s, l, d) <= d \/ NextDueOn(s, l, d) <= x
  <2> SUFFICES ASSUME NEW l \in Int \cup {NONE}, NEW d \in Int
               PROVE  /\ NextDueOn(s, l, d) \in G /\ NextDueOn(s, l, d) \in Int
                      /\ l # NONE => l < NextDueOn(s, l, d)
                      /\ \A x \in G : (l # NONE => l < x) /\ x <= d =>
                           x <= NextDueOn(s, l, d) /\ NextDueOn(s, l, d) <= d
                      /\ \A x \in G : (l # NONE => l < x) /\ d < x =>
                           NextDueOn(s, l, d) <= d \/ NextDueOn(s, l, d) <= x
    OBVIOUS
  <2>1. RightSlot(G, l, d, NextDueOn(s, l, d))
    BY <1>4
  <2> QED BY <1>3, <2>1 DEF RightSlot
<1>6. ASSUME NEW d \in Int, (last # NONE => last <= d), d < NextDueOn(s, last, day)
      PROVE  NextDueOn(s, d, day) = NextDueOn(s, last, day)
  <2>1. PICK x, y : x = NextDueOn(s, last, day) /\ y = NextDueOn(s, d, day)
    OBVIOUS
  <2>2. x \in G /\ x \in Int /\ d < x /\ (last # NONE => last < x)
    BY <1>5, <1>6, <2>1
  <2>3. y \in G /\ y \in Int /\ d < y /\ d # NONE
    BY <1>5, <2>1
  <2>4. last # NONE => last < y
    BY <1>6, <2>3
  <2>5. x <= day => x <= y /\ y <= day
    BY <1>5, <2>1, <2>2
  <2>6. y <= day => y <= x /\ x <= day
    BY <1>5, <2>1, <2>3, <2>4
  <2>7. day < x => y <= day \/ y <= x
    BY <1>5, <2>1, <2>2
  <2>8. day < y => x <= day \/ x <= y
    BY <1>5, <2>1, <2>3, <2>4
  <2>9. x = y
    BY <2>2, <2>3, <2>5, <2>6, <2>7, <2>8
  <2> QED BY <2>1, <2>9
<1>7. ASSUME NEW later \in Int, day <= later
      PROVE  NextDueOn(s, last, day) <= NextDueOn(s, last, later)
  <2>1. PICK x, y : x = NextDueOn(s, last, day) /\ y = NextDueOn(s, last, later)
    OBVIOUS
  <2>2. x \in G /\ x \in Int /\ y \in G /\ y \in Int /\ (last # NONE => last < x /\ last < y)
    BY <1>5, <2>1
  <2>3. x <= later => x <= y
    BY <1>5, <2>1, <2>2
  <2>4. y <= day => y <= x /\ x <= day
    BY <1>5, <2>1, <2>2
  <2>5. day < y => x <= day \/ x <= y
    BY <1>5, <2>1, <2>2
  <2>6. x <= y
    BY <1>7, <2>2, <2>3, <2>4, <2>5
  <2> QED BY <2>1, <2>6
<1> QED BY <1>5, <1>6, <1>7

LEMMA GridsAnswer == FixedGrids => RecurrenceAnswers
BY GridSlots DEF RecurrenceAnswers

LEMMA OpenOrOver == /\ Open = {o \in OccIds : IsOpen(o)}
                    /\ Terminal = {o \in OccIds : IsOver(o)}
BY DEF Open, Terminal, Rows, IsOpen, IsOver

LEMMA LastDateExists == TypeOK => \E last \in Int \cup {NONE} : LastDate(last)
<1> SUFFICES ASSUME TypeOK PROVE \E last \in Int \cup {NONE} : LastDate(last)
  OBVIOUS
<1>1. CASE Terminal = {}
  BY <1>1, OpenOrOver DEF LastDate
<1>2. CASE Terminal # {}
  <2>1. PICK o \in Terminal : \A q \in Terminal : occ[q].dueOn <= occ[o].dueOn
    BY <1>2, LastTerminalIs
  <2>2. occ[o].dueOn \in Int
    BY <2>1 DEF Terminal, Rows, TypeOK, Occ
  <2>3. LastDate(occ[o].dueOn)
    BY <2>1, <2>2, OpenOrOver DEF LastDate
  <2> QED BY <2>2, <2>3
<1> QED BY <1>1, <1>2

(* On a grid what the history calls for depends on the last date alone. *)
LEMMA DueAfterLast ==
  TypeOK => \A s \in Specs, last \in Int \cup {NONE}, day \in Int :
              s.mode = "fixed" /\ LastDate(last) => DueAfterHistory(s, day) = NextDueOn(s, last, day)
<1> SUFFICES ASSUME TypeOK, NEW s \in Specs, NEW last \in Int \cup {NONE}, NEW day \in Int,
                    s.mode = "fixed", LastDate(last)
             PROVE  DueAfterHistory(s, day) = NextDueOn(s, last, day)
  OBVIOUS
<1>1. CASE Terminal = {}
  <2>1. last = NONE
    BY <1>1, OpenOrOver DEF LastDate
  <2> QED BY <1>1, <2>1 DEF DueAfterHistory
<1>2. CASE Terminal # {}
  <2>1. PICK o : o = CHOOSE q \in LastTerminal : TRUE
    OBVIOUS
  <2>2. o \in Terminal /\ \A q \in Terminal : occ[q].dueOn <= occ[o].dueOn
    BY <1>2, <2>1, LastTerminalIs
  <2>3. occ[o].dueOn \in Int
    BY <2>2 DEF Terminal, Rows, TypeOK, Occ
  <2>4. last = occ[o].dueOn
    BY <2>2, <2>3, OpenOrOver DEF LastDate
  <2>5. TerminalDate(o, s) = occ[o].dueOn
    BY DEF TerminalDate
  <2> QED BY <1>2, <2>1, <2>4, <2>5 DEF DueAfterHistory
<1> QED BY <1>1, <1>2

LEMMA BacklogFor ==
  BacklogInv <=> OneOpen /\ \E last \in Int \cup {NONE} : BacklogAt(last)
<1>1. \A last : BacklogAt(last) => last \in {occ[o].dueOn : o \in Terminal} \cup {NONE}
                                   /\ last \in Int \cup {NONE}
  BY OpenOrOver DEF BacklogAt, LastDate
<1> QED BY <1>1 DEF BacklogInv

LEMMA BacklogForNext ==
  (BacklogInv <=> OneOpen /\ \E last \in Int \cup {NONE} : BacklogAt(last))'
BY BacklogFor, PTL

(* Steps after which every occurrence is as due, or as over, as before. *)
HistorySame ==
  /\ today' = today /\ routine' = routine
  /\ \A q \in OccIds : /\ occ'[q] = NONE <=> occ[q] = NONE
                       /\ occ[q] # NONE => /\ occ'[q].dueOn = occ[q].dueOn
                                           /\ occ'[q].status = "due" <=> occ[q].status = "due"

LEMMA SameDates ==
  ASSUME HistorySame, NEW last
  PROVE  /\ \A q \in OccIds : /\ IsOpen(q)' <=> IsOpen(q)
                              /\ IsOver(q)' <=> IsOver(q)
                              /\ IsOpen(q) \/ IsOver(q) => occ'[q].dueOn = occ[q].dueOn
         /\ LastDate(last)' <=> LastDate(last)
         /\ \A due : Pending(last, due)' <=> Pending(last, due)
         /\ \A step, j : JobOnSlot(last, step, j)' <=> JobOnSlot(last, step, j)
<1>1. \A q \in OccIds : /\ IsOpen(q)' <=> IsOpen(q)
                        /\ IsOver(q)' <=> IsOver(q)
                        /\ IsOpen(q) \/ IsOver(q) => occ'[q].dueOn = occ[q].dueOn
  BY DEF HistorySame, IsOpen, IsOver
<1>2. LastDate(last)' <=> LastDate(last)
  BY <1>1 DEF LastDate
<1>3. today' = today /\ routine' = routine
  BY DEF HistorySame
<1>4. \A due : Pending(last, due)' <=> Pending(last, due)
  BY <1>1, <1>3 DEF Pending
<1>5. \A step, j : JobOnSlot(last, step, j)' <=> JobOnSlot(last, step, j)
  BY <1>3, <1>4 DEF JobOnSlot
<1> QED BY <1>1, <1>2, <1>4, <1>5

(* What one process does to its job while the history stays. *)
LEMMA OnSlotStep ==
  ASSUME TypeOK, OneOpen, HistorySame, NEW last, BacklogAt(last),
         NEW p \in Procs, NEW step, NEW j, Do(p, step, j), JobOnSlot(last, step, j)
  PROVE  OneOpen' /\ BacklogAt(last)'
<1>1. \A q \in Procs : JobOnSlot(last, pc[q], job[q])'
  <2> SUFFICES ASSUME NEW q \in Procs PROVE JobOnSlot(last, pc[q], job[q])'
    OBVIOUS
  <2>1. PICK st, k : st = pc'[q] /\ k = job'[q]
    OBVIOUS
  <2>2. JobOnSlot(last, st, k)
    <3>1. pc \in [Procs -> Steps] /\ job \in [Procs -> Job]
      BY DEF TypeOK
    <3>2. CASE q = p
      BY <2>1, <3>1, <3>2 DEF Do
    <3>3. CASE q # p
      BY <2>1, <3>1, <3>3 DEF Do, BacklogAt
    <3> QED BY <3>2, <3>3
  <2>3. JobOnSlot(last, st, k)'
    BY <2>2, SameDates
  <2> QED BY <2>1, <2>3 DEF JobOnSlot, Pending, IsOver
<1>2. LastDate(last)' /\ OneOpen'
  BY SameDates DEF BacklogAt, OneOpen
<1>3. \A q \in OccIds : OpenOnSlot(last, q)'
  <2> SUFFICES ASSUME NEW q \in OccIds, IsOpen(q)' PROVE OpenOnSlot(last, q)'
    BY DEF OpenOnSlot
  <2>1. IsOpen(q) /\ occ'[q].dueOn = occ[q].dueOn /\ today' = today /\ routine' = routine
    BY SameDates DEF HistorySame
  <2> QED BY <2>1 DEF OpenOnSlot, BacklogAt
<1> QED BY <1>1, <1>2, <1>3 DEF BacklogAt

LEMMA NothingMoved ==
  ASSUME UNCHANGED <<routine, occ, today>>
  PROVE  HistorySame
BY DEF HistorySame

(* Between its reads and its insert a process keeps the day it works on. *)
LEMMA Onward ==
  ASSUME TypeInv, NEW last, BacklogAt(last), NEW p \in Procs,
         \/ Reconcile(p) \/ Relink(p) \/ Relinked(p) \/ Materialise(p) \/ ReadOpen(p)
         \/ ReadSameDate(p) \/ Insert(p)
  PROVE  job[p].today = today
<1>1. JobOnSlot(last, pc[p], job[p])
  BY DEF BacklogAt
<1> QED BY <1>1 DEF JobOnSlot, Reconcile, Relink, Relinked, Materialise, ReadOpen, ReadSameDate, Insert

LEMMA FreeStep ==
  ASSUME NEW last, NEW j, NEW step \in {"idle", "unlinked", "find", "create", "mirror", "link",
                                        "end", "outward", "local", "delete"}
  PROVE  JobOnSlot(last, step, j)
BY DEF JobOnSlot

LEMMA TodayStep ==
  ASSUME NEW last, NEW j, NEW step \in {"reconcile", "relink", "relinked", "reconciled",
                                        "materialise", "advance"}, j.today = today
  PROVE  JobOnSlot(last, step, j)
BY DEF JobOnSlot

(* Where a process goes from its answer no date is expected of it. *)
LEMMA AdvancedFree ==
  ASSUME TypeOK, NEW last, NEW p \in Procs, NEW o \in OccIds \cup {NONE}, Advanced(p, o)
  PROVE  \E step, j : Do(p, step, j) /\ JobOnSlot(last, step, j)
<1>1. PICK step \in {"idle", "unlinked", "find"}, j \in Job : Do(p, step, j)
  BY AdvancedIs
<1> QED BY <1>1, FreeStep

OnSlot(last, p) == \E step, j : Do(p, step, j) /\ JobOnSlot(last, step, j)

LEMMA GotoOnSlot ==
  ASSUME TypeOK, NEW last, NEW p \in Procs, NEW step, Goto(p, step), JobOnSlot(last, step, job[p])
  PROVE  OnSlot(last, p)
<1>1. PICK j : j = job[p]
  OBVIOUS
<1>2. Do(p, step, j)
  BY <1>1, GotoIsDo
<1> QED BY <1>1, <1>2 DEF OnSlot

LEMMA DoneOnSlot == ASSUME NEW last, NEW p \in Procs, Done(p) PROVE OnSlot(last, p)
<1>1. Do(p, "idle", NoJob) /\ JobOnSlot(last, "idle", NoJob)
  BY FreeStep DEF Done
<1> QED BY <1>1 DEF OnSlot

LEMMA ThenAdvanceOnSlot ==
  ASSUME TypeInv, NEW last, NEW p \in Procs, ThenAdvance(p)
  PROVE  OnSlot(last, p)
<1>1. PICK j \in Job : Do(p, "advance", j) /\ j.today = today
  BY ThenAdvanceIs
<1>2. JobOnSlot(last, "advance", j)
  BY <1>1, TodayStep
<1> QED BY <1>1, <1>2 DEF OnSlot

(* The steps of a tick before it materialises. *)
LEMMA ReconcileOnSlot ==
  ASSUME TypeInv, NEW last, BacklogAt(last), NEW p \in Procs,
         Reconcile(p) \/ Relink(p) \/ Relinked(p) \/ Materialise(p)
  PROVE  OnSlot(last, p)
<1>1. job[p].today = today /\ job[p] \in Job
  BY Onward, JobKnown
<1>2. \A step \in {"relink", "materialise", "reconciled", "advance"} : JobOnSlot(last, step, job[p])
  BY <1>1, TodayStep
<1>3. JobOnSlot(last, "unlinked", job[p])
  BY FreeStep
<1>4. ASSUME NEW t, NEW step \in {"reconciled", "relinked"}, Mirrored(p, t, step)
      PROVE  OnSlot(last, p)
  <2>1. PICK j : j = [job[p] EXCEPT !.link = t, !.at = mirror[t].at,
                             !.status = "completed", !.member = NONE]
    OBVIOUS
  <2>2. j.today = today
    BY <1>1, <2>1 DEF Job
  <2>3. Do(p, step, j)
    BY <1>4, <2>1 DEF Mirrored
  <2>4. JobOnSlot(last, step, j)
    BY <2>2, TodayStep
  <2> QED BY <2>3, <2>4 DEF OnSlot
<1>5. ASSUME NEW step \in {"relink", "materialise", "reconciled", "advance", "unlinked"}, Goto(p, step)
      PROVE  OnSlot(last, p)
  BY <1>2, <1>3, <1>5, GotoOnSlot DEF TypeInv
<1>6. Reconcile(p) => OnSlot(last, p)
  BY <1>4, <1>5 DEF Reconcile
<1>7. Relink(p) => OnSlot(last, p)
  BY <1>4, <1>5 DEF Relink
<1>8. Relinked(p) \/ Materialise(p) => OnSlot(last, p)
  BY <1>5 DEF Relinked, Materialise
<1> QED BY <1>6, <1>7, <1>8

LEMMA AdvanceOnSlot ==
  ASSUME TypeInv, FixedGrids, NEW last \in Int \cup {NONE}, BacklogAt(last), NEW p \in Procs,
         Advance(p) \/ AdvanceHistory(p)
  PROVE  OnSlot(last, p)
<1>1. job[p] \in Job /\ job[p].today = today /\ (routine # NONE /\ pc[p] = "history" => job[p].spec = routine)
      /\ JobFits(pc[p], job[p])
  BY JobKnown DEF BacklogAt, JobOnSlot, Advance, AdvanceHistory
<1>2. ASSUME NEW o \in OccIds \cup {NONE}, Advanced(p, o) PROVE OnSlot(last, p)
  BY <1>2, AdvancedFree DEF OnSlot, TypeInv
<1>3. ASSUME Do(p, "history", [job[p] EXCEPT !.spec = routine]) PROVE OnSlot(last, p)
  <2>1. PICK j : j = [job[p] EXCEPT !.spec = routine]
    OBVIOUS
  <2>2. j.today = today /\ j.spec = routine
    BY <1>1, <2>1 DEF Job
  <2>3. Do(p, "history", j) /\ JobOnSlot(last, "history", j)
    BY <1>3, <2>1, <2>2 DEF JobOnSlot
  <2> QED BY <2>3 DEF OnSlot
<1>4. ASSUME pc[p] = "history",
             Do(p, "insert", [job[p] EXCEPT !.due = DueAfterHistory(job[p].spec, job[p].today),
                                            !.attempt = 1])
      PROVE  OnSlot(last, p)
  <2>1. PICK due : due = DueAfterHistory(job[p].spec, job[p].today)
    OBVIOUS
  <2>2. PICK j : j = [job[p] EXCEPT !.due = due, !.attempt = 1]
    OBVIOUS
  <2>3. j.today = today /\ j.due = due
    BY <1>1, <2>2 DEF Job
  <2>4. routine # NONE => due = NextDueOn(routine, last, today)
    <3>1. today \in Int /\ routine \in Specs \cup {NONE}
      BY DEF TypeInv, TypeOK, Days
    <3>2. LastDate(last) /\ TypeOK /\ \A s \in Specs : s.mode = "fixed"
      BY DEF BacklogAt, TypeInv, FixedGrids
    <3> QED BY <1>1, <1>4, <2>1, <3>1, <3>2, DueAfterLast
  <2>5. Do(p, "insert", j) /\ JobOnSlot(last, "insert", j)
    BY <1>4, <2>1, <2>2, <2>3, <2>4 DEF JobOnSlot, Pending
  <2> QED BY <2>5 DEF OnSlot
<1>5. Open \subseteq OccIds
  BY DEF Open, Rows
<1>6. Advance(p) => OnSlot(last, p)
  BY <1>2, <1>3, <1>5 DEF Advance
<1>7. AdvanceHistory(p) => OnSlot(last, p)
  BY <1>2, <1>4 DEF AdvanceHistory
<1> QED BY <1>6, <1>7

(* After an insert that another row refused. *)
LEMMA RetryOnSlot ==
  ASSUME TypeInv, NEW last, BacklogAt(last), NEW p \in Procs,
         ReadOpen(p) \/ ReadSameDate(p) \/ (Insert(p) /\ ~Opens(p))
  PROVE  OnSlot(last, p)
<1>1. job[p] \in Job /\ job[p].today = today /\ (routine # NONE => Pending(last, job[p].due))
  <2>1. pc[p] \in {"insert", "reread", "rowAgain"} /\ JobOnSlot(last, pc[p], job[p])
    BY DEF BacklogAt, ReadOpen, ReadSameDate, Insert
  <2> QED BY <2>1, JobKnown DEF JobOnSlot
<1>2. \A step \in {"reread", "rowAgain"} : JobOnSlot(last, step, job[p])
  BY <1>1 DEF JobOnSlot
<1>3. ASSUME NEW step \in {"reread", "rowAgain"}, Goto(p, step) PROVE OnSlot(last, p)
  BY <1>2, <1>3, GotoOnSlot DEF TypeInv
<1>4. ASSUME NEW o \in OccIds \cup {NONE}, Advanced(p, o) PROVE OnSlot(last, p)
  BY <1>4, AdvancedFree DEF OnSlot, TypeInv
<1>5. ASSUME Do(p, "insert", [job[p] EXCEPT !.attempt = job[p].attempt + 1]) PROVE OnSlot(last, p)
  <2>1. PICK j : j = [job[p] EXCEPT !.attempt = job[p].attempt + 1]
    OBVIOUS
  <2>2. j.today = today /\ j.due = job[p].due
    BY <1>1, <2>1 DEF Job
  <2>3. Do(p, "insert", j)
    BY <1>5, <2>1
  <2>4. JobOnSlot(last, "insert", j)
    BY <1>1, <2>2 DEF JobOnSlot
  <2> QED BY <2>3, <2>4 DEF OnSlot
<1>6. Open \subseteq OccIds /\ Rows \subseteq OccIds
  BY DEF Open, Rows
<1>7. ReadOpen(p) => OnSlot(last, p)
  BY <1>3, <1>4, <1>6 DEF ReadOpen
<1>8. ASSUME ReadSameDate(p) PROVE OnSlot(last, p)
  <2>1. ASSUME NEW o \in Rows, Advanced(p, IF occ[o].status = "due" THEN o ELSE NONE)
        PROVE  OnSlot(last, p)
    <3>1. PICK r : r = IF occ[o].status = "due" THEN o ELSE NONE
      OBVIOUS
    <3>2. r \in OccIds \cup {NONE} /\ Advanced(p, r)
      BY <1>6, <2>1, <3>1
    <3> QED BY <1>4, <3>2
  <2> QED BY <1>5, <1>8, <2>1, DoneOnSlot DEF ReadSameDate
<1>9. Insert(p) /\ ~Opens(p) => OnSlot(last, p)
  BY <1>3, DoneOnSlot DEF Insert, Opens
<1> QED BY <1>7, <1>8, <1>9

LEMMA ProjectOnSlot ==
  ASSUME TypeInv, NEW last, NEW p \in Procs,
         \/ Unlinked(p) \/ ProjectFind(p) \/ CreateTask(p) \/ CreateTaskLost(p)
         \/ CreateTaskFails(p) \/ MirrorCreated(p) \/ Link(p) \/ Outward(p) \/ OutwardFails(p) \/ Local(p)
  PROVE  OnSlot(last, p)
<1>1. ASSUME NEW j, NEW step \in {"find", "link", "mirror"}, Do(p, step, j) PROVE OnSlot(last, p)
  BY <1>1, FreeStep DEF OnSlot
<1>2. ASSUME NEW step \in {"create", "link", "local"}, Goto(p, step) PROVE OnSlot(last, p)
  <2>1. PICK j : j = job[p]
    OBVIOUS
  <2>2. JobOnSlot(last, step, j)
    BY FreeStep
  <2> QED BY <1>2, <2>1, <2>2, GotoOnSlot DEF TypeInv
<1>3. Done(p) \/ ThenAdvance(p) => OnSlot(last, p)
  BY DoneOnSlot, ThenAdvanceOnSlot
<1>4. ASSUME NEW o, Do(p, "find", [job[p] EXCEPT !.occ = o, !.link = NONE]) PROVE OnSlot(last, p)
  <2>1. PICK j : j = [job[p] EXCEPT !.occ = o, !.link = NONE]
    OBVIOUS
  <2> QED BY <1>1, <1>4, <2>1
<1>5. ASSUME NEW t, NEW step \in {"link", "mirror"}, Do(p, step, [job[p] EXCEPT !.link = t])
      PROVE  OnSlot(last, p)
  <2>1. PICK j : j = [job[p] EXCEPT !.link = t]
    OBVIOUS
  <2> QED BY <1>1, <1>5, <2>1
<1>6. Unlinked(p) => OnSlot(last, p)
  BY <1>3, <1>4 DEF Unlinked
<1>7. ProjectFind(p) => OnSlot(last, p)
  BY <1>2, <1>3, <1>5 DEF ProjectFind
<1>8. CreateTask(p) \/ CreateTaskLost(p) \/ CreateTaskFails(p) => OnSlot(last, p)
  BY <1>3, <1>5 DEF CreateTask, CreateTaskLost, CreateTaskFails
<1>9. MirrorCreated(p) \/ Link(p) \/ Outward(p) \/ OutwardFails(p) \/ Local(p) => OnSlot(last, p)
  BY <1>2, <1>3 DEF MirrorCreated, Link, Outward, OutwardFails, Local
<1> QED BY <1>6, <1>7, <1>8, <1>9

(* No edit is under way. *)
LEMMA NoEdit ==
  ASSUME NEW last, BacklogAt(last), NEW p \in Procs
  PROVE  ~UpdateOpen(p) /\ ~UpdateHistory(p) /\ ~Move(p)
BY DEF BacklogAt, JobOnSlot, UpdateOpen, UpdateHistory, Move

(* A process that starts. *)
LEMMA AskOnSlot ==
  ASSUME TypeInv, "update" \notin Ops, NEW last, NEW p \in Procs, Ask(p)
  PROVE  OnSlot(last, p)
<1>1. ASSUME TickStart(p) PROVE OnSlot(last, p)
  <2>1. ASSUME NEW o, Do(p, "reconcile", [NoJob EXCEPT !.kind = "tick", !.today = today,
                                            !.occ = o, !.link = occ[o].link])
        PROVE  OnSlot(last, p)
    <3>1. PICK j : j = [NoJob EXCEPT !.kind = "tick", !.today = today, !.occ = o, !.link = occ[o].link]
      OBVIOUS
    <3>2. j.today = today
      BY <3>1 DEF NoJob
    <3>3. Do(p, "reconcile", j) /\ JobOnSlot(last, "reconcile", j)
      BY <2>1, <3>1, <3>2, TodayStep
    <3> QED BY <3>3 DEF OnSlot
  <2>2. ASSUME Do(p, "materialise", [NoJob EXCEPT !.kind = "tick", !.today = today])
        PROVE  OnSlot(last, p)
    <3>1. PICK j : j = [NoJob EXCEPT !.kind = "tick", !.today = today]
      OBVIOUS
    <3>2. j.today = today
      BY <3>1 DEF NoJob
    <3>3. Do(p, "materialise", j) /\ JobOnSlot(last, "materialise", j)
      BY <2>2, <3>1, <3>2, TodayStep
    <3> QED BY <3>3 DEF OnSlot
  <2> QED BY <1>1, <2>1, <2>2 DEF TickStart
<1>2. ASSUME DeleteRead(p) PROVE OnSlot(last, p)
  <2>1. PICK j : j = [NoJob EXCEPT !.kind = "delete"]
    OBVIOUS
  <2>2. Do(p, "delete", j)
    BY <1>2, <2>1 DEF DeleteRead
  <2> QED BY <2>2, FreeStep DEF OnSlot
<1>3. ASSUME NEW o \in OccIds, NEW st \in {"completed", "skipped"}, NEW m \in Members,
             NEW ago \in Backdating, EndRead(p, o, st, m, ago)
      PROVE  OnSlot(last, p)
  <2>1. PICK j : j = [NoJob EXCEPT !.kind = "end", !.occ = o, !.link = occ[o].link,
                                   !.status = st, !.at = today - ago, !.member = m]
    OBVIOUS
  <2>2. Do(p, "end", j)
    BY <1>3, <2>1 DEF EndRead
  <2> QED BY <2>2, FreeStep DEF OnSlot
<1>4. ASSUME NEW s \in Specs, CreateRoutine(p, s) PROVE OnSlot(last, p)
  <2>1. PICK j : j = [NoJob EXCEPT !.kind = "create", !.today = today]
    OBVIOUS
  <2>2. j.today = today
    BY <2>1 DEF NoJob
  <2>3. Do(p, "advance", j) /\ JobOnSlot(last, "advance", j)
    BY <1>4, <2>1, <2>2, TodayStep DEF CreateRoutine
  <2> QED BY <2>3 DEF OnSlot
<1>5. \A s \in Specs : ~UpdateRoutine(p, s)
  BY DEF UpdateRoutine
<1> QED BY <1>1, <1>2, <1>3, <1>4, <1>5 DEF Ask

(* Jobs of which no date is expected stay so whatever becomes of the history. *)
LEMMA OthersOnSlot ==
  ASSUME TypeOK, NEW last, BacklogAt(last), NEW new, today' = today, routine' = routine,
         \A due : routine # NONE /\ Pending(last, due) => Pending(new, due)',
         NEW p \in Procs, NEW step \in {"idle", "unlinked", "find", "outward", "materialise", "advance"},
         NEW j, Do(p, step, j), step \in {"materialise", "advance"} => j.today = today
  PROVE  \A q \in Procs : JobOnSlot(new, pc[q], job[q])'
<1> SUFFICES ASSUME NEW q \in Procs PROVE JobOnSlot(new, pc[q], job[q])'
  OBVIOUS
<1>1. pc \in [Procs -> Steps] /\ job \in [Procs -> Job]
  BY DEF TypeOK
<1>2. CASE q = p
  <2>1. pc'[q] = step /\ job'[q] = j
    BY <1>1, <1>2 DEF Do
  <2> QED BY <2>1 DEF JobOnSlot
<1>3. CASE q # p
  <2>1. pc'[q] = pc[q] /\ job'[q] = job[q]
    BY <1>1, <1>3 DEF Do
  <2>2. JobOnSlot(last, pc[q], job[q])
    BY DEF BacklogAt
  <2> QED BY <2>1, <2>2 DEF JobOnSlot
<1> QED BY <1>2, <1>3

(* Where a process goes once it has ended an occurrence. *)
LEMMA EndedGoesOn ==
  ASSUME TypeInv, NEW last, BacklogAt(last), NEW p \in Procs, Reconciled(p) \/ End(p)
  PROVE  \E step \in {"outward", "materialise", "advance"} : \E j :
           Do(p, step, j) /\ (step \in {"materialise", "advance"} => j.today = today)
<1>1. PICK j : j = job[p]
  OBVIOUS
<1>2. Reconciled(p) => j.today = today
  BY <1>1 DEF Reconciled, BacklogAt, JobOnSlot
<1>3. \A step : Goto(p, step) => Do(p, step, j)
  BY <1>1, GotoIsDo DEF TypeInv
<1>4. CASE Reconciled(p)
  <2>1. Do(p, "materialise", j)
    BY <1>3, <1>4 DEF Reconciled
  <2> QED BY <1>2, <1>4, <2>1
<1>5. CASE Goto(p, "outward")
  <2>1. Do(p, "outward", j)
    BY <1>3, <1>5
  <2> QED BY <2>1
<1>6. CASE ThenAdvance(p)
  <2>1. PICK k \in Job : Do(p, "advance", k) /\ k.today = today
    BY <1>6, ThenAdvanceIs
  <2> QED BY <2>1
<1> QED BY <1>4, <1>5, <1>6 DEF End

LEMMA EndOnSlot ==
  ASSUME TypeInv, FixedGrids, OneOpen, NEW last \in Int \cup {NONE}, BacklogAt(last),
         NEW p \in Procs, Reconciled(p) \/ End(p)
  PROVE  OneOpen' /\ \E new \in Int \cup {NONE} : BacklogAt(new)'
<1>1. Terminate(p) /\ job[p].occ \in OccIds /\ job[p].status \in {"completed", "skipped"}
  BY RowWorkers
<1>2. PICK o : o = job[p].occ
  OBVIOUS
<1>3. \A q \in OccIds :
        /\ occ'[q] = NONE <=> occ[q] = NONE
        /\ occ[q] # NONE => /\ occ'[q].dueOn = occ[q].dueOn
                            /\ occ'[q].status = IF q = o THEN job[p].status ELSE occ[q].status
  BY <1>1, <1>2, RowsEnded DEF TypeInv
<1>4. today' = today /\ routine' = routine /\ TypeOK /\ o \in OccIds
  BY <1>1, <1>2 DEF Reconciled, End, outside, TypeInv
<1>5. PICK step, j :
        /\ step \in {"outward", "materialise", "advance"}
        /\ Do(p, step, j) /\ (step \in {"materialise", "advance"} => j.today = today)
  BY EndedGoesOn
<1>6. CASE ~IsOpen(o)
  <2>1. HistorySame
    BY <1>1, <1>3, <1>4, <1>6 DEF HistorySame, IsOpen
  <2>2. JobOnSlot(last, step, j)
    BY <1>5 DEF JobOnSlot
  <2> QED BY <1>4, <1>5, <2>1, <2>2, OnSlotStep
<1>7. CASE IsOpen(o)
  <2>1. \A q \in OccIds : /\ ~IsOpen(q)'
                          /\ IsOver(q)' <=> IsOver(q) \/ q = o
                          /\ IsOver(q)' => occ'[q].dueOn = occ[q].dueOn
    <3>1. \A q \in OccIds : IsOpen(q) => q = o
      BY <1>4, <1>7 DEF OneOpen
    <3> QED BY <1>1, <1>3, <1>7, <3>1 DEF IsOpen, IsOver
  <2>2. PICK e : e = occ[o].dueOn
    OBVIOUS
  <2>3. e \in Int /\ (last # NONE => last < e) /\ (routine # NONE => e <= NextDueOn(routine, last, today))
    BY <1>4, <1>7, <2>2 DEF IsOpen, TypeOK, Occ, BacklogAt, OpenOnSlot
  <2>4. \A q \in OccIds : IsOver(q) => last \in Int /\ occ[q].dueOn \in Int /\ occ[q].dueOn <= last
    BY <1>4 DEF BacklogAt, LastDate, IsOver, TypeOK, Occ
  <2>5. LastDate(e)'
    <3>1. IsOver(o)' /\ occ'[o].dueOn = e
      BY <1>4, <2>1, <2>2
    <3>2. ASSUME NEW q \in OccIds, IsOver(q)' PROVE occ'[q].dueOn <= e
      BY <2>1, <2>2, <2>3, <2>4, <3>2
    <3> QED BY <1>4, <2>3, <3>1, <3>2 DEF LastDate
  <2>6. ASSUME NEW due, routine # NONE, Pending(last, due) PROVE Pending(e, due)'
    <3>1. CASE \E q \in OccIds : IsOver(q) /\ occ[q].dueOn = due
      BY <2>1, <3>1 DEF Pending
    <3>2. CASE due = NextDueOn(routine, last, today)
      <4>1. routine \in Specs /\ today \in Int
        BY <1>4, <2>6 DEF TypeOK, Days
      <4>2. due \in Int
        BY <3>2, <4>1, GridSlots
      <4>3. CASE e = due
        BY <1>4, <2>1, <2>2, <4>3 DEF Pending
      <4>4. CASE e < due
        <5>1. NextDueOn(routine, e, today) = due
          <6>1. last # NONE => last <= e
            BY <2>3
          <6> QED BY <2>3, <3>2, <4>1, <4>4, <6>1, GridSlots
        <5> QED BY <1>4, <5>1 DEF Pending
      <4> QED BY <2>3, <2>6, <3>2, <4>2, <4>3, <4>4
    <3> QED BY <2>6, <3>1, <3>2 DEF Pending
  <2>7. \A q \in Procs : JobOnSlot(e, pc[q], job[q])'
    BY <1>4, <1>5, <2>6, OthersOnSlot
  <2>8. OneOpen' /\ \A q \in OccIds : OpenOnSlot(e, q)'
    BY <2>1 DEF OneOpen, OpenOnSlot
  <2>9. BacklogAt(e)'
    BY <2>5, <2>7, <2>8 DEF BacklogAt
  <2> QED BY <2>3, <2>8, <2>9
<1> QED BY <1>6, <1>7

LEMMA OpensOnSlot ==
  ASSUME TypeInv, RowsInOrder, FixedGrids, NEW last \in Int \cup {NONE}, BacklogAt(last),
         NEW p \in Procs, Opens(p)
  PROVE  OneOpen' /\ BacklogAt(last)'
<1>1. /\ made + 1 \in OccIds /\ job[p].due \in Int
      /\ \A q \in OccIds : occ'[q] = IF q = made + 1 THEN NewOcc(job[p].due) ELSE occ[q]
      /\ NewOcc(job[p].due) # NONE
  BY RowsOpened
<1>2. PICK n, due : n = made + 1 /\ due = job[p].due
  OBVIOUS
<1>3. today' = today /\ routine' = routine /\ routine # NONE /\ TypeOK /\ ~Conflict(due)
  BY <1>2 DEF Opens, outside, TypeInv
<1>4. NewOcc(due).status = "due" /\ NewOcc(due).dueOn = due
  BY <1>1, <1>2, NewOccType
<1>5. occ[n] = NONE
  BY <1>1, <1>2, <1>3 DEF RowsInOrder, OccIds, TypeOK
<1>6. \A q \in OccIds : ~IsOpen(q) /\ (IsOver(q) => occ[q].dueOn # due)
  BY <1>3 DEF Conflict, Open, Rows, IsOpen, IsOver
<1>7. \A q \in OccIds : /\ IsOpen(q)' <=> q = n
                        /\ IsOver(q)' <=> IsOver(q)
                        /\ IsOver(q) => occ'[q].dueOn = occ[q].dueOn
  BY <1>1, <1>2, <1>4, <1>5, <1>6 DEF IsOpen, IsOver
<1>8. due = NextDueOn(routine, last, today)
  <2>1. Pending(last, due)
    BY <1>2, <1>3 DEF BacklogAt, JobOnSlot, Opens
  <2> QED BY <1>6, <2>1 DEF Pending
<1>9. LastDate(last)'
  BY <1>7 DEF BacklogAt, LastDate
<1>10. \A d : Pending(last, d) => Pending(last, d)'
  BY <1>3, <1>7 DEF Pending
<1>11. PICK step \in {"idle", "unlinked", "find"}, j \in Job : Do(p, step, j)
  BY <1>1, <1>3, AdvancedIs DEF Opens
<1>12. \A q \in Procs : JobOnSlot(last, pc[q], job[q])'
  BY <1>3, <1>10, <1>11, OthersOnSlot
<1>13. ASSUME NEW q \in OccIds, IsOpen(q)' PROVE OpenOnSlot(last, q)'
  <2>1. occ'[q].dueOn = due
    BY <1>1, <1>2, <1>4, <1>7, <1>13
  <2>2. due \in Int /\ (last # NONE => last < due)
    <3>1. routine \in Specs /\ today \in Int
      BY <1>3 DEF TypeOK, Days
    <3> QED BY <1>8, <3>1, GridSlots
  <2> QED BY <1>3, <1>8, <2>1, <2>2 DEF OpenOnSlot
<1>14. \A q \in OccIds : OpenOnSlot(last, q)'
  BY <1>13 DEF OpenOnSlot
<1>15. OneOpen'
  BY <1>7 DEF OneOpen
<1> QED BY <1>9, <1>12, <1>14, <1>15 DEF BacklogAt

(* The history is gone; nobody inserts into a routine that is. *)
LEMMA DeleteOnSlot ==
  ASSUME TypeInv, NEW last, BacklogAt(last), NEW p \in Procs, Delete(p)
  PROVE  OneOpen' /\ BacklogAt(NONE)'
<1>1. \A q \in OccIds : occ'[q] = NONE
  BY DEF Delete
<1>2. \A q \in OccIds : ~IsOpen(q)' /\ ~IsOver(q)'
  BY <1>1 DEF IsOpen, IsOver
<1>3. routine' = NONE /\ today' = today /\ Do(p, "idle", NoJob)
  BY DEF Delete, outside, Done
<1>4. \A q \in Procs : JobOnSlot(NONE, pc[q], job[q])'
  <2> SUFFICES ASSUME NEW q \in Procs PROVE JobOnSlot(NONE, pc[q], job[q])'
    OBVIOUS
  <2>1. pc \in [Procs -> Steps] /\ job \in [Procs -> Job] /\ JobOnSlot(last, pc[q], job[q])
    BY DEF TypeInv, TypeOK, BacklogAt
  <2>2. \/ pc'[q] = "idle"
        \/ pc'[q] = pc[q] /\ job'[q] = job[q]
    BY <1>3, <2>1 DEF Do
  <2> QED BY <1>3, <2>1, <2>2 DEF JobOnSlot
<1>5. OneOpen' /\ LastDate(NONE)' /\ \A q \in OccIds : OpenOnSlot(NONE, q)'
  BY <1>2 DEF OneOpen, LastDate, OpenOnSlot
<1> QED BY <1>4, <1>5 DEF BacklogAt

(* A routine is created on empty tables, while nothing else runs. *)
LEMMA CreateOnSlot ==
  ASSUME TypeInv, RowsInOrder, NEW last, NEW p \in Procs, NEW s \in Specs, CreateRoutine(p, s)
  PROVE  OneOpen' /\ BacklogAt(NONE)'
<1>1. occ' = occ /\ today' = today /\ made = 0 /\ \A q \in Procs : pc[q] = "idle"
  BY DEF CreateRoutine, outside
<1>2. \A q \in OccIds : ~IsOpen(q)' /\ ~IsOver(q)'
  BY <1>1 DEF IsOpen, IsOver, RowsInOrder, OccIds
<1>3. PICK j : j = [NoJob EXCEPT !.kind = "create", !.today = today]
  OBVIOUS
<1>4. j.today = today /\ Do(p, "advance", j)
  BY <1>3 DEF NoJob, CreateRoutine
<1>5. \A q \in Procs : JobOnSlot(NONE, pc[q], job[q])'
  <2> SUFFICES ASSUME NEW q \in Procs PROVE JobOnSlot(NONE, pc[q], job[q])'
    OBVIOUS
  <2>1. pc \in [Procs -> Steps] /\ job \in [Procs -> Job]
    BY DEF TypeInv, TypeOK
  <2>2. (pc'[q] = "advance" /\ job'[q] = j) \/ pc'[q] = "idle"
    BY <1>1, <1>4, <2>1 DEF Do
  <2> QED BY <1>1, <1>4, <2>2 DEF JobOnSlot
<1>6. OneOpen' /\ LastDate(NONE)' /\ \A q \in OccIds : OpenOnSlot(NONE, q)'
  BY <1>2 DEF OneOpen, LastDate, OpenOnSlot
<1> QED BY <1>5, <1>6 DEF BacklogAt

(* Midnight, or a restart: nothing is under way, and no slot goes back. *)
LEMMA QuietOnSlot ==
  ASSUME TypeInv, FixedGrids, OneOpen, NEW last \in Int \cup {NONE}, BacklogAt(last),
         UNCHANGED tables, \A q \in Procs : pc'[q] = "idle",
         today' \in Int /\ today <= today'
  PROVE  OneOpen' /\ BacklogAt(last)'
<1>1. occ' = occ /\ routine' = routine /\ today \in Int /\ routine \in Specs \cup {NONE}
  BY DEF tables, TypeInv, TypeOK, Days
<1>2. OneOpen' /\ LastDate(last)'
  BY <1>1 DEF OneOpen, BacklogAt, LastDate, IsOpen, IsOver
<1>3. \A q \in Procs : JobOnSlot(last, pc[q], job[q])'
  BY DEF JobOnSlot
<1>4. ASSUME NEW q \in OccIds, IsOpen(q)' PROVE OpenOnSlot(last, q)'
  <2>1. IsOpen(q) /\ occ'[q].dueOn = occ[q].dueOn /\ occ[q].dueOn \in Int
    BY <1>1, <1>4 DEF IsOpen, TypeInv, TypeOK, Occ
  <2>2. /\ last # NONE => last < occ[q].dueOn
        /\ routine # NONE => occ[q].dueOn <= NextDueOn(routine, last, today)
    BY <2>1 DEF BacklogAt, OpenOnSlot
  <2>3. ASSUME routine # NONE
        PROVE  /\ NextDueOn(routine, last, today) <= NextDueOn(routine, last, today')
               /\ NextDueOn(routine, last, today) \in Int /\ NextDueOn(routine, last, today') \in Int
    <3>1. PICK d : d = today'
      OBVIOUS
    <3> QED BY <1>1, <2>3, <3>1, GridSlots
  <2>4. routine # NONE => occ[q].dueOn <= NextDueOn(routine, last, today')
    BY <2>1, <2>2, <2>3
  <2> QED BY <1>1, <2>1, <2>2, <2>4 DEF OpenOnSlot
<1>5. \A q \in OccIds : OpenOnSlot(last, q)'
  BY <1>4 DEF OpenOnSlot
<1> QED BY <1>2, <1>3, <1>5 DEF BacklogAt

LEMMA ListOnSlot ==
  ASSUME OneOpen, NEW last, BacklogAt(last), UNCHANGED <<routine, occ, today, pc, job>>
  PROVE  OneOpen' /\ BacklogAt(last)'
<1>1. HistorySame
  BY NothingMoved
<1>2. LastDate(last)' /\ OneOpen'
  BY <1>1, SameDates DEF BacklogAt, OneOpen
<1>3. \A q \in Procs : JobOnSlot(last, pc[q], job[q])'
  BY DEF BacklogAt, JobOnSlot, Pending, IsOver
<1>4. \A q \in OccIds : OpenOnSlot(last, q)'
  BY DEF BacklogAt, OpenOnSlot, IsOpen
<1> QED BY <1>2, <1>3, <1>4 DEF BacklogAt

LEMMA BacklogKept ==
  ASSUME TypeInv, RowsInOrder, FixedGrids, {"update", "midnight"} \cap Ops = {}, BacklogInv, [Next]_vars
  PROVE  BacklogInv'
<1>1. OneOpen
  BY DEF BacklogInv
<1>2. PICK last \in Int \cup {NONE} : BacklogAt(last)
  BY BacklogFor
<1> SUFFICES OneOpen' /\ \E new \in Int \cup {NONE} : BacklogAt(new)'
  BY BacklogForNext
<1>t. TypeOK
  BY DEF TypeInv
<1>3. ASSUME NEW p \in Procs, OnSlot(last, p), HistorySame
      PROVE  OneOpen' /\ BacklogAt(last)'
  <2>1. PICK step, j : Do(p, step, j) /\ JobOnSlot(last, step, j)
    BY <1>3 DEF OnSlot
  <2> QED BY <1>1, <1>2, <1>3, <1>t, <2>1, OnSlotStep
<1>4. ASSUME NEW p \in Procs, Work(p)
      PROVE  OneOpen' /\ \E new \in Int \cup {NONE} : BacklogAt(new)'
  <2>1. CASE \/ Reconcile(p) \/ Relink(p) \/ Materialise(p) \/ Advance(p) \/ AdvanceHistory(p)
             \/ ReadOpen(p) \/ ReadSameDate(p) \/ (Insert(p) /\ ~Opens(p))
             \/ Unlinked(p) \/ ProjectFind(p) \/ CreateTask(p) \/ CreateTaskLost(p)
             \/ CreateTaskFails(p) \/ MirrorCreated(p) \/ Outward(p) \/ OutwardFails(p) \/ Local(p)
    <3>1. OnSlot(last, p)
      BY <1>2, <2>1, ReconcileOnSlot, AdvanceOnSlot, RetryOnSlot, ProjectOnSlot
    <3>2. UNCHANGED <<routine, occ, today>>
      BY <2>1 DEF Reconcile, Relink, Materialise, Advance, AdvanceHistory, ReadOpen, ReadSameDate,
             Insert, Opens, Unlinked, ProjectFind, NewTask, CreateTask, CreateTaskLost,
             CreateTaskFails, MirrorCreated,
             Outward, OutwardFails, Local, tables, outside
    <3> QED BY <1>2, <1>3, <3>1, <3>2, NothingMoved
  <2>2. CASE Relinked(p) \/ Link(p)
    <3>1. OnSlot(last, p)
      BY <1>2, <2>2, ReconcileOnSlot, ProjectOnSlot
    <3>2. job[p].occ \in OccIds /\ job[p].link \in TaskIds /\ SetProjection(job[p].occ, job[p].link)
      BY <2>2, RowWorkers
    <3>3. routine' = routine /\ today' = today
      BY <2>2 DEF Relinked, Link, outside
    <3>4. HistorySame
      BY <1>t, <3>2, <3>3, RowsLinked DEF HistorySame
    <3> QED BY <1>2, <1>3, <3>1, <3>4
  <2>3. CASE Reconciled(p) \/ End(p)
    BY <1>1, <1>2, <2>3, EndOnSlot
  <2>4. CASE Opens(p)
    BY <1>2, <2>4, OpensOnSlot
  <2>5. CASE Delete(p)
    <3>1. NONE \in Int \cup {NONE}
      OBVIOUS
    <3> QED BY <1>2, <2>5, <3>1, DeleteOnSlot
  <2>6. ~UpdateOpen(p) /\ ~UpdateHistory(p) /\ ~Move(p)
    BY <1>2, NoEdit
  <2> QED BY <1>4, <2>1, <2>2, <2>3, <2>4, <2>5, <2>6 DEF Work
<1>5. ASSUME NEW p \in Procs, Ask(p)
      PROVE  OneOpen' /\ \E new \in Int \cup {NONE} : BacklogAt(new)'
  <2>1. CASE \E s \in Specs : CreateRoutine(p, s)
    <3>1. NONE \in Int \cup {NONE}
      OBVIOUS
    <3> QED BY <2>1, <3>1, CreateOnSlot
  <2>2. CASE ~\E s \in Specs : CreateRoutine(p, s)
    <3>1. OnSlot(last, p)
      BY <1>5, AskOnSlot
    <3>2. \A s \in Specs : ~UpdateRoutine(p, s)
      BY DEF UpdateRoutine
    <3>3. UNCHANGED <<routine, occ, today>>
      BY <1>5, <2>2, <3>2 DEF Ask, TickStart, DeleteRead, EndRead, tables, outside
    <3> QED BY <1>2, <1>3, <3>1, <3>3, NothingMoved
  <2> QED BY <2>1, <2>2
<1>6. ASSUME NEW t \in TaskIds, NEW u \in TaskIds,
             MemberTicks(t) \/ SyncTask(t) \/ DropMirror(t) \/ TaskMoves(t, u)
      PROVE  OneOpen' /\ BacklogAt(last)'
  <2>1. UNCHANGED <<routine, occ, today, pc, job>>
    BY <1>6 DEF MemberTicks, SyncTask, DropMirror, TaskMoves, tables
  <2> QED BY <1>1, <1>2, <2>1, ListOnSlot
<1>7. ASSUME NextDay PROVE OneOpen' /\ BacklogAt(last)'
  <2>1. UNCHANGED tables /\ (\A q \in Procs : pc'[q] = "idle") /\ today' = today + 1 /\ today \in Int
    BY <1>7 DEF NextDay, TypeInv, TypeOK, Days
  <2>2. today' \in Int /\ today <= today'
    BY <2>1
  <2> QED BY <1>1, <1>2, <2>1, <2>2, QuietOnSlot
<1>8. ASSUME Crash PROVE OneOpen' /\ BacklogAt(last)'
  <2>1. UNCHANGED tables /\ (\A q \in Procs : pc'[q] = "idle") /\ today' = today /\ today \in Int
    BY <1>8 DEF Crash, outside, TypeInv, TypeOK, Days
  <2>2. today' \in Int /\ today <= today'
    BY <2>1
  <2> QED BY <1>1, <1>2, <2>1, <2>2, QuietOnSlot
<1>9. ASSUME UNCHANGED vars PROVE OneOpen' /\ BacklogAt(last)'
  <2>1. UNCHANGED <<routine, occ, today, pc, job>>
    BY <1>9 DEF vars
  <2> QED BY <1>1, <1>2, <2>1, ListOnSlot
<1>10. \A t \in TaskIds : MemberTicks(t) \/ SyncTask(t) \/ DropMirror(t) => OneOpen' /\ BacklogAt(last)'
  BY <1>6
<1> QED BY <1>4, <1>5, <1>6, <1>7, <1>8, <1>9, <1>10 DEF Next

(* The chore that is due lies after everything done or skipped, however many    *)
(* ticks, completions, skips, deletions and crashes race over a routine with a  *)
(* fixed grid ("ONE overdue chore, never a backlog").  Edits are left out: three *)
(* calls, one of them an edit that moves a row another has just completed, do    *)
(* bring back a slot already done; and so is a midnight inside a call.           *)
THEOREM NeverABacklog ==
  ASSUME FixedGrids, {"update", "midnight"} \cap Ops = {}
  PROVE  Spec => []NoBacklog
<1>1. RecurrenceAnswers
  BY GridsAnswer
<1>2. Init => BacklogInv
  <2> SUFFICES ASSUME Init PROVE BacklogInv
    OBVIOUS
  <2>1. \A q \in OccIds : ~IsOpen(q) /\ ~IsOver(q)
    BY DEF Init, IsOpen, IsOver
  <2>2. \A q \in Procs : pc[q] = "idle"
    BY DEF Init
  <2>3. BacklogAt(NONE) /\ OneOpen
    BY <2>1, <2>2 DEF BacklogAt, OneOpen, LastDate, OpenOnSlot, JobOnSlot
  <2> QED BY <2>3 DEF BacklogInv
<1>3. RowsInv /\ BacklogInv /\ [Next]_vars => BacklogInv'
  BY BacklogKept DEF RowsInv
<1>4. RowsInv /\ BacklogInv => NoBacklog
  <2> SUFFICES ASSUME RowsInv, BacklogInv, NEW o \in Open, NEW q \in Terminal
               PROVE  occ[q].dueOn < occ[o].dueOn
    BY DEF NoBacklog
  <2>1. PICK last \in Int \cup {NONE} : BacklogAt(last)
    BY BacklogFor
  <2>2. o \in OccIds /\ q \in OccIds /\ IsOpen(o) /\ IsOver(q)
    BY OpenOrOver
  <2>3. occ[o].dueOn \in Int /\ occ[q].dueOn \in Int
    BY <2>2 DEF RowsInv, TypeInv, TypeOK, Occ, IsOpen, IsOver
  <2>4. last \in Int /\ occ[q].dueOn <= last
    BY <2>1, <2>2 DEF BacklogAt, LastDate
  <2>5. last < occ[o].dueOn
    BY <2>1, <2>2, <2>4 DEF BacklogAt, OpenOnSlot
  <2> QED BY <2>3, <2>4, <2>5
<1>5. Spec => []RowsInv
  BY <1>1, RowsInvHolds
<1> QED BY <1>2, <1>3, <1>4, <1>5, PTL DEF Spec
-----------------------------------------------------------------------------
(* ------------------------------------------------------ at most one task *)
OneProcess == \A p, q \in Procs : p = q

LEMMA OneOpenKept ==
  ASSUME TypeInv, RowsInOrder, OneOpen, [Next]_vars
  PROVE  OneOpen'
<1>1. ASSUME \A q \in OccIds : IsOpen(q)' => IsOpen(q) PROVE OneOpen'
  BY <1>1 DEF OneOpen
<1>2. CASE RowsStand
  BY <1>1, <1>2 DEF RowsStand, IsOpen
<1>3. ASSUME NEW p \in Procs, Relinked(p) \/ Link(p) PROVE OneOpen'
  <2>1. job[p].occ \in OccIds /\ job[p].link \in TaskIds /\ SetProjection(job[p].occ, job[p].link)
    BY <1>3, RowWorkers
  <2>2. \A q \in OccIds : /\ occ'[q] = NONE <=> occ[q] = NONE
                          /\ occ[q] # NONE => occ'[q].status = occ[q].status
    BY <2>1, RowsLinked DEF TypeInv
  <2> QED BY <1>1, <2>2 DEF IsOpen
<1>4. ASSUME NEW p \in Procs, Reconciled(p) \/ End(p) PROVE OneOpen'
  <2>1. Terminate(p) /\ job[p].occ \in OccIds /\ job[p].status \in {"completed", "skipped"}
    BY <1>4, RowWorkers
  <2>2. \A q \in OccIds : /\ occ'[q] = NONE <=> occ[q] = NONE
                          /\ occ[q] # NONE => occ'[q].status = IF q = job[p].occ THEN job[p].status
                                                               ELSE occ[q].status
    BY <2>1, RowsEnded DEF TypeInv
  <2> QED BY <1>1, <2>1, <2>2 DEF IsOpen
<1>5. ASSUME NEW p \in Procs, Opens(p) PROVE OneOpen'
  <2>1. \A q \in OccIds : occ'[q] = IF q = made + 1 THEN NewOcc(job[p].due) ELSE occ[q]
    BY <1>5, RowsOpened
  <2>2. \A q \in OccIds : ~IsOpen(q)
    BY <1>5 DEF Opens, Conflict, Open, Rows, IsOpen
  <2> QED BY <2>1, <2>2 DEF OneOpen, IsOpen
<1>6. ASSUME NEW p \in Procs, Move(p) PROVE OneOpen'
  BY <1>1, <1>6, RowsMoved DEF IsOpen
<1>7. ASSUME NEW p \in Procs, Delete(p) PROVE OneOpen'
  BY <1>1, <1>7 DEF Delete, IsOpen
<1> QED BY <1>2, <1>3, <1>4, <1>5, <1>6, <1>7, StepOnRows

(* A step of the one process, and what holds of the rows and the job after it. *)
LEMMA OneTaskStep ==
  ASSUME TypeOK, OneProcess, LiveOnce', NEW p \in Procs, NEW step, NEW j, Do(p, step, j),
         \A o \in OccIds :
           /\ o > made' => Untasked(o)'
           /\ occ'[o] # NONE =>
                \/ occ'[o].link # NONE \/ Untasked(o)' \/ (step \in {"mirror", "link"} /\ j.occ = o),
         OneJob(step, j)'
  PROVE  OneTaskInv'
<1>1. pc'[p] = step /\ job'[p] = j
  BY DEF TypeOK, Do
<1>2. \A q \in Procs : OneJob(pc[q], job[q])'
  <2> SUFFICES ASSUME NEW q \in Procs PROVE OneJob(pc[q], job[q])'
    OBVIOUS
  <2>1. q = p
    BY DEF OneProcess
  <2> QED BY <1>1, <2>1 DEF OneJob
<1>3. \A o \in OccIds : OneTaskFor(o)'
  BY <1>1 DEF OneTaskFor
<1> QED BY <1>2, <1>3 DEF OneTaskInv

(* Before a task is made nothing is unlinked that has one. *)
LEMMA Unmade ==
  ASSUME OneProcess, OneTaskInv, NEW p \in Procs, pc[p] \notin {"mirror", "link"}, NEW o \in OccIds
  PROVE  /\ o > made => Untasked(o)
         /\ occ[o] # NONE => occ[o].link # NONE \/ Untasked(o)
<1>1. OneTaskFor(o) /\ \A q \in Procs : q = p
  BY DEF OneTaskInv, OneProcess
<1> QED BY <1>1 DEF OneTaskFor

(* A step of the one process that leaves rows and tasks alone. *)
LEMMA OneTaskJob ==
  ASSUME TypeOK, OneProcess, OneTaskInv, UNCHANGED <<occ, made, task>>,
         NEW p \in Procs, pc[p] \notin {"mirror", "link"},
         NEW step, NEW j, Do(p, step, j), OneJob(step, j)
  PROVE  OneTaskInv'
<1>1. LiveOnce'
  BY DEF OneTaskInv, LiveOnce, Live
<1>2. \A o \in OccIds :
           /\ o > made' => Untasked(o)'
           /\ occ'[o] # NONE => occ'[o].link # NONE \/ Untasked(o)'
  BY Unmade DEF Untasked
<1>3. OneJob(step, j)'
  BY DEF OneJob, Untasked, IsOpen
<1> QED BY <1>1, <1>2, <1>3, OneTaskStep

FreeOfTask == {"idle", "delete", "updOpen", "updHistory", "move", "link"}

LEMMA FreeJob == \A j, step : step \in FreeOfTask => OneJob(step, j)
BY DEF FreeOfTask, OneJob

LEMMA OneTaskFree ==
  ASSUME TypeOK, OneProcess, OneTaskInv, UNCHANGED <<occ, made, task>>,
         NEW p \in Procs, pc[p] \notin {"mirror", "link"},
         NEW step \in FreeOfTask, NEW j, Do(p, step, j)
  PROVE  OneTaskInv'
BY FreeJob, OneTaskJob

LEMMA OneTaskGoto ==
  ASSUME TypeOK, OneProcess, OneTaskInv, UNCHANGED <<occ, made, task>>,
         NEW p \in Procs, pc[p] \notin {"mirror", "link"},
         NEW step, Goto(p, step), OneJob(step, job[p])
  PROVE  OneTaskInv'
<1>1. PICK j : j = job[p]
  OBVIOUS
<1>2. Do(p, step, j)
  BY <1>1, GotoIsDo
<1> QED BY <1>1, <1>2, OneTaskJob

LEMMA OneTaskDone ==
  ASSUME TypeOK, OneProcess, OneTaskInv, UNCHANGED <<occ, made, task>>,
         NEW p \in Procs, pc[p] \notin {"mirror", "link"}, Done(p)
  PROVE  OneTaskInv'
<1>1. Do(p, "idle", NoJob) /\ "idle" \in FreeOfTask
  BY DEF Done, FreeOfTask
<1> QED BY <1>1, OneTaskFree

(* A request that has ended an occurrence is answered no other one. *)
LEMMA OneTaskAdvanced ==
  ASSUME TypeOK, OneProcess, OneTaskInv, UNCHANGED <<occ, made, task>>,
         NEW p \in Procs, pc[p] \in {"advance", "history", "reread", "rowAgain"},
         NEW o \in OccIds \cup {NONE}, o # NONE => IsOpen(o), Advanced(p, o)
  PROVE  OneTaskInv'
<1>1. OneJob(pc[p], job[p])
  BY DEF OneTaskInv
<1>2. PICK step \in {"idle", "unlinked", "find"}, j \in Job :
        /\ Do(p, step, j)
        /\ step = "unlinked" => job[p].kind = "tick" /\ j = job[p]
        /\ step = "find" => o # NONE /\ job[p].kind = "end" /\ j.occ = o
  BY AdvancedIs
<1>3. step # "find"
  BY <1>1, <1>2 DEF OneJob, OccIds
<1>4. OneJob(step, j)
  BY <1>2, <1>3 DEF OneJob
<1> QED BY <1>2, <1>4, OneTaskJob

LEMMA TickOneTask ==
  ASSUME TypeInv, OneProcess, OneTaskInv, NEW p \in Procs,
         Reconcile(p) \/ Relink(p) \/ Materialise(p)
  PROVE  OneTaskInv'
<1>1. TypeOK /\ job[p] \in Job /\ UNCHANGED <<occ, made, task>> /\ pc[p] \notin {"mirror", "link"}
  BY JobKnown DEF TypeInv, Reconcile, Relink, Materialise, tables, outside
<1>2. job[p].kind = "tick"
  BY DEF OneTaskInv, OneJob, Reconcile, Relink, Materialise
<1>3. ASSUME NEW step \in {"relink", "materialise", "advance", "unlinked"}, Goto(p, step) PROVE OneTaskInv'
  <2>1. OneJob(step, job[p])
    BY <1>2 DEF OneJob
  <2> QED BY <1>1, <1>3, <2>1, OneTaskGoto
<1>4. ASSUME NEW t, NEW step \in {"reconciled", "relinked"}, Mirrored(p, t, step) PROVE OneTaskInv'
  <2>1. PICK j : j = [job[p] EXCEPT !.link = t, !.at = mirror[t].at,
                             !.status = "completed", !.member = NONE]
    OBVIOUS
  <2>2. j.kind = "tick"
    BY <1>1, <1>2, <2>1 DEF Job
  <2>3. Do(p, step, j)
    BY <1>4, <2>1 DEF Mirrored
  <2>4. OneJob(step, j)
    BY <2>2 DEF OneJob
  <2> QED BY <1>1, <2>3, <2>4, OneTaskJob
<1>5. Reconcile(p) => OneTaskInv'
  BY <1>3, <1>4 DEF Reconcile
<1>6. Relink(p) => OneTaskInv'
  BY <1>3, <1>4 DEF Relink
<1>7. Materialise(p) => OneTaskInv'
  BY <1>3 DEF Materialise
<1> QED BY <1>5, <1>6, <1>7

LEMMA AdvanceOneTask ==
  ASSUME TypeInv, OneProcess, OneTaskInv, NEW p \in Procs,
         Advance(p) \/ AdvanceHistory(p) \/ ReadOpen(p) \/ ReadSameDate(p) \/ (Insert(p) /\ ~Opens(p))
  PROVE  OneTaskInv'
<1>1. TypeOK /\ job[p] \in Job /\ UNCHANGED <<occ, made, task>> /\ pc[p] \notin {"mirror", "link"}
      /\ pc[p] \in {"advance", "history", "insert", "reread", "rowAgain"}
  BY JobKnown DEF TypeInv, Advance, AdvanceHistory, ReadOpen, ReadSameDate, Insert, Opens,
     tables, outside
<1>2. job[p].kind = "end" => \A o \in OccIds : ~IsOpen(o)
  BY <1>1 DEF OneTaskInv, OneJob
<1>3. Done(p) => OneTaskInv'
  BY <1>1, OneTaskDone
<1>4. ASSUME NEW step \in {"history", "insert", "reread", "rowAgain"}, NEW j, j.kind = job[p].kind,
             Do(p, step, j)
      PROVE  OneTaskInv'
  <2>1. OneJob(step, j)
    BY <1>2, <1>4 DEF OneJob
  <2> QED BY <1>1, <1>4, <2>1, OneTaskJob
<1>5. ASSUME NEW step \in {"reread", "rowAgain"}, Goto(p, step) PROVE OneTaskInv'
  <2>1. OneJob(step, job[p])
    BY <1>2 DEF OneJob
  <2> QED BY <1>1, <1>5, <2>1, OneTaskGoto
<1>6. ASSUME NEW o \in OccIds \cup {NONE}, o # NONE => IsOpen(o), Advanced(p, o), pc[p] # "insert"
      PROVE  OneTaskInv'
  BY <1>1, <1>6, OneTaskAdvanced
<1>7. \A o \in Open : o \in OccIds /\ IsOpen(o)
  BY OpenOrOver
<1>8. ASSUME Advance(p) PROVE OneTaskInv'
  <2>1. ASSUME Do(p, "history", [job[p] EXCEPT !.spec = routine]) PROVE OneTaskInv'
    <3>1. PICK j : j = [job[p] EXCEPT !.spec = routine]
      OBVIOUS
    <3>2. j.kind = job[p].kind
      BY <1>1, <3>1 DEF Job
    <3> QED BY <1>4, <2>1, <3>1, <3>2
  <2> QED BY <1>6, <1>7, <1>8, <2>1 DEF Advance
<1>9. ASSUME AdvanceHistory(p) PROVE OneTaskInv'
  <2>1. ASSUME NEW due, Do(p, "insert", [job[p] EXCEPT !.due = due, !.attempt = 1]) PROVE OneTaskInv'
    <3>1. PICK j : j = [job[p] EXCEPT !.due = due, !.attempt = 1]
      OBVIOUS
    <3>2. j.kind = job[p].kind
      BY <1>1, <3>1 DEF Job
    <3> QED BY <1>4, <2>1, <3>1, <3>2
  <2>2. ASSUME Do(p, "insert", [job[p] EXCEPT !.due = DueAfterHistory(job[p].spec, job[p].today),
                                              !.attempt = 1])
        PROVE  OneTaskInv'
    <3>1. PICK due : due = DueAfterHistory(job[p].spec, job[p].today)
      OBVIOUS
    <3> QED BY <2>1, <2>2, <3>1
  <2> QED BY <1>6, <1>9, <2>2 DEF AdvanceHistory
<1>10. ASSUME ReadOpen(p) PROVE OneTaskInv'
  BY <1>5, <1>6, <1>7, <1>10 DEF ReadOpen
<1>11. ASSUME ReadSameDate(p) PROVE OneTaskInv'
  <2>1. ASSUME NEW o \in Rows, Advanced(p, IF occ[o].status = "due" THEN o ELSE NONE)
        PROVE  OneTaskInv'
    <3>1. PICK r : r = IF occ[o].status = "due" THEN o ELSE NONE
      OBVIOUS
    <3>2. r \in OccIds \cup {NONE} /\ Advanced(p, r) /\ (r # NONE => IsOpen(r))
      BY <2>1, <3>1 DEF Rows, IsOpen
    <3> QED BY <1>6, <1>11, <3>2 DEF ReadSameDate
  <2>2. ASSUME Do(p, "insert", [job[p] EXCEPT !.attempt = job[p].attempt + 1]) PROVE OneTaskInv'
    <3>1. PICK j : j = [job[p] EXCEPT !.attempt = job[p].attempt + 1]
      OBVIOUS
    <3>2. j.kind = job[p].kind
      BY <1>1, <3>1 DEF Job
    <3> QED BY <1>4, <2>2, <3>1, <3>2
  <2> QED BY <1>3, <1>11, <2>1, <2>2 DEF ReadSameDate
<1>12. Insert(p) /\ ~Opens(p) => OneTaskInv'
  BY <1>3, <1>5 DEF Insert, Opens
<1> QED BY <1>8, <1>9, <1>10, <1>11, <1>12

LEMMA ProjectOneTask ==
  ASSUME TypeInv, RowsInOrder, OneProcess, OneTaskInv, NEW p \in Procs,
         Unlinked(p) \/ ProjectFind(p) \/ CreateTaskFails(p) \/ MirrorCreated(p)
  PROVE  OneTaskInv'
<1>1. TypeOK /\ job[p] \in Job /\ UNCHANGED <<occ, made, task>>
  BY JobKnown DEF TypeInv, Unlinked, ProjectFind, CreateTaskFails, MirrorCreated, tables, outside
<1>2. ASSUME Unlinked(p) PROVE OneTaskInv'
  <2>1. ASSUME NEW o \in Open, occ[o].link = NONE, Do(p, "find", [job[p] EXCEPT !.occ = o, !.link = NONE])
        PROVE  OneTaskInv'
    <3>1. PICK j : j = [job[p] EXCEPT !.occ = o, !.link = NONE]
      OBVIOUS
    <3>2. o \in OccIds /\ IsOpen(o)
      BY OpenOrOver
    <3>3. j.occ = o
      BY <1>1, <3>1, <3>2 DEF Job
    <3>4. o <= made /\ Untasked(o)
      <4>1. pc[p] \notin {"mirror", "link"}
        BY <1>2 DEF Unlinked
      <4>2. occ[o] # NONE
        BY <3>2 DEF IsOpen
      <4>3. Untasked(o)
        BY <2>1, <3>2, <4>1, <4>2, Unmade
      <4> QED BY <1>1, <3>2, <4>2, <4>3 DEF RowsInOrder, TypeOK, OccIds
    <3>5. OneJob("find", j)
      BY <3>3, <3>4 DEF OneJob
    <3> QED BY <1>1, <1>2, <2>1, <3>1, <3>5, OneTaskJob DEF Unlinked
  <2> QED BY <1>1, <1>2, <2>1, OneTaskDone DEF Unlinked
<1>3. ASSUME ProjectFind(p) PROVE OneTaskInv'
  <2>1. ASSUME NEW t, Do(p, "link", [job[p] EXCEPT !.link = t]) PROVE OneTaskInv'
    <3>1. PICK j : j = [job[p] EXCEPT !.link = t]
      OBVIOUS
    <3>2. "link" \in FreeOfTask
      BY DEF FreeOfTask
    <3> QED BY <1>1, <1>3, <2>1, <3>1, <3>2, OneTaskFree DEF ProjectFind
  <2>2. ASSUME Goto(p, "create") PROVE OneTaskInv'
    <3>1. OneJob("create", job[p])
      BY <1>3 DEF OneTaskInv, OneJob, ProjectFind
    <3> QED BY <1>1, <1>3, <2>2, <3>1, OneTaskGoto DEF ProjectFind
  <2> QED BY <1>1, <1>3, <2>1, <2>2, OneTaskDone DEF ProjectFind
<1>4. CreateTaskFails(p) => OneTaskInv'
  BY <1>1, OneTaskDone DEF CreateTaskFails
<1>5. ASSUME MirrorCreated(p) PROVE OneTaskInv'
  <2>1. PICK j : j = job[p]
    OBVIOUS
  <2>2. Do(p, "link", j)
    BY <1>1, <1>5, <2>1, GotoIsDo DEF MirrorCreated
  <2>3. LiveOnce' /\ OneJob("link", j)'
    BY <1>1 DEF OneTaskInv, LiveOnce, Live, OneJob
  <2>4. \A o \in OccIds :
          /\ o > made' => Untasked(o)'
          /\ occ'[o] # NONE => \/ occ'[o].link # NONE \/ Untasked(o)' \/ ("link" \in {"mirror", "link"} /\ j.occ = o)
    BY <1>1, <2>1 DEF OneTaskInv, OneTaskFor, Untasked, OneProcess
  <2> QED BY <1>1, <2>2, <2>3, <2>4, OneTaskStep
<1> QED BY <1>2, <1>3, <1>4, <1>5

(* The one task of an occurrence is made. *)
LEMMA CreateOneTask ==
  ASSUME TypeInv, OneProcess, OneTaskInv, NEW p \in Procs, CreateTask(p)
  PROVE  OneTaskInv'
<1>1. job[p] \in Job /\ job[p].occ \in OccIds /\ TypeOK
  BY JobKnown DEF CreateTask, NewTask, JobFits, Job, TypeInv
<1>2. PICK o : o = job[p].occ
  OBVIOUS
<1>3. o <= made /\ Untasked(o) /\ pc[p] = "create"
  BY <1>2 DEF OneTaskInv, OneJob, CreateTask, NewTask
<1>4. PICK t \in TaskIds :
        /\ task[t] = NONE
        /\ task' = [task EXCEPT ![t] = [marker |-> job[p].occ, state |-> "open", at |-> NONE]]
        /\ Do(p, "mirror", [job[p] EXCEPT !.link = t])
  BY DEF CreateTask, NewTask
<1>5. PICK new, j : new = [marker |-> o, state |-> "open", at |-> NONE] /\ j = [job[p] EXCEPT !.link = t]
  OBVIOUS
<1>6. \A u \in TaskIds : task'[u] = IF u = t THEN new ELSE task[u]
  BY <1>1, <1>2, <1>4, <1>5 DEF TypeOK
<1>7. new.marker = o /\ j.occ = o
  BY <1>1, <1>2, <1>5 DEF Job
<1>8. occ' = occ /\ made' = made /\ Do(p, "mirror", j)
  BY <1>4, <1>5 DEF CreateTask, NewTask, tables
<1>9. LiveOnce'
  <2> SUFFICES ASSUME NEW u \in TaskIds, NEW v \in TaskIds, Live(u)', Live(v)',
                      task'[u].marker = task'[v].marker
               PROVE  u = v
    BY DEF LiveOnce
  <2>1. u # t => Live(u) /\ task'[u] = task[u] /\ task[u].marker # o
    BY <1>3, <1>6 DEF Live, Untasked
  <2>2. v # t => Live(v) /\ task'[v] = task[v] /\ task[v].marker # o
    BY <1>3, <1>6 DEF Live, Untasked
  <2> QED BY <1>6, <1>7, <2>1, <2>2 DEF OneTaskInv, LiveOnce
<1>10. \A q \in OccIds : q # o /\ Untasked(q) => Untasked(q)'
  BY <1>6, <1>7 DEF Untasked
<1>11. \A q \in OccIds :
          /\ q > made' => Untasked(q)'
          /\ occ'[q] # NONE => \/ occ'[q].link # NONE \/ Untasked(q)'
                               \/ ("mirror" \in {"mirror", "link"} /\ j.occ = q)
  <2> SUFFICES ASSUME NEW q \in OccIds
               PROVE  /\ q > made => Untasked(q)'
                      /\ occ[q] # NONE => occ[q].link # NONE \/ Untasked(q)' \/ q = o
    BY <1>7, <1>8
  <2>1. q > made => q # o
    BY <1>1, <1>2, <1>3 DEF OccIds, TypeOK
  <2> QED BY <1>3, <1>10, <2>1, Unmade
<1>12. OneJob("mirror", j)'
  BY DEF OneJob
<1> QED BY <1>1, <1>8, <1>9, <1>11, <1>12, OneTaskStep

(* The state of a task changes, not whose it is. *)
SameMarkers ==
  \A t \in TaskIds :
    /\ task'[t] = NONE <=> task[t] = NONE
    /\ task[t] # NONE => task'[t].marker = task[t].marker /\ (Live(t)' => Live(t))

LEMMA StillOneTask ==
  ASSUME OneTaskInv, SameMarkers
  PROVE  LiveOnce' /\ \A o : Untasked(o)' <=> Untasked(o)
<1>1. \A o : Untasked(o)' <=> Untasked(o)
  BY DEF SameMarkers, Untasked
<1>2. LiveOnce'
  BY DEF SameMarkers, OneTaskInv, LiveOnce, Live
<1> QED BY <1>1, <1>2

LEMMA SetDoneMarkers ==
  ASSUME TypeOK, NEW t \in TaskIds, task[t] # NONE, task[t].state # "gone",
         task' = [task EXCEPT ![t] = [task[t] EXCEPT !.state = "done", !.at = today]]
  PROVE  SameMarkers
<1>1. task \in [TaskIds -> Task \cup {NONE}] /\ task[t] \in Task /\ today \in Days
  BY DEF TypeOK
<1>2. PICK new : new = [task[t] EXCEPT !.state = "done", !.at = today]
  OBVIOUS
<1>3. new # NONE /\ new.marker = task[t].marker
  BY <1>1, <1>2, SetDoneType
<1>4. \A u \in TaskIds : task'[u] = IF u = t THEN new ELSE task[u]
  BY <1>1, <1>2
<1> QED BY <1>3, <1>4 DEF SameMarkers, Live

LEMMA OutwardOneTask ==
  ASSUME TypeInv, OneProcess, OneTaskInv, NEW p \in Procs,
         Outward(p) \/ OutwardFails(p) \/ Local(p)
  PROVE  OneTaskInv'
<1>1. TypeOK /\ job[p] \in Job /\ pc[p] \in {"outward", "local"} /\ UNCHANGED <<occ, made>>
  BY JobKnown DEF TypeInv, Outward, OutwardFails, Local, tables
<1>2. job[p].kind = "end" /\ \A o \in OccIds : ~IsOpen(o)
  BY <1>1 DEF OneTaskInv, OneJob
<1>3. ASSUME ThenAdvance(p), task' = task PROVE OneTaskInv'
  <2>1. PICK j \in Job : Do(p, "advance", j)
    BY <1>3, ThenAdvanceIs
  <2>2. OneJob("advance", j)
    BY <1>2 DEF OneJob
  <2> QED BY <1>1, <1>3, <2>1, <2>2, OneTaskJob
<1>4. ASSUME OutwardFails(p) PROVE OneTaskInv'
  <2>1. task' = task
    BY <1>4 DEF OutwardFails, outside
  <2> QED BY <1>1, <1>3, <1>4, <2>1, OneTaskDone DEF OutwardFails
<1>5. Local(p) => OneTaskInv'
  BY <1>3 DEF Local
<1>6. ASSUME Outward(p) PROVE OneTaskInv'
  <2>1. PICK t, j : t = job[p].link /\ j = job[p]
    OBVIOUS
  <2>2. t \in TaskIds /\ task[t] # NONE
    BY <1>6, <2>1, JobKnown DEF Outward, JobFits, Job, TypeInv, Backed
  <2>3. SameMarkers
    BY <1>1, <1>6, <2>1, <2>2, SetDoneMarkers DEF Outward
  <2>4. Do(p, "local", j)
    BY <1>1, <1>6, <2>1, GotoIsDo DEF Outward
  <2>5. OneJob("local", j)'
    BY <1>1, <1>2, <2>1 DEF OneJob, IsOpen
  <2>6. \A o \in OccIds :
          /\ o > made' => Untasked(o)'
          /\ occ'[o] # NONE => occ'[o].link # NONE \/ Untasked(o)'
    BY <1>1, <2>3, StillOneTask, Unmade
  <2> QED BY <1>1, <2>3, <2>4, <2>5, <2>6, StillOneTask, OneTaskStep
<1> QED BY <1>4, <1>5, <1>6
(* An edit works on the row it read; it makes no task. *)
LEMMA EditOneTask ==
  ASSUME TypeInv, OneProcess, OneTaskInv, NEW p \in Procs, UpdateOpen(p) \/ UpdateHistory(p)
  PROVE  OneTaskInv'
<1>1. TypeOK /\ UNCHANGED <<occ, made, task>> /\ pc[p] \notin {"mirror", "link"}
  BY DEF TypeInv, UpdateOpen, UpdateHistory, tables, outside
<1>2. ASSUME NEW step \in {"updHistory", "move"}, NEW j, Do(p, step, j) PROVE OneTaskInv'
  <2>1. step \in FreeOfTask
    BY DEF FreeOfTask
  <2> QED BY <1>1, <1>2, <2>1, OneTaskFree
<1>3. ASSUME UpdateOpen(p) PROVE OneTaskInv'
  <2>1. ASSUME NEW o \in Open,
               Do(p, "updHistory", [job[p] EXCEPT !.occ = o, !.due = occ[o].dueOn])
        PROVE  OneTaskInv'
    <3>1. PICK j : j = [job[p] EXCEPT !.occ = o, !.due = occ[o].dueOn]
      OBVIOUS
    <3> QED BY <1>2, <2>1, <3>1
  <2> QED BY <1>1, <1>3, <2>1, OneTaskDone DEF UpdateOpen
<1>4. ASSUME UpdateHistory(p) PROVE OneTaskInv'
  <2>1. PICK due : due = DueAfterHistory(job[p].spec, job[p].today)
    OBVIOUS
  <2>2. ASSUME Do(p, "move", [job[p] EXCEPT !.due = due]) PROVE OneTaskInv'
    <3>1. PICK j : j = [job[p] EXCEPT !.due = due]
      OBVIOUS
    <3> QED BY <1>2, <2>2, <3>1
  <2> QED BY <1>1, <1>4, <2>1, <2>2, OneTaskDone DEF UpdateHistory
<1> QED BY <1>3, <1>4

(* A call begins. *)
LEMMA AskOneTask ==
  ASSUME TypeInv, OneProcess, OneTaskInv, NEW p \in Procs, Ask(p)
  PROVE  OneTaskInv'
<1>1. TypeOK /\ UNCHANGED <<occ, made, task>> /\ pc[p] = "idle"
  BY DEF TypeInv, Ask, TickStart, DeleteRead, EndRead, CreateRoutine, UpdateRoutine, tables, outside
<1>2. ASSUME NEW step, NEW j, Do(p, step, j), OneJob(step, j) PROVE OneTaskInv'
  BY <1>1, <1>2, OneTaskJob
<1>3. ASSUME TickStart(p) PROVE OneTaskInv'
  <2>1. ASSUME NEW o \in Open,
               Do(p, "reconcile", [NoJob EXCEPT !.kind = "tick", !.today = today,
                                                !.occ = o, !.link = occ[o].link])
        PROVE  OneTaskInv'
    <3>1. PICK j : j = [NoJob EXCEPT !.kind = "tick", !.today = today, !.occ = o, !.link = occ[o].link]
      OBVIOUS
    <3>2. j.kind = "tick"
      BY <3>1 DEF NoJob
    <3>3. OneJob("reconcile", j)
      BY <3>2 DEF OneJob
    <3> QED BY <1>2, <2>1, <3>1, <3>3
  <2>2. ASSUME Do(p, "materialise", [NoJob EXCEPT !.kind = "tick", !.today = today])
        PROVE  OneTaskInv'
    <3>1. PICK j : j = [NoJob EXCEPT !.kind = "tick", !.today = today]
      OBVIOUS
    <3>2. j.kind = "tick"
      BY <3>1 DEF NoJob
    <3>3. OneJob("materialise", j)
      BY <3>2 DEF OneJob
    <3> QED BY <1>2, <2>2, <3>1, <3>3
  <2> QED BY <1>3, <2>1, <2>2 DEF TickStart
<1>4. ASSUME DeleteRead(p) PROVE OneTaskInv'
  <2>1. PICK j : j = [NoJob EXCEPT !.kind = "delete"]
    OBVIOUS
  <2>2. Do(p, "delete", j) /\ OneJob("delete", j)
    BY <1>4, <2>1 DEF DeleteRead, OneJob
  <2> QED BY <1>2, <2>2
<1>5. ASSUME NEW o \in OccIds, NEW st \in {"completed", "skipped"}, NEW m \in Members,
             NEW ago \in Backdating, EndRead(p, o, st, m, ago)
      PROVE  OneTaskInv'
  <2>1. PICK j : j = [NoJob EXCEPT !.kind = "end", !.occ = o, !.link = occ[o].link,
                                   !.status = st, !.at = today - ago, !.member = m]
    OBVIOUS
  <2>2. j.kind = "end" /\ j.occ = o
    BY <2>1 DEF NoJob
  <2>3. IsOpen(o) /\ Do(p, "end", j)
    BY <1>5, <2>1, OpenOrOver DEF EndRead
  <2>4. OneJob("end", j)
    BY <2>2, <2>3 DEF OneJob
  <2> QED BY <1>2, <2>3, <2>4
<1>6. ASSUME NEW s \in Specs, CreateRoutine(p, s) PROVE OneTaskInv'
  <2>1. PICK j : j = [NoJob EXCEPT !.kind = "create", !.today = today]
    OBVIOUS
  <2>2. j.kind = "create" /\ Do(p, "advance", j)
    BY <1>6, <2>1 DEF NoJob, CreateRoutine
  <2>3. OneJob("advance", j)
    BY <2>2 DEF OneJob
  <2> QED BY <1>2, <2>2, <2>3
<1>7. ASSUME NEW s \in Specs, UpdateRoutine(p, s) PROVE OneTaskInv'
  <2>1. PICK j : j = [NoJob EXCEPT !.kind = "update", !.today = today, !.spec = s]
    OBVIOUS
  <2>2. Do(p, "updOpen", j) /\ OneJob("updOpen", j)
    BY <1>7, <2>1 DEF UpdateRoutine, OneJob
  <2> QED BY <1>2, <2>2
<1> QED BY <1>3, <1>4, <1>5, <1>6, <1>7 DEF Ask

(* The occurrence that a task was made or found for is linked to it. *)
LEMMA LinkOneTask ==
  ASSUME TypeInv, OneProcess, OneTaskInv, NEW p \in Procs, Relinked(p) \/ Link(p)
  PROVE  OneTaskInv'
<1>1. /\ TypeOK /\ UNCHANGED <<made, task>> /\ pc[p] \in {"relinked", "link"}
      /\ job[p].occ \in OccIds /\ job[p].link \in TaskIds /\ SetProjection(job[p].occ, job[p].link)
  BY RowWorkers DEF TypeInv, Relinked, Link, outside
<1>2. \A q \in OccIds : /\ occ'[q] = NONE <=> occ[q] = NONE
                        /\ occ[q] # NONE => occ'[q].link = IF q = job[p].occ THEN job[p].link
                                                           ELSE occ[q].link
  BY <1>1, RowsLinked
<1>3. LiveOnce' /\ \A q : Untasked(q)' <=> Untasked(q)
  BY <1>1 DEF OneTaskInv, LiveOnce, Live, Untasked
<1>4. \A q \in OccIds :
        /\ q > made' => Untasked(q)'
        /\ occ'[q] # NONE => occ'[q].link # NONE \/ Untasked(q)'
  <2> SUFFICES ASSUME NEW q \in OccIds
               PROVE  /\ q > made => Untasked(q)
                      /\ occ'[q] # NONE => occ'[q].link # NONE \/ Untasked(q)
    BY <1>1, <1>3
  <2>1. /\ q > made => Untasked(q)
        /\ occ[q] # NONE => \/ occ[q].link # NONE \/ Untasked(q) \/ job[p].occ = q
    BY DEF OneTaskInv, OneTaskFor, OneProcess
  <2>2. job[p].link # NONE
    BY <1>1, WeorcAssumption DEF TaskIds
  <2> QED BY <1>2, <2>1, <2>2
<1>5. CASE Link(p)
  <2>1. Do(p, "idle", NoJob) /\ OneJob("idle", NoJob)'
    BY <1>5 DEF Link, Done, OneJob
  <2> QED BY <1>1, <1>3, <1>4, <2>1, OneTaskStep
<1>6. CASE Relinked(p)
  <2>1. PICK step, j : step = (IF job[p].at = NONE THEN "materialise" ELSE "reconciled") /\ j = job[p]
    OBVIOUS
  <2>2. Do(p, step, j)
    BY <1>1, <1>6, <2>1, GotoIsDo DEF Relinked
  <2>3. j.kind = "tick" /\ step \in {"materialise", "reconciled"}
    BY <1>6, <2>1 DEF OneTaskInv, OneJob, Relinked
  <2>4. OneJob(step, j)'
    BY <2>3 DEF OneJob
  <2> QED BY <1>1, <1>3, <1>4, <2>2, <2>4, OneTaskStep
<1> QED BY <1>5, <1>6
(* A step of the one process that unlinks nothing and makes no task. *)
LEMMA OneTaskRows ==
  ASSUME TypeOK, OneProcess, OneTaskInv, UNCHANGED <<made, task>>,
         \A q \in OccIds : occ'[q] # NONE => occ[q] # NONE /\ occ'[q].link = occ[q].link,
         NEW p \in Procs, pc[p] \notin {"mirror", "link"},
         NEW step, NEW j, Do(p, step, j), OneJob(step, j)'
  PROVE  OneTaskInv'
<1>1. LiveOnce' /\ \A q : Untasked(q)' <=> Untasked(q)
  BY DEF OneTaskInv, LiveOnce, Live, Untasked
<1>2. \A q \in OccIds :
        /\ q > made' => Untasked(q)'
        /\ occ'[q] # NONE => occ'[q].link # NONE \/ Untasked(q)'
  BY <1>1, Unmade
<1> QED BY <1>1, <1>2, OneTaskStep

LEMMA EndOneTask ==
  ASSUME TypeInv, OneOpen, OneProcess, OneTaskInv, NEW p \in Procs, Reconciled(p) \/ End(p)
  PROVE  OneTaskInv'
<1>1. /\ TypeOK /\ UNCHANGED <<made, task>> /\ pc[p] \notin {"mirror", "link"}
      /\ job[p].occ \in OccIds /\ job[p].status \in {"completed", "skipped"} /\ Terminate(p)
  BY RowWorkers DEF TypeInv, Reconciled, End, outside
<1>2. \A q \in OccIds :
        /\ occ'[q] = NONE <=> occ[q] = NONE
        /\ occ[q] # NONE => /\ occ'[q].link = occ[q].link
                            /\ occ'[q].status = IF q = job[p].occ THEN job[p].status ELSE occ[q].status
  BY <1>1, RowsEnded
<1>3. \A q \in OccIds : occ'[q] # NONE => occ[q] # NONE /\ occ'[q].link = occ[q].link
  BY <1>2
<1>4. CASE Reconciled(p)
  <2>1. PICK j : j = job[p]
    OBVIOUS
  <2>2. Do(p, "materialise", j)
    BY <1>1, <1>4, <2>1, GotoIsDo DEF Reconciled
  <2>3. j.kind = "tick"
    BY <1>4, <2>1 DEF OneTaskInv, OneJob, Reconciled
  <2>4. OneJob("materialise", j)'
    BY <2>3 DEF OneJob
  <2> QED BY <1>1, <1>3, <2>2, <2>4, OneTaskRows
<1>5. CASE End(p)
  <2>1. job[p].kind = "end" /\ IsOpen(job[p].occ)
    BY <1>5 DEF OneTaskInv, OneJob, End
  <2>2. \A q \in OccIds : ~IsOpen(q)'
    <3> SUFFICES ASSUME NEW q \in OccIds, IsOpen(q)' PROVE FALSE
      OBVIOUS
    <3>1. q # job[p].occ /\ IsOpen(q)
      BY <1>1, <1>2 DEF IsOpen
    <3> QED BY <1>1, <2>1, <3>1 DEF OneOpen
  <2>3. ASSUME NEW step \in {"outward", "advance"}, NEW j, j.kind = "end", Do(p, step, j)
        PROVE  OneTaskInv'
    <3>1. OneJob(step, j)'
      BY <2>2, <2>3 DEF OneJob
    <3> QED BY <1>1, <1>3, <2>3, <3>1, OneTaskRows
  <2>4. ASSUME Goto(p, "outward") PROVE OneTaskInv'
    <3>1. PICK j : j = job[p]
      OBVIOUS
    <3>2. Do(p, "outward", j) /\ j.kind = "end"
      BY <1>1, <2>1, <2>4, <3>1, GotoIsDo
    <3> QED BY <2>3, <3>2
  <2>5. ASSUME ThenAdvance(p) PROVE OneTaskInv'
    <3>1. PICK j \in Job : Do(p, "advance", j) /\ j.kind = job[p].kind
      BY <2>5, ThenAdvanceIs
    <3> QED BY <2>1, <2>3, <3>1
  <2> QED BY <1>5, <2>4, <2>5 DEF End
<1> QED BY <1>4, <1>5

LEMMA OpensOneTask ==
  ASSUME TypeInv, OneProcess, OneTaskInv, NEW p \in Procs, Opens(p)
  PROVE  OneTaskInv'
<1>1. /\ TypeOK /\ made \in Nat /\ made' = made + 1 /\ task' = task /\ pc[p] = "insert"
      /\ Advanced(p, made + 1)
  BY DEF TypeInv, TypeOK, Opens, outside
<1>2. /\ made + 1 \in OccIds
      /\ \A q \in OccIds : occ'[q] = IF q = made + 1 THEN NewOcc(job[p].due) ELSE occ[q]
  BY RowsOpened
<1>3. LiveOnce' /\ \A q : Untasked(q)' <=> Untasked(q)
  BY <1>1 DEF OneTaskInv, LiveOnce, Live, Untasked
<1>4. Untasked(made + 1)
  BY <1>1, <1>2, Unmade
<1>5. \A q \in OccIds :
        /\ q > made' => Untasked(q)'
        /\ occ'[q] # NONE => occ'[q].link # NONE \/ Untasked(q)'
  <2> SUFFICES ASSUME NEW q \in OccIds
               PROVE  /\ q > made + 1 => Untasked(q)
                      /\ occ'[q] # NONE => occ'[q].link # NONE \/ Untasked(q)
    BY <1>1, <1>3
  <2>1. /\ q > made => Untasked(q)
        /\ occ[q] # NONE => occ[q].link # NONE \/ Untasked(q)
    BY <1>1, Unmade
  <2>2. q \in Nat
    BY DEF OccIds
  <2> QED BY <1>1, <1>2, <1>4, <2>1, <2>2
<1>6. PICK o \in OccIds \cup {NONE} : o = made + 1
  BY <1>2
<1>7. PICK step \in {"idle", "unlinked", "find"}, j \in Job :
        /\ Do(p, step, j)
        /\ step = "unlinked" => job[p].kind = "tick" /\ j = job[p]
        /\ step = "find" => o # NONE /\ job[p].kind = "end" /\ j.occ = o
  BY <1>1, <1>6, AdvancedIs
<1>8. OneJob(step, j)'
  <2>1. CASE step = "idle"
    BY <2>1 DEF OneJob
  <2>2. CASE step = "unlinked"
    <3>1. j.kind = "tick"
      BY <1>7, <2>2
    <3> QED BY <2>2, <3>1 DEF OneJob
  <2>3. CASE step = "find"
    <3>1. j.occ = o
      BY <1>7, <2>3
    <3>2. j.occ <= made' /\ Untasked(j.occ)'
      BY <1>1, <1>3, <1>4, <1>6, <3>1
    <3> QED BY <2>3, <3>2 DEF OneJob
  <2> QED BY <2>1, <2>2, <2>3
<1> QED BY <1>1, <1>3, <1>5, <1>7, <1>8, OneTaskStep

LEMMA EditedOneTask ==
  ASSUME TypeInv, OneProcess, OneTaskInv, NEW p \in Procs, Move(p) \/ Delete(p)
  PROVE  OneTaskInv'
<1>1. /\ TypeOK /\ UNCHANGED <<made, task>> /\ pc[p] \notin {"mirror", "link"}
      /\ Do(p, "idle", NoJob)
  BY DEF TypeInv, Move, Delete, outside, Done
<1>2. OneJob("idle", NoJob)'
  BY DEF OneJob
<1>3. \A q \in OccIds : occ'[q] # NONE => occ[q] # NONE /\ occ'[q].link = occ[q].link
  BY RowsMoved DEF Delete
<1> QED BY <1>1, <1>2, <1>3, OneTaskRows

(* The household's list and the calendar go their own way. *)
LEMMA ListOneTask ==
  ASSUME OneTaskInv, UNCHANGED <<occ, made, pc, job>>,
         LiveOnce', \A o : Untasked(o)' <=> Untasked(o)
  PROVE  OneTaskInv'
<1>1. \A o \in OccIds : OneTaskFor(o)'
  BY DEF OneTaskInv, OneTaskFor
<1>2. \A p \in Procs : OneJob(pc[p], job[p])'
  BY DEF OneTaskInv, OneJob, IsOpen
<1> QED BY <1>1, <1>2 DEF OneTaskInv

LEMMA TaskMovesOneTask ==
  ASSUME TypeInv, OneTaskInv, NEW t \in TaskIds, NEW u \in TaskIds, TaskMoves(t, u)
  PROVE  OneTaskInv'
<1>1. task \in [TaskIds -> Task \cup {NONE}] /\ task[t] \in Task /\ task[t].state # "gone"
      /\ task[u] = NONE /\ u # t
  BY DEF TypeInv, TypeOK, TaskMoves
<1>2. PICK old : old = [task[t] EXCEPT !.state = "gone"]
  OBVIOUS
<1>3. old \in Task /\ old.marker = task[t].marker /\ old.state = "gone" /\ old # NONE
  BY <1>1, <1>2, WeorcAssumption DEF Task
<1>4. task' = [task EXCEPT ![u] = task[t], ![t] = old]
  BY <1>2 DEF TaskMoves
<1>5. \A v \in TaskIds : task'[v] = IF v = t THEN old ELSE IF v = u THEN task[t] ELSE task[v]
  BY <1>1, <1>4
<1>6. \A o : Untasked(o)' <=> Untasked(o)
  BY <1>1, <1>3, <1>5, WeorcAssumption DEF Untasked
<1>7. LiveOnce'
  <2> SUFFICES ASSUME NEW v \in TaskIds, NEW w \in TaskIds, Live(v)', Live(w)',
                      task'[v].marker = task'[w].marker
               PROVE  v = w
    BY DEF LiveOnce
  <2>1. v # t /\ w # t
    BY <1>3, <1>5 DEF Live
  <2>2. v # u => Live(v) /\ task'[v] = task[v]
    BY <1>5, <2>1 DEF Live
  <2>3. w # u => Live(w) /\ task'[w] = task[w]
    BY <1>5, <2>1 DEF Live
  <2>4. Live(t) /\ task'[u] = task[t]
    BY <1>1, <1>5, WeorcAssumption DEF Live
  <2> QED BY <2>1, <2>2, <2>3, <2>4 DEF OneTaskInv, LiveOnce
<1>8. UNCHANGED <<occ, made, pc, job>>
  BY DEF TaskMoves, tables
<1> QED BY <1>6, <1>7, <1>8, ListOneTask

LEMMA OneTaskKept ==
  ASSUME TypeInv, RowsInOrder, OneOpen, OneProcess, "crash" \notin Ops, "lostAnswer" \notin Ops,
         OneTaskInv, [Next]_vars
  PROVE  OneTaskInv'
<1>1. ASSUME NEW p \in Procs, Work(p) PROVE OneTaskInv'
  <2>1. Reconcile(p) \/ Relink(p) \/ Materialise(p) => OneTaskInv'
    BY TickOneTask
  <2>2. Advance(p) \/ AdvanceHistory(p) \/ ReadOpen(p) \/ ReadSameDate(p) \/ (Insert(p) /\ ~Opens(p))
        => OneTaskInv'
    BY AdvanceOneTask
  <2>3. Unlinked(p) \/ ProjectFind(p) \/ CreateTaskFails(p) \/ MirrorCreated(p) => OneTaskInv'
    BY ProjectOneTask
  <2>4. Relinked(p) \/ Link(p) => OneTaskInv'
    BY LinkOneTask
  <2>5. Reconciled(p) \/ End(p) => OneTaskInv'
    BY EndOneTask
  <2>6. Outward(p) \/ OutwardFails(p) \/ Local(p) => OneTaskInv'
    BY OutwardOneTask
  <2>7. UpdateOpen(p) \/ UpdateHistory(p) => OneTaskInv'
    BY EditOneTask
  <2>8. Move(p) \/ Delete(p) => OneTaskInv'
    BY EditedOneTask
  <2> QED BY <1>1, <2>1, <2>2, <2>3, <2>4, <2>5, <2>6, <2>7, <2>8, CreateOneTask, OpensOneTask
          DEF Work, CreateTaskLost
<1>2. ASSUME NEW p \in Procs, Ask(p) PROVE OneTaskInv'
  BY <1>2, AskOneTask
<1>3. ASSUME NEW t \in TaskIds, MemberTicks(t) PROVE OneTaskInv'
  <2>1. TypeOK /\ UNCHANGED <<occ, made, pc, job>>
    BY <1>3 DEF TypeInv, MemberTicks, tables
  <2>2. task[t] # NONE /\ task[t].state # "gone"
        /\ task' = [task EXCEPT ![t] = [task[t] EXCEPT !.state = "done", !.at = today]]
    BY <1>3 DEF MemberTicks
  <2>3. SameMarkers
    BY <2>1, <2>2, SetDoneMarkers
  <2> QED BY <2>1, <2>3, StillOneTask, ListOneTask
<1>4. ASSUME UNCHANGED <<occ, made, task, pc, job>> PROVE OneTaskInv'
  <2>1. LiveOnce' /\ \A o : Untasked(o)' <=> Untasked(o)
    BY <1>4 DEF OneTaskInv, LiveOnce, Live, Untasked
  <2> QED BY <1>4, <2>1, ListOneTask
<1>5. ASSUME NEW t \in TaskIds, SyncTask(t) \/ DropMirror(t) PROVE OneTaskInv'
  BY <1>4, <1>5 DEF SyncTask, DropMirror, tables
<1>6. NextDay \/ UNCHANGED vars => OneTaskInv'
  BY <1>4 DEF NextDay, vars, tables
<1>7. ~Crash
  BY DEF Crash
<1> QED BY <1>1, <1>2, <1>3, <1>5, <1>6, <1>7, TaskMovesOneTask DEF Next

LEMMA OneOfThem ==
  ASSUME NEW S, \A x, y \in S : x = y
  PROVE  Cardinality(S) <= 1
<1>1. CASE S = {}
  BY <1>1, FS_EmptySet
<1>2. CASE S # {}
  <2>1. PICK x \in S : TRUE
    BY <1>2
  <2>2. S = {x}
    BY <2>1
  <2>3. Cardinality({x}) = 1
    BY FS_Singleton, Zenon
  <2> QED BY <2>2, <2>3
<1> QED BY <1>1, <1>2

(* One call at a time, none cut off: an occurrence never has two tasks in the   *)
(* household's list, although mirror rows come and go, the provider refuses     *)
(* calls and members tick tasks off and move them between lists.  Two calls at   *)
(* once, a crash between the provider's answer and the mirror row, or an answer   *)
(* that is lost do make a second task: nothing keeps two calls apart, and the     *)
(* marker is looked for in the mirror (project in engine.ts).                    *)
THEOREM OneTaskEach ==
  ASSUME RecurrenceAnswers, OneProcess, "crash" \notin Ops, "lostAnswer" \notin Ops
  PROVE  Spec => []AtMostOneTask
<1> DEFINE Inv == RowsInv /\ OneOpen /\ OneTaskInv
<1>1. Init => Inv
  <2> SUFFICES ASSUME Init PROVE Inv
    OBVIOUS
  <2>1. RowsInOrder /\ OneOpen
    BY DEF Init, RowsInOrder, OneOpen, IsOpen
  <2>2. \A t \in TaskIds : task[t] = NONE
    BY DEF Init
  <2>3. LiveOnce /\ \A o : Untasked(o)
    BY <2>2 DEF LiveOnce, Live, Untasked
  <2>4. \A p \in Procs : OneJob(pc[p], job[p])
    BY DEF Init, OneJob
  <2> QED BY <2>1, <2>3, <2>4, TypesFromInit DEF RowsInv, OneTaskInv, OneTaskFor
<1>2. Inv /\ [Next]_vars => Inv'
  BY TypesKept, RowsStayInOrder, OneOpenKept, OneTaskKept DEF RowsInv
<1>3. Inv => AtMostOneTask
  <2> SUFFICES ASSUME Inv, NEW o \in OccIds
               PROVE  Cardinality({t \in TaskIds : task[t] # NONE /\ task[t].marker = o
                                                  /\ task[t].state # "gone"}) <= 1
    BY DEF AtMostOneTask
  <2> DEFINE S == {t \in TaskIds : task[t] # NONE /\ task[t].marker = o /\ task[t].state # "gone"}
  <2>1. \A x, y \in S : x = y
    BY DEF OneTaskInv, LiveOnce, Live
  <2> HIDE DEF S
  <2>2. Cardinality(S) <= 1
    BY <2>1, OneOfThem
  <2> QED BY <2>2 DEF S
<1> QED BY <1>1, <1>2, <1>3, PTL DEF Spec
=============================================================================
