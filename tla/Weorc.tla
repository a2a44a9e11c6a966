-------------------------------- MODULE Weorc --------------------------------
(***************************************************************************)
(* The routine engine: src/modules/weorc/service.ts, engine.ts and store.ts *)
(* with the task seam of src/modules/tasks/service.ts.                     *)
(*                                                                         *)
(* One routine: occurrences of different routines share no row and no      *)
(* constraint.  A process is a tick (hourly or POST /run: nothing keeps    *)
(* two apart) or a request; one of its steps is what lies between two      *)
(* awaits.  What a process has read is in its job, and may be stale when   *)
(* it is used.  Names, notes, owners, anchors and projectionError are left *)
(* out; dates are day numbers, and the recurrence is the parameter         *)
(* NextDueOn (WeorcRecurrence).                                            *)
(***************************************************************************)
EXTENDS Integers, FiniteSets

CONSTANTS Procs,
          Members,      \* who completes or skips
          MaxOccs,      \* bound: occurrences ever inserted
          MaxTasks,     \* bound: tasks ever created at the provider
          MaxDay,       \* bound: the calendar
          Specs,        \* the settings a routine can be given
          NextDueOn(_, _, _), \* recurrence.ts: settings, last terminal date or NONE, today
          HasTaskProvider,
          Backdating,   \* how many days ago a member may say the work was done
          Ops,          \* the operations an instance allows (a bound)
          NONE

OccIds  == 1..MaxOccs
TaskIds == 1..MaxTasks
Days    == 0..MaxDay

Occ  == [dueOn : Int, status : {"due", "completed", "skipped"}, at : Int \cup {NONE},
         member : Members \cup {NONE}, link : TaskIds \cup {NONE}]
Task == [marker : OccIds, state : {"open", "done", "gone"}, at : Int \cup {NONE}]

ASSUME WeorcAssumption ==
  /\ MaxOccs \in Nat /\ MaxTasks \in Nat /\ MaxDay \in Nat
  /\ HasTaskProvider \in BOOLEAN /\ Backdating \subseteq Nat
  /\ \A s \in Specs : s.mode \in {"fixed", "from_completion"} /\ s.lead \in Nat
                      /\ s.active \in BOOLEAN
  /\ NONE \notin Members \cup Specs \cup Int
  /\ NONE \notin Occ /\ NONE \notin Task

VARIABLES today,
          routine,   \* the weorc_routines row: a member of Specs, or NONE
          occ,       \* weorc_occurrences by id; NONE: not inserted, or deleted
          made,      \* occurrences inserted so far
          task,      \* tasks at the provider
          mirror,    \* task_mirror: what Heorth believes of each of them
          pc, job

vars == <<today, routine, occ, made, task, mirror, pc, job>>
tables == <<routine, occ, made>>
outside == <<today, task, mirror>>
-----------------------------------------------------------------------------
Job == [kind    : {"none", "tick", "end", "create", "update", "delete"},
        today   : Int,
        occ     : OccIds \cup {NONE},       \* the occurrence worked on
        link    : TaskIds \cup {NONE},      \* its task, as read
        status  : {"completed", "skipped"}, \* what it is to become
        at      : Int \cup {NONE},
        member  : Members \cup {NONE},
        spec    : Specs \cup {NONE},        \* the routine, as read
        due     : Int,
        attempt : 0..3]

NoJob == [kind |-> "none", today |-> 0, occ |-> NONE, link |-> NONE, status |-> "completed",
          at |-> NONE, member |-> NONE, spec |-> NONE, due |-> 0, attempt |-> 0]

Steps == {"idle", "reconcile", "relink", "relinked", "reconciled", "materialise", "advance",
          "history", "insert", "reread", "rowAgain", "unlinked", "find", "create", "mirror",
          "link", "end", "outward", "local", "updOpen", "updHistory", "move", "delete"}

TypeOK ==
  /\ today \in Days
  /\ routine \in Specs \cup {NONE}
  /\ occ \in [OccIds -> Occ \cup {NONE}] /\ made \in 0..MaxOccs
  /\ task \in [TaskIds -> Task \cup {NONE}] /\ mirror \in [TaskIds -> Task \cup {NONE}]
  /\ pc \in [Procs -> Steps] /\ job \in [Procs -> Job]
  /\ \A o \in OccIds : occ[o] # NONE => (occ[o].status = "completed" <=> occ[o].at # NONE)

Init ==
  /\ today = 0 /\ routine = NONE
  /\ occ = [o \in OccIds |-> NONE] /\ made = 0
  /\ task = [t \in TaskIds |-> NONE] /\ mirror = [t \in TaskIds |-> NONE]
  /\ pc = [p \in Procs |-> "idle"] /\ job = [p \in Procs |-> NoJob]
-----------------------------------------------------------------------------
Rows     == {o \in OccIds : occ[o] # NONE}
Open     == {o \in Rows : occ[o].status = "due"}
Terminal == Rows \ Open
Active   == IF routine = NONE THEN FALSE ELSE routine.active

(* lastTerminalOccurrence, and terminalDateOf of it; NONE if there is none. *)
LastTerminal == {o \in Terminal : \A q \in Terminal : occ[q].dueOn <= occ[o].dueOn}

TerminalDate(o, s) ==
  IF s.mode = "from_completion" /\ occ[o].status = "completed" THEN occ[o].at ELSE occ[o].dueOn

DueAfterHistory(s, day) ==
  NextDueOn(s, IF Terminal = {} THEN NONE
               ELSE TerminalDate(CHOOSE o \in LastTerminal : TRUE, s), day)

(* Seeded fault: any mirrored task will do. *)
AnyMirrored(o) == {t \in TaskIds : mirror[t] # NONE}

(* findTaskByNotesMarker: some mirror row that carries the occurrence's marker. *)
Marked(o) == {t \in TaskIds : mirror[t] # NONE /\ mirror[t].marker = o}

Goto(p, step) == pc' = [pc EXCEPT ![p] = step] /\ UNCHANGED job
Do(p, step, j) == pc' = [pc EXCEPT ![p] = step] /\ job' = [job EXCEPT ![p] = j]
Done(p) == Do(p, "idle", NoJob)
-----------------------------------------------------------------------------
(* runWeorcTick: reconcile *)
TickStart(p) ==
  /\ "tick" \in Ops /\ pc[p] = "idle"
  /\ \/ \E o \in Open : /\ occ[o].link # NONE
                        /\ Do(p, "reconcile", [NoJob EXCEPT !.kind = "tick", !.today = today,
                                                 !.occ = o, !.link = occ[o].link])
     \/ /\ \A o \in Open : occ[o].link = NONE
        /\ Do(p, "materialise", [NoJob EXCEPT !.kind = "tick", !.today = today])
  /\ UNCHANGED tables /\ UNCHANGED outside

(* What the tick does with the mirror row it found. *)
Mirrored(p, t, step) ==
  Do(p, step, [job[p] EXCEPT !.link = t, !.at = mirror[t].at,
                             !.status = "completed", !.member = NONE])

(* Seeded fault: the status of a task found by its link is not looked at. *)
ReconcileLinkOnly(p) ==
  /\ pc[p] = "reconcile"
  /\ Goto(p, IF mirror[job[p].link] = NONE THEN "relink" ELSE "materialise")
  /\ UNCHANGED tables /\ UNCHANGED outside

Reconcile(p) ==
  LET t == job[p].link
  IN  /\ pc[p] = "reconcile"
      /\ IF mirror[t] = NONE THEN Goto(p, "relink")
         ELSE IF mirror[t].state = "done" THEN Mirrored(p, t, "reconciled")
         ELSE Goto(p, "materialise")
      /\ UNCHANGED tables /\ UNCHANGED outside

(* Seeded fault: a missing mirror row is taken for a deleted task. *)
RelinkOrForget(p) ==
  /\ pc[p] = "relink"
  /\ \/ /\ \E t \in Marked(job[p].occ) : Mirrored(p, t, "relinked")
        /\ UNCHANGED occ
     \/ /\ Marked(job[p].occ) = {} /\ Goto(p, "materialise")
        /\ occ' = IF occ[job[p].occ] = NONE THEN occ
                  ELSE [occ EXCEPT ![job[p].occ] = [occ[job[p].occ] EXCEPT !.link = NONE]]
  /\ UNCHANGED <<routine, made>> /\ UNCHANGED outside

(* Absence is not a deletion: without a marked row elsewhere nothing changes. *)
Relink(p) ==
  /\ pc[p] = "relink"
  /\ \/ \E t \in Marked(job[p].occ) : Mirrored(p, t, "relinked")
     \/ Marked(job[p].occ) = {} /\ Goto(p, "materialise")
  /\ UNCHANGED tables /\ UNCHANGED outside

(* setProjection, an UPDATE by id. *)
SetProjection(o, t) ==
  occ' = IF occ[o] = NONE THEN occ ELSE [occ EXCEPT ![o] = [occ[o] EXCEPT !.link = t]]

Relinked(p) ==
  /\ pc[p] = "relinked"
  /\ SetProjection(job[p].occ, job[p].link)
  /\ Goto(p, IF job[p].at = NONE THEN "materialise" ELSE "reconciled")
  /\ UNCHANGED <<routine, made>> /\ UNCHANGED outside

(* Seeded fault: a skip keeps the time it was given. *)
TerminateKeepingTime(p) ==
  LET o == job[p].occ
  IN  occ' = IF occ[o] = NONE THEN occ
             ELSE [occ EXCEPT ![o] = [occ[o] EXCEPT !.status = job[p].status,
                      !.at = job[p].at, !.member = job[p].member]]

(* terminateOccurrence, an UPDATE by id alone. *)
Terminate(p) ==
  LET o == job[p].occ
  IN  occ' = IF occ[o] = NONE THEN occ
             ELSE [occ EXCEPT ![o] = [occ[o] EXCEPT !.status = job[p].status,
                      !.at = IF job[p].status = "completed" THEN job[p].at ELSE NONE,
                      !.member = job[p].member]]

Reconciled(p) ==
  /\ pc[p] = "reconciled"
  /\ Terminate(p)
  /\ Goto(p, "materialise")
  /\ UNCHANGED <<routine, made>> /\ UNCHANGED outside

(* materialise *)
Materialise(p) ==
  /\ pc[p] = "materialise"
  /\ IF Active /\ Open = {} THEN Goto(p, "advance")
     ELSE Goto(p, "unlinked")
  /\ UNCHANGED tables /\ UNCHANGED outside
-----------------------------------------------------------------------------
(* advanceRoutine answers the open occurrence o, or NONE, to its caller. *)
Advanced(p, o) ==
  CASE job[p].kind = "tick" -> Goto(p, "unlinked")
    [] job[p].kind = "end" /\ o # NONE /\ HasTaskProvider ->
         Do(p, "find", [job[p] EXCEPT !.occ = o, !.link = NONE])
    [] OTHER -> Done(p)

Advance(p) ==
  /\ pc[p] = "advance"
  /\ \/ ~Active /\ Advanced(p, NONE)
     \/ Active /\ \E o \in Open : Advanced(p, o)
     \/ Active /\ Open = {} /\ Do(p, "history", [job[p] EXCEPT !.spec = routine])
  /\ UNCHANGED tables /\ UNCHANGED outside

(* Seeded fault: the horizon itself is outside the horizon. *)
AdvanceHistoryShort(p) ==
  LET s   == job[p].spec
      due == DueAfterHistory(s, job[p].today)
  IN  /\ pc[p] = "history"
      /\ IF due >= job[p].today + s.lead THEN Advanced(p, NONE)
         ELSE Do(p, "insert", [job[p] EXCEPT !.due = due, !.attempt = 1])
      /\ UNCHANGED tables /\ UNCHANGED outside

AdvanceHistory(p) ==
  LET s   == job[p].spec
      due == DueAfterHistory(s, job[p].today)
  IN  /\ pc[p] = "history"
      /\ IF due > job[p].today + s.lead THEN Advanced(p, NONE)
         ELSE Do(p, "insert", [job[p] EXCEPT !.due = due, !.attempt = 1])
      /\ UNCHANGED tables /\ UNCHANGED outside

(* Seeded fault: no unique constraint on (routine, dueOn). *)
OpenConflict(due) == Open # {}

(* insertOccurrence: ON CONFLICT DO NOTHING on (routine, dueOn) and on the one *)
(* open row; the foreign key refuses a deleted routine.                        *)
Conflict(due) == Open # {} \/ \E o \in Rows : occ[o].dueOn = due

NewOcc(due) == [dueOn |-> due, status |-> "due", at |-> NONE, member |-> NONE, link |-> NONE]

(* Seeded fault: ON CONFLICT DO UPDATE, which makes a finished row due again. *)
InsertOrReopen(p) ==
  /\ pc[p] = "insert"
  /\ \/ /\ routine # NONE /\ ~Conflict(job[p].due) /\ made < MaxOccs
        /\ occ' = [occ EXCEPT ![made + 1] = NewOcc(job[p].due)]
        /\ made' = made + 1
        /\ Advanced(p, made + 1)
     \/ /\ routine # NONE /\ Open = {} /\ Conflict(job[p].due)
        /\ \E o \in Rows : /\ occ[o].dueOn = job[p].due
                           /\ occ' = [occ EXCEPT ![o] = NewOcc(job[p].due)]
                           /\ Advanced(p, o)
        /\ UNCHANGED made
     \/ routine # NONE /\ Open # {} /\ Goto(p, "reread") /\ UNCHANGED <<occ, made>>
     \/ routine = NONE /\ Done(p) /\ UNCHANGED <<occ, made>>
  /\ UNCHANGED routine /\ UNCHANGED outside

Insert(p) ==
  /\ pc[p] = "insert"
  /\ \/ /\ routine # NONE /\ ~Conflict(job[p].due) /\ made < MaxOccs
        /\ occ' = [occ EXCEPT ![made + 1] = NewOcc(job[p].due)]
        /\ made' = made + 1
        /\ Advanced(p, made + 1)
     \/ routine # NONE /\ Conflict(job[p].due) /\ Goto(p, "reread") /\ UNCHANGED <<occ, made>>
     \/ routine = NONE /\ Done(p) /\ UNCHANGED <<occ, made>>
  /\ UNCHANGED routine /\ UNCHANGED outside

ReadOpen(p) ==
  /\ pc[p] = "reread"
  /\ \/ \E o \in Open : Advanced(p, o)
     \/ Open = {} /\ Goto(p, "rowAgain")
  /\ UNCHANGED tables /\ UNCHANGED outside

(* The row with the same date, terminal or open; gone again: another attempt, *)
(* and after the third WeorcMaterialisationError.                              *)
ReadSameDate(p) ==
  LET same == {o \in Rows : occ[o].dueOn = job[p].due}
  IN  /\ pc[p] = "rowAgain"
      /\ \/ \E o \in same : Advanced(p, IF occ[o].status = "due" THEN o ELSE NONE)
         \/ same = {} /\ job[p].attempt < 3
            /\ Do(p, "insert", [job[p] EXCEPT !.attempt = job[p].attempt + 1])
         \/ same = {} /\ job[p].attempt = 3 /\ Done(p)
      /\ UNCHANGED tables /\ UNCHANGED outside
-----------------------------------------------------------------------------
(* project *)
Unlinked(p) ==
  /\ pc[p] = "unlinked"
  /\ \/ \E o \in Open : /\ HasTaskProvider /\ occ[o].link = NONE
                        /\ Do(p, "find", [job[p] EXCEPT !.occ = o, !.link = NONE])
     \/ /\ HasTaskProvider => \A o \in Open : occ[o].link # NONE
        /\ Done(p)
  /\ UNCHANGED tables /\ UNCHANGED outside

ProjectFind(p) ==
  /\ pc[p] = "find"
  /\ \/ routine = NONE /\ Done(p)
     \/ /\ routine # NONE
        /\ \/ \E t \in Marked(job[p].occ) : Do(p, "link", [job[p] EXCEPT !.link = t])
           \/ Marked(job[p].occ) = {} /\ Goto(p, "create")
  /\ UNCHANGED tables /\ UNCHANGED outside

(* createHouseholdTask: the provider's answer, then the mirror row.  A call that is *)
(* refused, or whose answer is lost, leaves the occurrence due and unlinked for the  *)
(* next tick: the task of a lost answer may be there or not.                        *)
NewTask(p, t) ==
  /\ pc[p] = "create"
  /\ task[t] = NONE /\ \A u \in 1..(t - 1) : task[u] # NONE
  /\ task' = [task EXCEPT ![t] = [marker |-> job[p].occ, state |-> "open", at |-> NONE]]
  /\ UNCHANGED <<today, mirror>> /\ UNCHANGED tables

CreateTask(p) == \E t \in TaskIds : NewTask(p, t) /\ Do(p, "mirror", [job[p] EXCEPT !.link = t])

CreateTaskLost(p) == "lostAnswer" \in Ops /\ (\E t \in TaskIds : NewTask(p, t)) /\ Done(p)

CreateTaskFails(p) ==
  /\ pc[p] = "create"
  /\ Done(p)
  /\ UNCHANGED tables /\ UNCHANGED outside

MirrorCreated(p) ==
  /\ pc[p] = "mirror"
  /\ mirror' = [mirror EXCEPT ![job[p].link] =
                  [marker |-> job[p].occ, state |-> "open", at |-> NONE]]
  /\ Goto(p, "link")
  /\ UNCHANGED <<today, task>> /\ UNCHANGED tables

Link(p) ==
  /\ pc[p] = "link"
  /\ SetProjection(job[p].occ, job[p].link)
  /\ Done(p)
  /\ UNCHANGED <<routine, made>> /\ UNCHANGED outside
-----------------------------------------------------------------------------
(* completeOccurrence, skipOccurrence *)
EndRead(p, o, status, m, ago) ==
  /\ "end" \in Ops /\ pc[p] = "idle"
  /\ o \in Open
  /\ Do(p, "end", [NoJob EXCEPT !.kind = "end", !.occ = o, !.link = occ[o].link,
                     !.status = status, !.at = today - ago, !.member = m])
  /\ UNCHANGED tables /\ UNCHANGED outside

(* After the UPDATE (and the outward call) the request reads today and advances. *)
ThenAdvance(p) == Do(p, "advance", [job[p] EXCEPT !.today = today])

End(p) ==
  /\ pc[p] = "end"
  /\ Terminate(p)
  /\ IF job[p].status = "completed" /\ job[p].link # NONE /\ HasTaskProvider
     THEN Goto(p, "outward") ELSE ThenAdvance(p)
  /\ UNCHANGED <<routine, made>> /\ UNCHANGED outside

(* completeProjectedTask: without a mirror row, or when the provider refuses,  *)
(* the completion stays local; any other error ends the request here.          *)
Outward(p) ==
  LET t == job[p].link
  IN  /\ pc[p] = "outward" /\ mirror[t] # NONE /\ task[t].state # "gone"
      /\ task' = [task EXCEPT ![t] = [task[t] EXCEPT !.state = "done", !.at = today]]
      /\ Goto(p, "local")
      /\ UNCHANGED <<today, mirror>> /\ UNCHANGED tables

OutwardFails(p) ==
  /\ pc[p] = "outward"
  /\ ThenAdvance(p) \/ Done(p)
  /\ UNCHANGED tables /\ UNCHANGED outside

Local(p) ==
  LET t == job[p].link
  IN  /\ pc[p] = "local"
      /\ mirror' = IF mirror[t] = NONE THEN mirror
                   ELSE [mirror EXCEPT ![t] = [mirror[t] EXCEPT !.state = "done", !.at = today]]
      /\ ThenAdvance(p)
      /\ UNCHANGED <<today, task>> /\ UNCHANGED tables
-----------------------------------------------------------------------------
(* createRoutine, updateRoutine, deleteRoutine *)
CreateRoutine(p, s) ==
  /\ routine = NONE /\ made = 0 /\ \A q \in Procs : pc[q] = "idle"
  /\ routine' = s
  /\ Do(p, "advance", [NoJob EXCEPT !.kind = "create", !.today = today])
  /\ UNCHANGED <<occ, made>> /\ UNCHANGED outside

UpdateRoutine(p, s) ==
  /\ "update" \in Ops /\ pc[p] = "idle" /\ routine # NONE
  /\ routine' = s
  /\ Do(p, "updOpen", [NoJob EXCEPT !.kind = "update", !.today = today, !.spec = s])
  /\ UNCHANGED <<occ, made>> /\ UNCHANGED outside

UpdateOpen(p) ==
  /\ pc[p] = "updOpen"
  /\ \/ \E o \in Open : /\ occ[o].link = NONE
                        /\ Do(p, "updHistory", [job[p] EXCEPT !.occ = o, !.due = occ[o].dueOn])
     \/ (\A o \in Open : occ[o].link # NONE) /\ Done(p)
  /\ UNCHANGED tables /\ UNCHANGED outside

UpdateHistory(p) ==
  LET due == DueAfterHistory(job[p].spec, job[p].today)
  IN  /\ pc[p] = "updHistory"
      /\ IF due = job[p].due THEN Done(p) ELSE Do(p, "move", [job[p] EXCEPT !.due = due])
      /\ UNCHANGED tables /\ UNCHANGED outside

(* moveOccurrence, an UPDATE by id; the unique (routine, dueOn) may refuse it. *)
Move(p) ==
  LET o == job[p].occ
  IN  /\ pc[p] = "move"
      /\ occ' = IF occ[o] = NONE \/ \E q \in Rows \ {o} : occ[q].dueOn = job[p].due THEN occ
                ELSE [occ EXCEPT ![o] = [occ[o] EXCEPT !.dueOn = job[p].due]]
      /\ Done(p)
      /\ UNCHANGED <<routine, made>> /\ UNCHANGED outside

DeleteRead(p) ==
  /\ "delete" \in Ops /\ pc[p] = "idle"
  /\ routine # NONE /\ Terminal = {}
  /\ Do(p, "delete", [NoJob EXCEPT !.kind = "delete"])
  /\ UNCHANGED tables /\ UNCHANGED outside

(* The foreign key of the occurrences cascades. *)
Delete(p) ==
  /\ pc[p] = "delete"
  /\ routine' = NONE
  /\ occ' = [o \in OccIds |-> NONE]
  /\ Done(p)
  /\ UNCHANGED made /\ UNCHANGED outside
-----------------------------------------------------------------------------
(* The task list and its mirror (tasks/store.ts), the calendar, a restart *)
MemberTicks(t) ==
  /\ "tasks" \in Ops
  /\ task[t] # NONE /\ task[t].state = "open"
  /\ task' = [task EXCEPT ![t] = [task[t] EXCEPT !.state = "done", !.at = today]]
  /\ UNCHANGED <<today, mirror, pc, job>> /\ UNCHANGED tables

(* A sync of the feed brings the row in line; a list that left the allowlist, or *)
(* a full resync, drops it although the task is there.                          *)
SyncTask(t) ==
  /\ "tasks" \in Ops
  /\ task[t] # NONE
  /\ mirror' = [mirror EXCEPT ![t] = IF task[t].state = "gone" THEN NONE ELSE task[t]]
  /\ UNCHANGED <<today, task, pc, job>> /\ UNCHANGED tables

DropMirror(t) ==
  /\ "drop" \in Ops
  /\ mirror[t] # NONE
  /\ mirror' = [mirror EXCEPT ![t] = NONE]
  /\ UNCHANGED <<today, task, pc, job>> /\ UNCHANGED tables

(* A member moves the task to another list: a new identity, the same notes. *)
TaskMoves(t, u) ==
  /\ "drop" \in Ops
  /\ task[t] # NONE /\ task[t].state # "gone"
  /\ task[u] = NONE /\ \A v \in 1..(u - 1) : task[v] # NONE
  /\ task' = [task EXCEPT ![u] = task[t], ![t] = [task[t] EXCEPT !.state = "gone"]]
  /\ UNCHANGED <<today, mirror, pc, job>> /\ UNCHANGED tables

NextDay ==
  /\ today < MaxDay
  /\ "midnight" \in Ops \/ \A p \in Procs : pc[p] = "idle"
  /\ today' = today + 1
  /\ UNCHANGED <<task, mirror, pc, job>> /\ UNCHANGED tables

Crash ==
  /\ "crash" \in Ops
  /\ \E p \in Procs : pc[p] # "idle"
  /\ pc' = [p \in Procs |-> "idle"] /\ job' = [p \in Procs |-> NoJob]
  /\ UNCHANGED tables /\ UNCHANGED outside
-----------------------------------------------------------------------------
Work(p) ==
  \/ Reconcile(p) \/ Relink(p) \/ Relinked(p) \/ Reconciled(p) \/ Materialise(p)
  \/ Advance(p) \/ AdvanceHistory(p) \/ Insert(p) \/ ReadOpen(p) \/ ReadSameDate(p)
  \/ Unlinked(p) \/ ProjectFind(p) \/ CreateTask(p) \/ CreateTaskLost(p) \/ CreateTaskFails(p)
  \/ MirrorCreated(p) \/ Link(p) \/ End(p) \/ Outward(p) \/ OutwardFails(p) \/ Local(p)
  \/ UpdateOpen(p) \/ UpdateHistory(p) \/ Move(p) \/ Delete(p)

Ask(p) ==
  \/ TickStart(p) \/ DeleteRead(p)
  \/ \E o \in OccIds, st \in {"completed", "skipped"}, m \in Members, ago \in Backdating :
       EndRead(p, o, st, m, ago)
  \/ \E s \in Specs : CreateRoutine(p, s) \/ UpdateRoutine(p, s)

Next ==
  \/ \E p \in Procs : Work(p) \/ Ask(p)
  \/ \E t \in TaskIds : MemberTicks(t) \/ SyncTask(t) \/ DropMirror(t)
  \/ \E t, u \in TaskIds : TaskMoves(t, u)
  \/ NextDay \/ Crash

Spec == Init /\ [][Next]_vars

(* The timer ticks on whatever requests run; every started call goes on.       *)
Fairness == /\ SF_vars(\E p \in Procs : TickStart(p))
            /\ \A p \in Procs : WF_vars(Work(p))

FairSpec == Spec /\ Fairness
-----------------------------------------------------------------------------
(* An occurrence is only ever linked to a task that was created for it, also   *)
(* when ticks, requests and re-links race: completing one chore's task never    *)
(* completes another chore.                                                     *)
LinkedToOwnTask ==
  \A o \in Rows : occ[o].link # NONE => task[occ[o].link] # NONE /\ task[occ[o].link].marker = o

(* The one chore that is due lies after everything done or skipped: no race     *)
(* between a tick and a completion brings back a slot already passed ("ONE      *)
(* overdue chore, never a backlog").                                            *)
NoBacklog == \A o \in Open : \A q \in Terminal : occ[q].dueOn < occ[o].dueOn

(* At most one outward task stands for an occurrence, though its mirror row    *)
(* comes and goes and the household moves it between lists.                     *)
AtMostOneTask ==
  \A o \in OccIds :
    Cardinality({t \in TaskIds : task[t] # NONE /\ task[t].marker = o /\ task[t].state # "gone"}) <= 1

(* What is done or skipped is never due again.                                  *)
NeverReopened == [][\A o \in Terminal : occ'[o] = NONE \/ occ'[o].status # "due"]_vars

(* schema.ts: once terminal an occurrence "IS the history row", and the README *)
(* refuses to complete or skip it again (ALREADY_TERMINAL) and to delete a      *)
(* routine that has such history (ROUTINE_HAS_HISTORY): what was done when, and *)
(* by whom, never changes and never disappears.                                *)
HistoryIsFinal ==
  [][\A o \in Terminal :
       occ'[o] # NONE /\ occ'[o] = [occ[o] EXCEPT !.link = occ'[o].link]]_vars

(* README, Occurrences: either path advances the routine to its next due       *)
(* occurrence.  A routine with work inside its horizon does not stay without an *)
(* open occurrence.                                                             *)
WorkDue == /\ Active /\ Open = {}
           /\ DueAfterHistory(routine, today) <= today + routine.lead

WorkIsMaterialised == WorkDue ~> ~WorkDue

(* A task the household ticked off, once the mirror shows it, ends its         *)
(* occurrence.                                                                  *)
TickedInList(o) == o \in Open /\ occ[o].link # NONE /\ mirror[occ[o].link] # NONE
                              /\ mirror[occ[o].link].state = "done"

TickedIsCompleted == \A o \in OccIds : TickedInList(o) ~> ~TickedInList(o)
=============================================================================
