--------------------------------- MODULE Hearth ---------------------------------
(* The kitchen wall (web/src/pages/hearth.tsx, web/src/lib/hearth.ts): a display that is never     *)
(* reloaded, polls, and takes three gestures: a task is tapped done, a supper is       *)
(* dragged to another day, the week is paged. Others write to the server meanwhile.   *)
EXTENDS Integers, SequencesExt

CONSTANTS NONE,
          Days, Dishes, Hands,     \* suppers: the days, what is eaten, the drags
          MaxIds,                  \* bound: plan entries ever made
          Tasks,
          FeedKeys,                \* a sequence of [kind, member, provider]
          STALE_AFTER,             \* of a feed, in ticks
          Offsets,                 \* the weeks paged to
          WeekLength, MaxAge,      \* in ticks
          LastTick                 \* bound: the time that passes

VARIABLES suppers, wall, swaps, made,                             \* the meal plan
          tasks, wallTasks, onScreen, completing, taps, fetching, sure, reopened,
          feeds,                                                  \* integration_sync_state
          clock, offset, stored, pagedAt, loaded                  \* the week on display

mealVars     == <<suppers, wall, swaps, made>>
taskVars     == <<tasks, wallTasks, onScreen, completing, taps, fetching, sure, reopened>>
positionVars == <<offset, stored, pagedAt, loaded>>
hearthVars   == <<mealVars, taskVars, feeds, clock, positionVars>>
-----------------------------------------------------------------------------
Upsert(d, dish) == [type |-> "upsert", day |-> d, dish |-> dish]
Delete(e) == [type |-> "delete", id |-> e.id]

\* Seeded fault: the day a supper is moved away from is not cleared.
SourceKept(entries, from, to) ==
  <<Upsert(to, entries[from].dish)>>
  \o IF entries[to] # NONE THEN <<Upsert(from, entries[to].dish)>> ELSE <<>>

(* The target day gets the source's supper first, then the source the target's, or    *)
(* nothing. The source is a supper that was picked up.                              *)
computeMealSwap(entries, from, to) ==
  <<Upsert(to, entries[from].dish),
    IF entries[to] # NONE THEN Upsert(from, entries[to].dish) ELSE Delete(entries[from])>>

DishOn(d) == IF suppers[d] = NONE THEN NONE ELSE suppers[d].dish
EntryDish(e) == IF e = NONE THEN NONE ELSE e.dish

RowWith(e, dish) == IF e = NONE THEN [dish |-> dish, id |-> made] ELSE [e EXCEPT !.dish = dish]

(* A swap is at peace as long as no one else writes the two days. *)
Disturbed(h, d) ==
  [g \in Hands |-> IF g # h /\ swaps[g] # NONE /\ swaps[g].at # "held" /\ d \in {swaps[g].from, swaps[g].to}
                   THEN [swaps[g] EXCEPT !.calm = FALSE] ELSE swaps[g]]

(* The drag keeps the entries it was begun with, whatever is fetched before the drop. *)
PickUp(h, from) ==
  /\ swaps[h] = NONE /\ \A g \in Hands : swaps[g] # NONE => swaps[g].at # "held"
  /\ wall[from] # NONE
  /\ swaps' = [swaps EXCEPT ![h] = [at |-> "held", from |-> from, entries |-> wall]]
  /\ UNCHANGED <<suppers, wall, made, taskVars, feeds, clock, positionVars>>

(* At peace: what it was begun with is what is there, and no other swap is under way. *)
onSwapMeal(h, to) ==
  /\ swaps[h] # NONE /\ swaps[h].at = "held" /\ to # swaps[h].from
  /\ LET from == swaps[h].from
         seen == swaps[h].entries
     IN  swaps' = [swaps EXCEPT ![h] =
           [at |-> "running", from |-> from, to |-> to,
            before |-> <<EntryDish(seen[from]), EntryDish(seen[to])>>,
            ops |-> computeMealSwap(seen, from, to),
            calm |-> /\ \A d \in {from, to} : seen[d] = suppers[d]
                     /\ \A g \in Hands \ {h} : swaps[g] # NONE => swaps[g].at # "running"]]
  /\ UNCHANGED <<suppers, wall, made, taskVars, feeds, clock, positionVars>>

(* The drop is outside, or the gesture was taken over. *)
Cancel(h) ==
  /\ swaps[h] # NONE /\ swaps[h].at = "held"
  /\ swaps' = [swaps EXCEPT ![h] = NONE]
  /\ UNCHANGED <<suppers, wall, made, taskVars, feeds, clock, positionVars>>

After(s) == IF Len(s.ops) = 1 THEN [s EXCEPT !.at = "done", !.ops = <<>>] ELSE [s EXCEPT !.ops = Tail(@)]

Running(h) == swaps[h] # NONE /\ swaps[h].at = "running"

(* One call of the swap: POST /meals/plan, keyed by the day. Its answer may be lost. *)
upsertMeal(h) ==
  /\ Running(h) /\ Head(swaps[h].ops).type = "upsert"
  /\ LET op == Head(swaps[h].ops)
     IN  /\ suppers[op.day] = NONE => made < MaxIds
         /\ suppers' = [suppers EXCEPT ![op.day] = RowWith(@, op.dish)]
         /\ made' = IF suppers[op.day] = NONE THEN made + 1 ELSE made
         /\ \E next \in {After(swaps[h]), NONE} : swaps' = [Disturbed(h, op.day) EXCEPT ![h] = next]
  /\ UNCHANGED <<wall, taskVars, feeds, clock, positionVars>>

deleteMeal(h) ==
  /\ Running(h) /\ Head(swaps[h].ops).type = "delete"
  /\ \E d \in Days :
       /\ suppers[d] # NONE /\ suppers[d].id = Head(swaps[h].ops).id
       /\ suppers' = [suppers EXCEPT ![d] = NONE]
       /\ \E next \in {After(swaps[h]), NONE} : swaps' = [Disturbed(h, d) EXCEPT ![h] = next]
  /\ UNCHANGED <<wall, made, taskVars, feeds, clock, positionVars>>

(* A call fails, or its entry is gone: a toast, and the rest of the swap is not done. *)
SwapFails(h) ==
  /\ Running(h)
  /\ swaps' = [swaps EXCEPT ![h] = NONE]
  /\ UNCHANGED <<suppers, wall, made, taskVars, feeds, clock, positionVars>>

Finish(h) ==
  /\ swaps[h] # NONE /\ swaps[h].at = "done"
  /\ swaps' = [swaps EXCEPT ![h] = NONE]
  /\ UNCHANGED <<suppers, wall, made, taskVars, feeds, clock, positionVars>>

PollPlan ==
  /\ wall' = suppers
  /\ UNCHANGED <<suppers, swaps, made, taskVars, feeds, clock, positionVars>>

(* Another device plans or clears a supper. *)
PlanElsewhere ==
  /\ \E d \in Days :
       /\ \/ \E dish \in Dishes :
               /\ suppers[d] = NONE => made < MaxIds
               /\ suppers' = [suppers EXCEPT ![d] = RowWith(@, dish)]
               /\ made' = IF suppers[d] = NONE THEN made + 1 ELSE made
          \/ suppers[d] # NONE /\ suppers' = [suppers EXCEPT ![d] = NONE] /\ UNCHANGED made
       /\ swaps' = Disturbed(NONE, d)
  /\ UNCHANGED <<wall, taskVars, feeds, clock, positionVars>>
-----------------------------------------------------------------------------
(* The tasks are in the answers of two queries, the week's and the month's; each is kept *)
(* when another page is on screen.                                                   *)
Queries == {"week", "month"}

(* What a task looks like in the week, where it can be tapped: tapped ones are struck *)
(* through before the poll says so.                                                  *)
tasksForDay(t) ==
  CASE onScreen # "week" -> "away"
    [] t \in completing \/ wallTasks["week"][t] = "completed" -> "struck"
    [] OTHER -> "open"

\* Seeded fault: every fetch clears the marks of the taps.
NoneLeft(ids, shown) == {}

(* The marks of taps the server has not confirmed. *)
StillPending(ids, shown) == {t \in ids : shown[t] # "completed"}

Sent == [seen |-> NONE]

onCompleteTask(t) ==
  /\ tasksForDay(t) = "open" /\ taps[t] = NONE
  /\ completing' = completing \cup {t}
  /\ taps' = [taps EXCEPT ![t] = "sent"]
  /\ UNCHANGED <<tasks, wallTasks, onScreen, fetching, sure, reopened, mealVars, feeds, clock, positionVars>>

CompleteOnServer(t) ==
  /\ taps[t] = "sent"
  /\ taps' = [taps EXCEPT ![t] = "applied"]
  /\ tasks' = [tasks EXCEPT ![t] = "completed"]
  /\ UNCHANGED <<wallTasks, onScreen, completing, fetching, sure, reopened, mealVars, feeds, clock, positionVars>>

(* The tasks are invalidated: what is being fetched for the screen is fetched anew. *)
CompleteSucceeds(t) ==
  /\ taps[t] = "applied"
  /\ taps' = [taps EXCEPT ![t] = NONE]
  /\ fetching' = [q \in Queries |-> IF q = onScreen THEN Sent ELSE fetching[q]]
  /\ sure' = IF t \in reopened THEN sure ELSE sure \cup {t}
  /\ UNCHANGED <<tasks, wallTasks, onScreen, completing, reopened, mealVars, feeds, clock, positionVars>>

CompleteFails(t) ==
  /\ taps[t] # NONE
  /\ taps' = [taps EXCEPT ![t] = NONE]
  /\ completing' = completing \ {t}
  /\ UNCHANGED <<tasks, wallTasks, onScreen, fetching, sure, reopened, mealVars, feeds, clock, positionVars>>

TaskElsewhere(t) ==
  /\ \/ tasks[t] = "open" /\ tasks' = [tasks EXCEPT ![t] = "completed"] /\ UNCHANGED <<reopened, sure>>
     \/ /\ tasks[t] = "completed" /\ tasks' = [tasks EXCEPT ![t] = "open"]
        /\ reopened' = reopened \cup {t} /\ sure' = sure \ {t}
  /\ UNCHANGED <<wallTasks, onScreen, completing, taps, fetching, mealVars, feeds, clock, positionVars>>

PollTasks ==
  /\ onScreen \in Queries /\ fetching[onScreen] = NONE
  /\ fetching' = [fetching EXCEPT ![onScreen] = Sent]
  /\ UNCHANGED <<tasks, wallTasks, onScreen, completing, taps, sure, reopened, mealVars, feeds, clock, positionVars>>

ReadTasks(q) ==
  /\ fetching[q] = Sent /\ fetching' = [fetching EXCEPT ![q] = [seen |-> tasks]]
  /\ UNCHANGED <<tasks, wallTasks, onScreen, completing, taps, sure, reopened, mealVars, feeds, clock, positionVars>>

(* The answer is shown and the confirmed marks go; off screen it is only kept. *)
TasksArrive(q) ==
  /\ fetching[q] \notin {NONE, Sent} /\ fetching' = [fetching EXCEPT ![q] = NONE]
  /\ wallTasks' = [wallTasks EXCEPT ![q] = fetching[q].seen]
  /\ completing' = IF q = onScreen THEN StillPending(completing, fetching[q].seen) ELSE completing
  /\ UNCHANGED <<tasks, onScreen, taps, sure, reopened, mealVars, feeds, clock, positionVars>>

FetchLost(q) ==
  /\ fetching[q] # NONE /\ fetching' = [fetching EXCEPT ![q] = NONE]
  /\ UNCHANGED <<tasks, wallTasks, onScreen, completing, taps, sure, reopened, mealVars, feeds, clock, positionVars>>

(* The week of the tasks is paged away from, or turned into the month, and back.  What was *)
(* kept of a query is shown at once, and its answer clears the marks, whichever query the *)
(* mark was made over.                                                                 *)
PageTasks(to) ==
  /\ to # onScreen /\ onScreen' = to
  /\ completing' = IF to \in Queries THEN StillPending(completing, wallTasks[to]) ELSE completing
  /\ fetching' = [q \in Queries |-> IF q = to /\ fetching[q] = NONE THEN Sent ELSE fetching[q]]
  /\ UNCHANGED <<tasks, wallTasks, taps, sure, reopened, mealVars, feeds, clock, positionVars>>
-----------------------------------------------------------------------------
(* Whose band a feed greys: a Google household calendar has a member's key. *)
ownerOfFeed(k) == IF k.kind = "family" /\ k.provider = "m365" THEN "family" ELSE k.member

feedIsStale(f) == f.error # NONE \/ f.failures > 0 \/ f.success = NONE \/ clock - f.success > STALE_AFTER

(* Of two last successes the older; a feed that never had one does not count. *)
Oldest(a, b) == IF a = NONE THEN b ELSE IF b = NONE THEN a ELSE IF b < a THEN b ELSE a

\* Seeded fault: the last feed of an owner decides.
LastDecides(info, f) ==
  [stale |-> feedIsStale(f), needsReauth |-> f.error = "needs_reauth", lastSuccessAt |-> f.success]

AddFeed(info, f) ==
  [stale |-> info.stale \/ feedIsStale(f),
   needsReauth |-> info.needsReauth \/ f.error = "needs_reauth",
   lastSuccessAt |-> Oldest(info.lastSuccessAt, f.success)]

(* One pass over the feeds in the order of the answer. *)
deriveStaleness(owner) ==
  LET own == SelectSeq([i \in DOMAIN FeedKeys |-> i], LAMBDA i : ownerOfFeed(FeedKeys[i]) = owner)
  IN  FoldLeft(LAMBDA info, i : AddFeed(info, feeds[i]),
               [stale |-> FALSE, needsReauth |-> FALSE, lastSuccessAt |-> NONE], own)

FeedSucceeds(i) ==
  /\ feeds' = [feeds EXCEPT ![i] = [success |-> clock, error |-> NONE, failures |-> 0]]
  /\ UNCHANGED <<mealVars, taskVars, clock, positionVars>>

FeedFails(i) ==
  /\ \E e \in {"needs_reauth", "sync_failed"} :
       feeds' = [feeds EXCEPT ![i] = [@ EXCEPT !.error = e, !.failures = 1]]
  /\ UNCHANGED <<mealVars, taskVars, clock, positionVars>>
-----------------------------------------------------------------------------
week == clock \div WeekLength

(* The position is kept as the week shown, and only when it is changed by hand. *)
page(o) ==
  /\ o \in Offsets /\ o # offset /\ offset' = o
  /\ stored' = IF o = 0 THEN NONE ELSE [at |-> clock, week |-> week + o]
  /\ pagedAt' = IF o = 0 THEN NONE ELSE [at |-> clock, week |-> week + o]
  /\ loaded' = NONE
  /\ UNCHANGED <<mealVars, taskVars, feeds, clock>>

(* What is stored is the week, and counts for a while. *)
loadExpiringUiState == IF stored = NONE \/ clock - stored.at > MaxAge THEN NONE ELSE stored.week

loadHearthPosition == IF loadExpiringUiState = NONE THEN 0 ELSE loadExpiringUiState - week

\* Seeded fault: the position that was restored is saved again.
SavedAgain == stored' = IF offset' = 0 THEN NONE ELSE [at |-> clock, week |-> week + offset']

SavedPosition == UNCHANGED stored

Reload ==
  /\ offset' = loadHearthPosition
  /\ SavedPosition
  /\ loaded' = clock
  /\ UNCHANGED <<pagedAt, mealVars, taskVars, feeds, clock>>

TimePasses ==
  /\ clock < LastTick /\ clock' = clock + 1
  /\ UNCHANGED <<mealVars, taskVars, feeds, positionVars>>
-----------------------------------------------------------------------------
HearthInit ==
  /\ \E planned \in [Days -> Dishes \cup {NONE}] :
       suppers = [d \in Days |-> IF planned[d] = NONE THEN NONE ELSE [dish |-> planned[d], id |-> d]]
  /\ wall = suppers
  /\ swaps = [h \in Hands |-> NONE] /\ made = 1
  /\ tasks = [t \in Tasks |-> "open"] /\ wallTasks = [q \in Queries |-> tasks]
  /\ onScreen = "week" /\ completing = {} /\ fetching = [q \in Queries |-> NONE]
  /\ taps = [t \in Tasks |-> NONE] /\ sure = {} /\ reopened = {}
  /\ feeds = [i \in DOMAIN FeedKeys |-> [success |-> NONE, error |-> NONE, failures |-> 0]]
  /\ clock = 0 /\ offset = 0 /\ stored = NONE /\ pagedAt = NONE /\ loaded = NONE

HearthNext ==
  \/ \E h \in Hands : \/ \E d \in Days : PickUp(h, d) \/ onSwapMeal(h, d)
                      \/ Cancel(h) \/ upsertMeal(h) \/ deleteMeal(h) \/ SwapFails(h) \/ Finish(h)
  \/ PollPlan \/ PlanElsewhere
  \/ \E t \in Tasks : \/ onCompleteTask(t) \/ CompleteOnServer(t) \/ CompleteSucceeds(t)
                      \/ CompleteFails(t) \/ TaskElsewhere(t)
  \/ Tasks # {} /\ (PollTasks \/ \E to \in Queries \cup {"other"} : PageTasks(to))
  \/ Tasks # {} /\ \E q \in Queries : ReadTasks(q) \/ TasksArrive(q) \/ FetchLost(q)
  \/ \E i \in DOMAIN FeedKeys : FeedSucceeds(i) \/ FeedFails(i)
  \/ \E o \in Offsets : page(o)
  \/ Reload \/ TimePasses

HearthSpec == HearthInit /\ [][HearthNext]_hearthVars
-----------------------------------------------------------------------------
HearthTypeOK ==
  /\ suppers \in [Days -> {NONE} \cup [dish : Dishes, id : Days \cup 1..MaxIds]]
  /\ wall \in [Days -> {NONE} \cup [dish : Dishes, id : Days \cup 1..MaxIds]]
  /\ made \in 1..MaxIds
  /\ tasks \in [Tasks -> {"open", "completed"}]
  /\ wallTasks \in [Queries -> [Tasks -> {"open", "completed"}]]
  /\ onScreen \in Queries \cup {"other"} /\ completing \subseteq Tasks /\ sure \subseteq Tasks /\ reopened \subseteq Tasks
  /\ taps \in [Tasks -> {NONE, "sent", "applied"}]
  /\ fetching \in [Queries -> {NONE, Sent} \cup [seen : [Tasks -> {"open", "completed"}]]]
  /\ clock \in 0..LastTick /\ offset \in Int

(* A swap that runs to its end while no one else writes its two days exchanges their  *)
(* suppers, and until then each of them is in the plan or still to be written: that   *)
(* a failed call loses one is the known gap (hearth.tsx:186-197, hearth.ts:253-281).  *)
SwapsExchange ==
  \A h \in Hands :
    /\ (swaps[h] # NONE /\ swaps[h].at = "done" /\ swaps[h].calm)
         => DishOn(swaps[h].from) = swaps[h].before[2] /\ DishOn(swaps[h].to) = swaps[h].before[1]
    /\ (Running(h) /\ swaps[h].calm)
         => \A i \in 1..2 :
              \/ swaps[h].before[i] \in {NONE, DishOn(swaps[h].from), DishOn(swaps[h].to)}
              \/ \E op \in ToSet(swaps[h].ops) : op.type = "upsert" /\ op.dish = swaps[h].before[i]

(* A tap the server took does not come undone on the wall, through polls in flight      *)
(* and paging, as long as no one reopens the task; and a task stays struck through by     *)
(* hand only if it was done (hearth.tsx:155-164, 176-184).  The one way it does is the     *)
(* month's answer, which clears the mark while what was kept of the week's is older: the   *)
(* task is open again until the week is fetched.                                         *)
TapsHold ==
  \A t \in Tasks :
    /\ t \in sure => tasksForDay(t) # "open" \/ wallTasks["month"][t] = "completed"
    /\ (t \in completing /\ taps[t] = NONE) => tasks[t] = "completed" \/ t \in reopened

(* A band is greyed if one of its owner's feeds has failed or gone silent, and the    *)
(* time given for it is the oldest success (hearth.ts:355-385).                      *)
StalenessRight ==
  \A o \in {ownerOfFeed(FeedKeys[i]) : i \in DOMAIN FeedKeys} :
    LET own  == {feeds[i] : i \in {j \in DOMAIN FeedKeys : ownerOfFeed(FeedKeys[j]) = o}}
        info == deriveStaleness(o)
    IN  /\ info.stale <=> \E f \in own : feedIsStale(f)
        /\ info.needsReauth <=> \E f \in own : f.error = "needs_reauth"
        /\ \A f \in own : f.success # NONE => info.lastSuccessAt # NONE /\ info.lastSuccessAt <= f.success
        /\ info.lastSuccessAt # NONE => \E f \in own : f.success = info.lastSuccessAt

(* A wall that was reloaded shows the week it was paged to, but only for a while      *)
(* after the paging, however often it is reloaded (hearth.tsx:74-84, hearth-prefs.ts).*)
PositionFades ==
  (loaded # NONE /\ clock = loaded) =>
    offset = IF pagedAt = NONE \/ clock - pagedAt.at > MaxAge THEN 0 ELSE pagedAt.week - week

WallRight == SwapsExchange /\ TapsHold /\ StalenessRight /\ PositionFades
=============================================================================
