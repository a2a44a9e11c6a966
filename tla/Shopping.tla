-------------------------------- MODULE Shopping --------------------------------
(***************************************************************************)
(* The shopping list: generated from the meal plan by modules/meals, and   *)
(* checked off on a phone that is offline half of the time                 *)
(* (web/src/lib/shopping-offline.ts, hooks/use-offline-shopping-list.ts).  *)
(*                                                                         *)
(* The list is generated in two reads and two writes without a transaction;*)
(* a check-off that fails, whether or not it arrived, is queued and        *)
(* replayed later.  Nothing orders the requests of one item: crossed says  *)
(* of which items an older one may come last, and no step looks at it.     *)
(***************************************************************************)
EXTENDS Integers, FiniteSetsExt

CONSTANTS Recipes, Slots,   \* recipes, and the dates and meals of the plan
          Goods, Needs,     \* what can be bought, and of it each recipe's ingredients
          Items,            \* bound: rows the list ever has
          Procs,            \* generate requests in flight
          Replays,          \* replays in progress: one of the mount, one of an online event
          NONE

VARIABLES recipes, plan,    \* recipes; meal_plan_entries: the recipe of each slot
          list, used,       \* shopping_list_items: the row, or NONE; the ids there were
          job,              \* generate requests
          online, queue,    \* the phone's connection, and its localStorage queue
          patches,          \* its PATCH requests in flight: taps, of a replay, given up
          replay,           \* the entries each replay has left to send, NONE when not running
          wanted,           \* the last tap on an item, NONE when there is none to stand
          crossed           \* the items whose last tap an older request or entry can undo

shoppingVars == <<recipes, plan, list, used, job, online, queue, patches, replay, wanted, crossed>>
meals == <<recipes, plan>>
phone == <<online, queue, patches, replay, wanted, crossed>>
-----------------------------------------------------------------------------
Row == [good : Goods, qty : Nat, source : Recipes \cup {NONE}, checked : BOOLEAN, hand : BOOLEAN]

ShoppingTypeOK ==
  /\ recipes \subseteq Recipes
  /\ plan \in [Slots -> recipes \cup {NONE}]
  /\ list \in [Items -> Row \cup {NONE}] /\ used \subseteq Items
  /\ \A i \in Items : list[i] # NONE => i \in used /\ list[i].source \in recipes \cup {NONE}
  /\ online \in BOOLEAN
  /\ queue \in [Items -> BOOLEAN \cup {NONE}] /\ wanted \in [Items -> BOOLEAN \cup {NONE}]
  /\ \A x \in patches : /\ x.item \in Items /\ x.by \in Replays \cup {NONE, "gone"}
                        /\ x.at \in {"sent", "applied", "missing"} /\ (x.by = "gone" => x.at = "sent")
  /\ crossed \subseteq Items

ShoppingInit ==
  /\ recipes = Recipes /\ plan = [s \in Slots |-> NONE]
  /\ list = [i \in Items |-> NONE] /\ used = {} /\ job = [p \in Procs |-> NONE]
  /\ online = TRUE /\ queue = [i \in Items |-> NONE] /\ patches = {}
  /\ replay = [r \in Replays |-> NONE] /\ wanted = [i \in Items |-> NONE]
  /\ crossed = {}
-----------------------------------------------------------------------------
Present(i) == list[i] # NONE
Fresh      == Items \ used
Generated  == {i \in Items : Present(i) /\ list[i].source # NONE}
Without(is) == [i \in Items |-> IF i \in is THEN NONE ELSE list[i]]

upsertPlanEntry(s, r) ==
  /\ r \in recipes \cup {NONE} /\ plan[s] # r
  /\ plan' = [plan EXCEPT ![s] = r]
  /\ UNCHANGED <<recipes, list, used, job, phone>>

(* ON DELETE SET NULL, in the plan and in the list: what it put there looks hand-added. *)
deleteRecipe(r) ==
  /\ r \in recipes /\ recipes' = recipes \ {r}
  /\ plan' = [s \in Slots |-> IF plan[s] = r THEN NONE ELSE plan[s]]
  /\ list' = [i \in Items |-> IF i \in Generated /\ list[i].source = r
                              THEN [list[i] EXCEPT !.source = NONE] ELSE list[i]]
  /\ UNCHANGED <<used, job, phone>>

Adds(i, row) == list' = [list EXCEPT ![i] = row] /\ used' = used \cup {i}

addShoppingItem(g) ==
  /\ \E i \in Fresh : Adds(i, [good |-> g, qty |-> 1, source |-> NONE, checked |-> FALSE, hand |-> TRUE])
  /\ UNCHANGED <<meals, job, phone>>

removeShoppingItem(i) ==
  /\ Present(i) /\ list' = Without({i})
  /\ UNCHANGED <<meals, used, job, phone>>

(* Another device checks an item off: what this phone wanted no longer stands. *)
CheckElsewhere(i, checked) ==
  /\ Present(i) /\ list[i].checked # checked
  /\ list' = [list EXCEPT ![i].checked = checked]
  /\ wanted' = [wanted EXCEPT ![i] = NONE]
  /\ UNCHANGED <<meals, used, job, online, queue, patches, replay, crossed>>
-----------------------------------------------------------------------------
(* generateShoppingList: the plan, then the recipes, then a delete, then an insert. *)
Does(p, j) == job' = [job EXCEPT ![p] = j]
At(p, pc)  == job[p] # NONE /\ job[p].pc = pc

ReadPlan(p) ==
  /\ job[p] = NONE
  /\ Does(p, [pc |-> "recipes", plan |-> plan])
  /\ UNCHANGED <<meals, list, used, phone>>

Meals(planned, g) == {s \in Slots : planned[s] \in recipes /\ Needs[planned[s]][g] > 0}
Total(planned, g) == MapThenSumSet(LAMBDA s : Needs[planned[s]][g], Meals(planned, g))

(* Like ingredients are one row, of the first recipe that needs them. *)
Ingredient(planned, g) ==
  [good |-> g, qty |-> Total(planned, g), source |-> planned[CHOOSE s \in Meals(planned, g) : TRUE],
   checked |-> FALSE, hand |-> FALSE]

ReadRecipes(p) ==
  /\ At(p, "recipes")
  /\ Does(p, [pc |-> "delete", rows |->
               {Ingredient(job[p].plan, g) : g \in {h \in Goods : Meals(job[p].plan, h) # {}}}])
  /\ UNCHANGED <<meals, list, used, phone>>

AllRows == {i \in Items : Present(i)}  \* seeded fault: the whole list is replaced

Replaced == Generated

DeleteGenerated(p) ==
  /\ At(p, "delete") /\ list' = Without(Replaced)
  /\ Does(p, [job[p] EXCEPT !.pc = "insert"])
  /\ UNCHANGED <<meals, used, phone>>

(* A recipe that was deleted meanwhile fails the insert: the list stays without it. *)
InsertGenerated(p) ==
  /\ At(p, "insert") /\ Does(p, NONE)
  /\ \/ /\ \E r \in job[p].rows : r.source \notin recipes
        /\ UNCHANGED <<list, used>>
     \/ \E at \in [job[p].rows -> Fresh] :
          /\ \A r \in job[p].rows : r.source \in recipes
          /\ \A r, q \in job[p].rows : at[r] = at[q] => r = q
          /\ list' = [i \in Items |-> IF \E r \in job[p].rows : at[r] = i
                                      THEN CHOOSE r \in job[p].rows : at[r] = i ELSE list[i]]
          /\ used' = used \cup {at[r] : r \in job[p].rows}
  /\ UNCHANGED <<meals, phone>>
-----------------------------------------------------------------------------
Busy(i) == \/ \E x \in patches : x.item = i
           \/ \E r \in Replays : replay[r] # NONE /\ \E e \in replay[r] : e.item = i

Live(i) == {x \in patches : x.item = i /\ x.by = NONE}

(* toggle, to the opposite of what the screen shows.  A request or a replay of the item *)
(* that is under way can arrive after this tap, or take what is queued with it.         *)
(* Bound: one request of a tap for each item and value.                                *)
Tap(i) ==
  /\ Present(i)
  /\ \E checked \in BOOLEAN :
       /\ \A x \in Live(i) : x.checked # checked
       /\ patches' = patches \cup {[item |-> i, checked |-> checked, by |-> NONE, at |-> "sent"]}
       /\ wanted' = [wanted EXCEPT ![i] = checked]
  /\ crossed' = IF Busy(i) THEN crossed \cup {i} ELSE crossed \ {i}
  /\ UNCHANGED <<meals, list, used, job, online, queue, replay>>

(* The server's updateShoppingItem.  Nobody waits for the answer of a request that was *)
(* given up.                                                                          *)
Arrive(x) ==
  /\ online /\ x.at = "sent"
  /\ patches' = (patches \ {x}) \cup
                IF x.by = "gone" THEN {}
                ELSE {[x EXCEPT !.at = IF Present(x.item) THEN "applied" ELSE "missing"]}
  /\ list' = IF Present(x.item) THEN [list EXCEPT ![x.item].checked = x.checked] ELSE list
  /\ UNCHANGED <<meals, used, job, online, queue, replay, wanted, crossed>>

(* A request the phone gave up is lost, or arrives later; two alike count as one. *)
GivenUp(xs) == {[x EXCEPT !.by = "gone"] : x \in {y \in xs : y.at = "sent"}}

Lost(x) ==
  /\ x.by = "gone" /\ patches' = patches \ {x}
  /\ UNCHANGED <<meals, list, used, job, online, queue, replay, wanted, crossed>>

(* Seeded fault: what is queued already stays queued. *)
FirstWins(i, checked) == IF queue[i] = NONE THEN [queue EXCEPT ![i] = checked] ELSE queue

enqueueCheckoff(i, checked) == [queue EXCEPT ![i] = checked]

removeQueuedCheckoff(i) == [queue EXCEPT ![i] = NONE]

(* A replay goes on to its next entry, or ends. *)
Onward(r, entry) == replay' = [replay EXCEPT ![r] = IF @ = {entry} THEN NONE ELSE @ \ {entry}]

(* An answer: a replayed entry leaves the queue on success and on 404, a tap is queued *)
(* unless it succeeded.  One that did leaves what is queued of its item there, and the *)
(* next replay sets the item back to it.                                              *)
Answered(x) ==
  /\ x.at # "sent" /\ online
  /\ patches' = patches \ {x}
  /\ IF x.by = NONE
     THEN /\ queue' = IF x.at = "applied" THEN queue ELSE enqueueCheckoff(x.item, x.checked)
          /\ crossed' = IF x.at = "applied" /\ queue[x.item] # NONE THEN crossed \cup {x.item} ELSE crossed
          /\ UNCHANGED replay
     ELSE /\ queue' = removeQueuedCheckoff(x.item) /\ Onward(x.by, [item |-> x.item, checked |-> x.checked])
          /\ UNCHANGED crossed
  /\ UNCHANGED <<meals, list, used, job, online, wanted>>

(* A failure, of what arrived or of what still may: a tap is queued, a replayed entry stays. *)
Fails(x) ==
  /\ x.by # "gone"
  /\ patches' = (patches \ {x}) \cup GivenUp({x})
  /\ IF x.by = NONE
     THEN queue' = enqueueCheckoff(x.item, x.checked) /\ UNCHANGED replay
     ELSE Onward(x.by, [item |-> x.item, checked |-> x.checked]) /\ UNCHANGED queue
  /\ UNCHANGED <<meals, list, used, job, online, wanted, crossed>>

(* replayQueuedCheckoffs, one entry after the other, on mount or when the browser comes *)
(* online, also while a newer tap of a queued item is on its way.                       *)
Queued == {i \in Items : queue[i] # NONE}

StartReplay(r) ==
  /\ replay[r] = NONE /\ Queued # {}
  /\ replay' = [replay EXCEPT ![r] = {[item |-> i, checked |-> queue[i]] : i \in Queued}]
  /\ crossed' = crossed \cup {i \in Queued : Live(i) # {}}
  /\ UNCHANGED <<meals, list, used, job, online, queue, patches, wanted>>

Send(r) ==
  /\ replay[r] # NONE /\ \A x \in patches : x.by # r
  /\ \E e \in replay[r] :
       patches' = patches \cup {[item |-> e.item, checked |-> e.checked, by |-> r, at |-> "sent"]}
  /\ UNCHANGED <<meals, list, used, job, online, queue, replay, wanted, crossed>>

Connection == online' = ~online /\ UNCHANGED <<meals, list, used, job, queue, patches, replay, wanted, crossed>>

(* The page is closed: a tap whose request was under way is not queued, and lost if it *)
(* does not arrive; the queue survives.                                               *)
Reload ==
  /\ patches # {} \/ \E r \in Replays : replay[r] # NONE
  /\ patches' = GivenUp(patches) /\ replay' = [r \in Replays |-> NONE]
  /\ wanted' = [i \in Items |-> IF Live(i) # {} THEN NONE ELSE wanted[i]]
  /\ UNCHANGED <<meals, list, used, job, online, queue, crossed>>

ShoppingNext ==
  \/ \E s \in Slots, r \in Recipes \cup {NONE} : upsertPlanEntry(s, r)
  \/ \E r \in Recipes : deleteRecipe(r)
  \/ \E g \in Goods : addShoppingItem(g)
  \/ \E i \in Items : removeShoppingItem(i) \/ Tap(i) \/ \E b \in BOOLEAN : CheckElsewhere(i, b)
  \/ \E p \in Procs : ReadPlan(p) \/ ReadRecipes(p) \/ DeleteGenerated(p) \/ InsertGenerated(p)
  \/ \E x \in patches : Arrive(x) \/ Answered(x) \/ Fails(x) \/ Lost(x)
  \/ \E r \in Replays : StartReplay(r) \/ Send(r)
  \/ Connection \/ Reload

ShoppingSpec == ShoppingInit /\ [][ShoppingNext]_shoppingVars
-----------------------------------------------------------------------------
(* Once nothing is queued or under way, an item is checked as it was last tapped, *)
(* however often the phone was offline and whatever was sent twice                *)
(* (shopping-offline.ts:12-17), unless that tap was crossed: made while a request *)
(* or a replay of the item was under way, answered while an older one was queued, *)
(* or on its way when a replay took the older one up.                             *)
TapsArrive ==
  (\A x \in patches : x.by = "gone") /\ Queued = {} /\ (\A r \in Replays : replay[r] = NONE) =>
    \A i \in Items \ crossed : Present(i) /\ wanted[i] # NONE => list[i].checked = wanted[i]

(* A generated list replaces only what was generated, a hand-added item is there  *)
(* until it is removed (service.ts:124), and taps arrive.                         *)
ShoppingStep ==
  /\ \A p \in Procs : At(p, "delete") /\ job'[p] # job[p] =>
       \A i \in Items : Present(i) /\ list[i].hand => list'[i] = list[i]
  /\ TapsArrive'
=============================================================================
