------------------------------- MODULE WebCache -------------------------------
(* What the browser shows of the server's data: the query cache of the web       *)
(* client. A view is a query key; the hooks fetch it, and every mutation names    *)
(* the keys it invalidates when it succeeds, by prefix. Whether a view on screen   *)
(* is out of date depends on the tables its endpoint reads, the tables the        *)
(* mutation's endpoint writes, and on what was in flight in between.              *)
EXTENDS Naturals, WebQueries

CONSTANTS NONE,
          Shown          \* the views looked at, one in each behaviour

VARIABLES view,          \* the key that is looked at
          mounted,       \* a component reads it
          data,          \* what the cache holds: "none", "current" or "old"
          invalid,       \* it was invalidated since it was fetched
          age,           \* 0, 1 past the stale time of a page, 2 past that of a badge
          fetch,         \* NONE, "sent", or what the server answered: "current", "old"
          write,         \* the mutation under way: its name, and whether it was "sent" or "applied"
          cause          \* why the data may be old, NONE as long as there is no excuse

cacheVars == <<view, mounted, data, invalid, age, fetch, write, cause>>
-----------------------------------------------------------------------------
(* The keys a navigation badge reads: fresh for five minutes, not for half a minute. *)
Badges == {<<"tasks", "open">>, <<"shoppingList">>, <<"weorc", "routines", "navDue">>,
           <<"feoh", "import", "status">>}

(* The views the wall display fetches again and again. *)
Polled == {<<"events", "range">>, <<"tasks", "open">>, <<"mealPlan", "week">>,
           <<"integrations", "feedStatus">>}

(* A component that appears, or a window that comes back, fetches what is stale for *)
(* it. A badge and a page share their key, each with its own patience.              *)
StaleTimes(v) == IF v \in Badges THEN {1, 2} ELSE {1}

IsStale(limit) == data = "none" \/ invalid \/ age >= limit

CacheInit ==
  /\ view \in Shown
  /\ mounted = FALSE /\ data = "none" /\ invalid = FALSE /\ age = 0
  /\ fetch = NONE /\ write = NONE /\ cause = NONE

(* A fetch that is under way is waited for, not repeated. *)
Ask == fetch' = IF fetch = NONE THEN "sent" ELSE fetch

Mount ==
  /\ ~mounted /\ mounted' = TRUE
  /\ \E limit \in StaleTimes(view) : IF IsStale(limit) THEN Ask ELSE UNCHANGED fetch
  /\ UNCHANGED <<view, data, invalid, age, write, cause>>

(* What is in flight for a view that is gone still arrives. *)
Unmount ==
  /\ mounted /\ mounted' = FALSE
  /\ UNCHANGED <<view, data, invalid, age, fetch, write, cause>>

(* The window is focused, or the network is back. *)
Focus ==
  /\ mounted
  /\ \E limit \in StaleTimes(view) : IsStale(limit)
  /\ Ask
  /\ UNCHANGED <<view, mounted, data, invalid, age, write, cause>>

Poll ==
  /\ mounted /\ view \in Polled
  /\ Ask
  /\ UNCHANGED <<view, mounted, data, invalid, age, write, cause>>

GrowOld ==
  /\ age < 2 /\ age' = age + 1
  /\ UNCHANGED <<view, mounted, data, invalid, fetch, write, cause>>

(* A view nothing reads is dropped from the cache in the end. *)
Collect ==
  /\ ~mounted /\ fetch = NONE /\ data # "none"
  /\ data' = "none" /\ invalid' = FALSE /\ age' = 0 /\ cause' = NONE
  /\ UNCHANGED <<view, mounted, fetch, write>>
-----------------------------------------------------------------------------
ServerReads ==
  /\ fetch = "sent" /\ fetch' = "current"
  /\ UNCHANGED <<view, mounted, data, invalid, age, write, cause>>

(* An answer replaces the data and takes the mark of an invalidation away, also when *)
(* it was read before what the mark stands for.                                    *)
FetchArrives ==
  /\ fetch \in {"current", "old"}
  /\ data' = fetch /\ invalid' = FALSE /\ age' = 0 /\ fetch' = NONE
  /\ cause' = IF fetch = "current" THEN NONE ELSE IF invalid THEN "raced" ELSE cause
  /\ UNCHANGED <<view, mounted, write>>

(* The fetch and its retry fail: the page says so and keeps what it has. *)
FetchFails ==
  /\ fetch # NONE /\ fetch' = NONE
  /\ cause' = IF data = "old" THEN "failed" ELSE cause
  /\ UNCHANGED <<view, mounted, data, invalid, age, write>>

(* Something writes what the view reads. *)
Overtaken ==
  /\ data' = IF data = "current" THEN "old" ELSE data
  /\ fetch' = IF fetch = "current" THEN "old" ELSE fetch

Elsewhere ==
  /\ Overtaken
  /\ cause' = "elsewhere"
  /\ UNCHANGED <<view, mounted, invalid, age, write>>

Mutate(m) ==
  /\ write = NONE
  /\ Touches(m, view) \/ Covers(m, view)
  /\ write' = [mutation |-> m, at |-> "sent"]
  /\ UNCHANGED <<view, mounted, data, invalid, age, fetch, cause>>

Apply ==
  /\ write # NONE /\ write.at = "sent"
  /\ write' = [write EXCEPT !.at = "applied"]
  /\ IF Touches(write.mutation, view) THEN Overtaken ELSE UNCHANGED <<data, fetch>>
  /\ UNCHANGED <<view, mounted, invalid, age, cause>>

\* Seeded fault: a view that is off screen is not marked.
MarkOnScreenOnly ==
  /\ invalid' = (invalid \/ mounted)
  /\ fetch' = IF ~mounted \/ (data = "none" /\ fetch # NONE) THEN fetch ELSE "sent"

(* The view is marked and, if it is on screen, fetched anew: a fetch under way is    *)
(* given up, except the very first, which is waited for.                           *)
Invalidate ==
  /\ invalid' = TRUE
  /\ fetch' = IF ~mounted \/ (data = "none" /\ fetch # NONE) THEN fetch ELSE "sent"

Succeed ==
  /\ write # NONE /\ write.at = "applied"
  /\ write' = NONE
  /\ IF Covers(write.mutation, view) THEN Invalidate ELSE UNCHANGED <<invalid, fetch>>
  /\ cause' = IF write.mutation \in LeftOut(view) THEN "gap" ELSE cause
  /\ UNCHANGED <<view, mounted, data, age>>

(* The request is refused, or its answer does not arrive: onSuccess does not run. *)
Fail ==
  /\ write # NONE
  /\ write' = NONE
  /\ cause' = IF write.at = "applied" THEN "lost" ELSE cause
  /\ UNCHANGED <<view, mounted, data, invalid, age, fetch>>

CacheNext ==
  \/ Mount \/ Unmount \/ Focus \/ Poll \/ GrowOld \/ Collect
  \/ ServerReads \/ FetchArrives \/ FetchFails
  \/ Elsewhere \/ Apply \/ Succeed \/ Fail
  \/ \E m \in DOMAIN Writes : Mutate(m)

CacheSpec == CacheInit /\ [][CacheNext]_cacheVars
-----------------------------------------------------------------------------
CacheTypeOK ==
  /\ view \in Shown /\ mounted \in BOOLEAN /\ data \in {"none", "current", "old"}
  /\ invalid \in BOOLEAN /\ age \in 0..2 /\ fetch \in {NONE, "sent", "current", "old"}
  /\ write = NONE \/ write \in [mutation : DOMAIN Writes, at : {"sent", "applied"}]
  /\ cause \in {NONE, "raced", "failed", "elsewhere", "gap", "lost"}

(* What a page shows when nothing is in flight is what the server has, unless        *)
(* another device or the scheduler wrote it, a request failed, an answer that was   *)
(* read too early wiped the mark, or the mutation is one of those known to leave    *)
(* the view out (use-feoh-import.ts:12, use-ethel.ts:59-64, constants.ts:63-65);      *)
(* that list is compared with the hooks before anything is fetched.                 *)
ShownIsCurrent ==
  /\ (mounted /\ fetch = NONE /\ write = NONE /\ data = "old") => cause # NONE
  /\ data = "none" => GapsKnown(view)
=============================================================================
