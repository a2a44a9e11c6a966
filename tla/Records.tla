------------------------------- MODULE Records -------------------------------
(***************************************************************************)
(* The services that keep a household's records and credentials, and the   *)
(* screens that show them: each an instance over variables of its own, and *)
(* what each of them promises.                                             *)
(* They run in one process and share a database, but none writes what      *)
(* another one reads here, so a behaviour of one is a behaviour of it      *)
(* alone.                                                                  *)
(***************************************************************************)
EXTENDS KeyRotation

CONSTANTS Callers,                                          \* requests in flight
          Docs, Homes, LinkRoles, LinkIds,                  \* Gewrit
          Accounts, Rotating,                               \* IntegrationTokens
          Adults, Children, ListProviders, Lists, Checked,  \* Selections
          Persons, Maint, Providers, Belongings, KindOf, LoginLife, SatelliteLife,  \* Household
          Media, Trakt, MaxToken,                           \* LibrarySync
          Recipes, Slots, Goods, Needs, Items, Shoppers, Replays,  \* Shopping
          Bills, DueDates, Schedules, Payments, Amounts, RowIds, \* FeohBills
          Parents, Young, EventIds, Starts, Lengths, Everies,    \* CalendarEvents
          MaxLength, Mirrored, Windows, MaxSteps,
          Views,                                                 \* WebCache
          Days, Dishes, Hands, MaxIds, Tasks, FeedKeys,          \* Hearth
          STALE_AFTER, Offsets, WeekLength, MaxAge, LastTick,
          DAY, Zones, LastDay                                    \* ZoneClock

VARIABLES paperless, elements, docs, links, paperJob,       \* Gewrit
          conn, cached, revoked, calls, overtaken,          \* IntegrationTokens
          allowed, household, offered, request,             \* Selections
          up, role, holder, owner, conns, synced, registered,   \* Household
          leaving, keys, login, satellite,
          account, valid, library, items, syncJob,          \* LibrarySync
          recipes, plan, list, used, shopJob,               \* Shopping
          online, queue, patches, replay, wanted, crossed,
          schedule, txns, occ, billJob,                     \* FeohBills
          events, attending, requests,                      \* CalendarEvents
          view, mounted, data, invalid, age, fetch, write, cause,   \* WebCache
          suppers, wall, swaps, made,                       \* Hearth
          tasks, wallTasks, onScreen, completing, taps, fetching, sure, reopened,
          feeds, clock, offset, stored, pagedAt, loaded,
          zone, day                                         \* ZoneClock

Clock == INSTANCE ZoneClock

Browser == INSTANCE WebCache WITH Shown <- Views

(* The maintenance account is no ordinary member; what is absent is nothing there is. *)
ASSUME RecordsAssumption ==
  /\ Maint \notin Persons
  /\ NONE \notin Persons \cup {Maint} \cup {"admin", "adult", "child"}
  /\ KindOf \in [Belongings -> {"created", "assigned", "booked", "routine"}]
  /\ LoginLife \in Nat /\ SatelliteLife \in Nat
  /\ Checked \in BOOLEAN
  /\ NONE \notin [member : Adults \cup Children, provider : ListProviders, list : Lists]
  /\ NONE \notin RowIds /\ Schedules \subseteq SUBSET DueDates
  /\ Rotating \in BOOLEAN
  /\ NONE \notin BOOLEAN \cup Replays /\ NONE \notin {"gone"} /\ "gone" \notin Replays
  /\ Starts \subseteq Nat /\ Lengths \subseteq Nat /\ Everies \subseteq Nat \ {0} /\ MaxSteps \in Nat \ {0}
  /\ NONE \notin Everies /\ Windows \subseteq Int \X Int
  /\ \A x \in Mirrored : x.start \in Int /\ x.end \in Int /\ x.start <= x.end
  /\ NONE \notin {"sent", "current", "old", "elsewhere", "raced", "failed", "gap", "lost", "applied"}
  /\ NONE \notin [mutation : DOMAIN Browser!Writes, at : {"sent", "applied"}]
  /\ Days \cap Nat = {} /\ NONE \notin Hands \cup Dishes \cup [dish : Dishes, id : Days \cup Nat]
  /\ WeekLength \in Nat \ {0} /\ Offsets \subseteq Int
  /\ Clock!ZoneConstants

gewrit     == <<paperless, elements, docs, links, paperJob>>
tokens     == <<conn, cached, revoked, calls, overtaken>>
selections == <<allowed, household, offered, request>>
people     == <<up, role, holder, owner, conns, synced, registered, leaving, keys, login, satellite>>
titles     == <<account, valid, library, items, syncJob>>
shopping   == <<recipes, plan, list, used, shopJob, online, queue, patches, replay, wanted, crossed>>
bills      == <<schedule, txns, occ, billJob>>
calendar   == <<events, attending, requests>>
web        == <<view, mounted, data, invalid, age, fetch, write, cause>>
kitchen    == <<suppers, wall, swaps, made, tasks, wallTasks, onScreen, completing, taps, fetching, sure, reopened,
                feeds, clock, offset, stored, pagedAt, loaded>>
dates      == <<zone, day>>
-----------------------------------------------------------------------------
Papers == INSTANCE Gewrit
  WITH Elements <- Homes, Roles <- LinkRoles, Procs <- Callers, job <- paperJob

Grants == INSTANCE IntegrationTokens WITH Procs <- Callers

Picks == INSTANCE Selections WITH Providers <- ListProviders, Procs <- Callers

People == INSTANCE Household WITH Members <- Persons

Syncs == INSTANCE LibrarySync WITH Titles <- Media, conn <- library, job <- syncJob, Procs <- Callers

Shop == INSTANCE Shopping WITH job <- shopJob, Procs <- Shoppers

Dues == INSTANCE FeohBills WITH Txns <- Payments, job <- billJob, Procs <- Callers

Calendar == INSTANCE CalendarEvents WITH Adults <- Parents, Children <- Young, Procs <- Callers

Kitchen == INSTANCE Hearth
-----------------------------------------------------------------------------
(* Each property looks at a step of its service. Next to the others the service  *)
(* stutters, which [A]_v allows and the condition before A says over again: TLC   *)
(* evaluates A first.                                                            *)

(* Gewrit: a link goes only by its own deletion or with its element, and no       *)
(* requests wait for one another in a circle (service.ts:101-106, 215-221).       *)
LinksKept == [][gewrit' # gewrit => Papers!KeptStep /\ Papers!NoDeadlock']_gewrit

(* IntegrationTokens: only consent makes a connection or names its account, and an *)
(* outage does not ask for consent again (store.ts:103-120, schema.ts:5-11); what a *)
(* refresh that a consent has overtaken may still do is said in the steps.         *)
TokensKept == [][tokens' # tokens => Grants!ConsentStep /\ Grants!OutageStep]_tokens

(* Selections: a selection drops only what its member could have picked, and the  *)
(* household loses its list only to an overlap with a designation that is named   *)
(* there (store.ts:214-229).                                                      *)
SelectionKept == [][selections' # selections => Picks!SelectionStep]_selections

(* Household: the maintenance account is kept apart while the process runs; a start *)
(* cleans up what is its own, and nothing gives it more (maintenance-admin.ts:59-76).*)
Secluded == [][people' # people => People!SweptStep /\ People!Quarantined']_people

(* Household: no credential outlives a role by more than two lives of a token.     *)
CredentialsHold == People!RightsEnd

(* LibrarySync: what a sync fetched is there when it commits, and only what it did *)
(* not find is gone (library/service.ts:139-162).                                 *)
SyncsKept == [][titles' # titles => Syncs!LibraryStep]_titles

(* Shopping: a regenerated list keeps what was added by hand, and taps that no older  *)
(* request crosses arrive (meals/service.ts:123-131, shopping-offline.ts:12-17).     *)
ListKept == [][shopping' # shopping => Shop!ShoppingStep]_shopping

(* FeohBills: what a member decided about an occurrence ends only by the call   *)
(* that undoes it (occurrences.ts).                                             *)
TouchedKept == [][bills' # bills => Dues!TouchedStep]_bills

(* CalendarEvents: the range view of the calendar shows what overlaps the window and  *)
(* nothing else (calendar/service.ts:54-116). Hearth: the wall does what is dragged  *)
(* and tapped on it, and a reloaded one shows the week it was paged to               *)
(* (hearth.tsx:74-84, 155-197). ZoneClock: a date without a time stays that date     *)
(* through every provider (local-date.ts:41-61, m365/task-provider.ts:58-72).        *)
(* WebCache: a page at rest shows what the server has, but for the known gaps        *)
(* (use-ethel.ts:59-64). A service that a behaviour is not about is NONE.            *)
ScreensRight ==
  /\ events # NONE  => Calendar!RangeViewRight
  /\ suppers # NONE => Kitchen!SwapsExchange /\ Kitchen!TapsHold /\ Kitchen!PositionFades
  /\ zone # NONE    => Clock!AnchorRight /\ Clock!DuesRight
  /\ view # NONE    => Browser!ShownIsCurrent
=============================================================================
