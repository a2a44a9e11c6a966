# Heorth, modelled

TLA+ modules for Heorth: the backend (`src/src/`), a household server in
TypeScript over one PostgreSQL database, and the parts of its web client
(`src/web/src/`) that keep state. They model the places where several actors work
on the same rows, where work is resumed, retried or replayed, where a copy of
something can be out of date, and where dates and time zones meet. TLC checks them
on small instances; TLAPS proves the safety properties for every instance, of the
bank inbox, the sweep, the feeds and what one pull of them reads, Weorc, Ethel's
places, the services that keep records and credentials, and the screens of the web
client. What stays with TLC is [listed](#model-checked-only).

Contents: [the system](#the-system), [modules](#modules-and-code),
[how the code is read](#how-the-code-is-read), [the runs](#the-runs),
[bounds](#bounds), [fairness](#fairness), [proofs](#proofs),
[findings](#findings), [what is not modelled](#what-is-not-modelled),
[plan](#plan).

## The system

One process, Hono routes on top of services, drizzle/postgres.js underneath, a
pool of connections. Every request, every poll tick and every item of a
`Promise.all` is an asynchronous function; it can be interrupted by any other at
each `await`, that is, between any two statements that are not in one
transaction. There are three timers: the bank import, the feed synchronisation
and the routine tick. Each also has an HTTP endpoint that runs it by hand.
Browsers poll it, keep its answers in a cache, and a phone in a shop keeps working
without it.

| Part | State it keeps | Operations | Talks to |
|---|---|---|---|
| Feoh bank inbox (`modules/feoh/import/service.ts`, `rules.ts`) | `feoh_imported_transactions` (pending, booked, dismissed), rules, account mappings | ingest a page, confirm, dismiss, change rules and mappings (each re-evaluates what is pending) | writes the ledger; the ledger's `deleteTransaction` calls back to return a line |
| Feoh sweep (`import/sync.ts`, `providers/firefly.ts`) | `feoh_import_state` (cursor, last error); in memory: a running flag, a fetched window | poll tick, manual trigger | Firefly III over HTTP; hands pages to the inbox |
| Feoh ledger, bills, item costs (`feoh/service.ts`, `ledger.ts`, `occurrences.ts`, `cadence.ts`, `item-costs.ts`) | transactions with postings, accounts, envelopes, recurring bills and their occurrences, links to assets | record, import a CSV file, delete, reconcile; link, skip, override an occurrence; cost totals | reads Ethel's assets |
| Weorc (`modules/weorc/`) | routines and occurrences; a link to an outward task | hourly tick (reconcile, materialise, project), complete, skip, create, update, delete | the task seam of `modules/tasks/service.ts`; Ethel by foreign key |
| Integrations (`integrations/`, `m365/`, `google/`) | connections with encrypted tokens, `integration_sync_state` per feed; in memory: access tokens, the registry of providers | scheduler tick, manual sync, OAuth, disconnect | Microsoft Graph, Google; writes the mirrors |
| Calendar and task mirrors (`modules/calendar/`, `modules/tasks/`) | mirrored rows, allowlists, the household's calendar and list | apply a pull, select, designate, complete and create a task | the providers; Weorc reads the task mirror |
| Native calendar (`modules/calendar/service.ts`, `recurrence.ts`) | events, attendees | create, edit, move, delete; the range view over native and mirrored events | |
| Ethel (`modules/ethel/`) | a tree of places, assets, vehicle and facility details | create, move, delete; put and delete details; decommission | referenced by Weorc, Gewrit, Feoh |
| Gewrit (`modules/gewrit/`) | documents and links to assets or places | link, unlink, sweep of orphans, refresh | Paperless |
| Meals (`modules/meals/`) | recipes, the week's plan, the shopping list | plan, generate the list, add and check off | |
| Library (`modules/library/`) | a connection, its items | sync, file import, connect, delete | Trakt, LibraryThing |
| Household, satellite (`household/`, `satellite/`, `wiring.ts`) | members and roles, the maintenance account, API keys; signing keys | repair at start, member administration, login, token exchange, key rotation | satellites, through a JWKS |
| Kith (`modules/kith/`) | nothing | list reminders, page by page | KithLedger |
| Web client (`src/web/src/`) | a query cache, the wall's optimistic marks, a queue of check-offs, the paged-to week | queries, mutations with their invalidations, drags, taps | the API |

What is hard: two units of work on one row between a read and the write that
relies on it (all parts); a process that stops between two statements (import,
Weorc); a provider that refuses, answers late, forgets tokens, or shows less
than there is (sweep, feeds, library, Weorc); a cursor or token that must never run
ahead of what was written (sweep, feeds); lock order over several transactions
(Ethel, Gewrit); something checked against a role, a key or a selection that has
changed since (household, satellites, selections); a cache that names its own
invalidations (web client); boundary dates (recurrence, cadences, time zones).
PROJECT.json lists each such place with its line under `hazards`.

What makes each part correct:

- inbox: a bank line is booked exactly once or not at all, what a member parked
  stays parked, and nothing in a foreign currency is booked;
- sweep: no line is lost behind the cursor, every line arrives in the end;
- ledger and bills: a reconciliation nobody disturbs squares, pages of the ledger
  agree with the whole, an occurrence a member settled or skipped stays so, a
  payment counts once into an asset's cost, due dates do not drift;
- Weorc: one open occurrence after everything done, one task for it, history
  that does not change, and a routine that never silently stops;
- feeds: the token is never newer than the mirror, rows go only with their item
  or list, the mirror converges; a connection is the one consented to;
- selections: a selection drops only what its member could have picked, and the
  household keeps its list and its calendar (but for two overlaps, see
  [findings](#findings));
- native calendar, reminders: a window shows what overlaps it and nothing else;
- Ethel: the tree stays a tree within its depth, no transactions wait for one
  another, an asset has at most one kind of detail;
- Gewrit: a link goes only by its own deletion or with its element;
- meals: regenerating the list keeps what was added by hand, a tap that no older request
  of its item crosses arrives;
- library: what a sync fetched is there when it commits, and only what it did not
  find is gone;
- household: the maintenance account owns nothing, and a role that was taken away
  ends within the lives of the tokens that carry it; a key rotation refuses nobody;
- web client: a page at rest shows what the server has, and the wall does what is
  dragged and tapped on it.

## Modules and code

| Module | Models | State | Actions |
|---|---|---|---|
| `FeohInbox` | what the inbox promises: abstract | `status`, `charges` per line | `Arrive`, `Book`, `Park`, `Return` |
| `FeohImport` | `import/service.ts`, `rules.ts`, and of `feoh/service.ts` `recordTransaction` as called from there, `deleteTransaction`, `deleteEnvelope`, `deleteAccount` | the three tables, the ledger rows `bookRow` writes, the envelopes and accounts there are, the row locks, and per process a program counter and what it has read | one per statement between two awaits: `ReadKnown`, `Read` (one query of a `Promise.all`), `IngestInsert`, `ReapplyLine`, `BookLock`, `BookCommit`, ...; `Crash` |
| `FireflySweep` | `import/sync.ts`, `providers/firefly.ts` | cursor, error, flag and cache; Firefly's lines with dates; the inbox as a set | `StartTick`, `ListSince`, `FetchPage` (one request to Firefly), `IngestLine`, `SaveCursor`, `SaveSuccess`, failures, `Restart`; lines arrive, backdated and postdated, and go |
| `FeohLedger` | `feoh/service.ts`, `ledger.ts`, `csv.ts` | accounts, envelopes, transactions with postings, each request | recording, editing and deleting; the queries of `reconcileAccount`; the two passes of an import |
| `FeohBills` | `occurrences.ts` | bills' schedules, their occurrences, transactions | link, unlink, skip, unskip, override, by statement; deletion of a bill or a transaction |
| `FeohCadence` | `cadence.ts` over `CivilDates` | a bill, the date asked about | `AskNextDay` |
| `FeohItemCosts` | `item-costs.ts`, decommissioning in `ethel/service.ts` | assets, links, bill payments, pool connections | links and edits, `updateAsset` with its query on the pool |
| `Weorc` | `engine.ts`, `service.ts`, `store.ts`, and the task seam | one routine, its occurrences, the tasks at the provider, their mirror rows, two processes | every statement of the tick, of complete/skip, of update and delete; the member ticking a task, moving it, the mirror dropping it; midnight; a crash |
| `CivilDates`, `WeorcRecurrence` | `dates.ts`, `recurrence.ts` on a real calendar | settings, last finished date, today | `DayPasses`, `Finish`; `NextDueOn` computed as the code does |
| `FeedSync` | `sync-runner.ts`, `integrations/store.ts`, both pulls, both mirrors, both allowlists, task write-back | one provider feed with numbered changes, the connection, the allowlist row, the mirror, the sync state, passes, a write in flight | a pass in its steps (`SyncStarts`, `Pull`, `Apply`, `Record`, `Throws`), `Select`, `Deselect`, `Designate`, `CompleteTask`, ... |
| `MirrorPull` | the inside of one pull: `m365/calendar-provider.ts`, `google/calendar-provider.ts`, `google/task-provider.ts`, `applyMirrorPull` | the provider's items and series, the rows, the token, what a pull has read | `pullChanges`, `Page`, `resolveMaster`, `applyMirrorPull`, `recordSyncSuccess`; edits, deletions and expired tokens at any time |
| `IntegrationTokens` | `integrations/routes.ts`, `m365/delegated.ts`, `google/oauth.ts` | the connection row, the cached access token, grants revoked, calls in flight | consent and callback, disconnect, a refresh in its steps, `Restart` with another encryption key |
| `Selections` | `setAllowlist`, `setHouseholdList` of tasks and their calendar twins | the allowlist, the household's row, what each account offers | a selection in its steps, provider by provider; a designation in its two; disconnection, `StopSelections` |
| `CalendarEvents` | `calendar/service.ts`, `recurrence.ts` | events, attendees, requests | create, update, move, delete by statement; the range view as an operator |
| `EthelPlaces` | `places.ts`, `service.ts`, `details.ts`, and the anchor of a Weorc routine | places, assets, details, anchors; each request's transaction with the locks it holds | a request starts, takes a lock, goes to its next statement, commits or rolls back |
| `Gewrit` | `gewrit/service.ts` | documents, links, locks, Paperless | link, relabel, unlink with the document's lock, list with its refresh, the sweep of orphans |
| `Household` | `household/`, `wiring.ts`, `satellite/token.ts`, the start in `index.ts` | roles, the holder of ADMIN_EMAIL, what members own, connections, keys and tokens | `Boot` with its repair, member administration, deletion in two steps, login, `Mint`, writes of content |
| `KeyRotation` | `satellite/keys.ts`, `routes/jwks.ts`, the rotation in README.md | key slots, the set loaded, two caches, tokens out | minting, publishing, the operator's three steps, `Crash`, time |
| `KithReminders` | `kith/client.ts`, `routes.ts` | reminders upstream, a listing in progress | `fetchPage` and its failures |
| `Shopping` | `meals/service.ts`, `shopping-offline.ts`, `use-offline-shopping-list.ts` | recipes, plan, list; the phone's queue, requests and replays | generation by statement, taps, requests that arrive, fail or fail after arriving, replays, reloads |
| `LibrarySync` | `library/service.ts` and its connectors | the account, its credentials, the items | a sync from its fetch to its transaction, import, connect, delete |
| `WebQueries`, `WebCache` | the hooks of the web client: what each view reads, what each mutation writes and invalidates | one view: mounted, its data, its marks, a fetch and a write in flight | mount, fetch, answer, mutate, go stale |
| `Hearth` | `pages/hearth.tsx`, `lib/hearth.ts`, `hearth-week.tsx`, `hearth-prefs.ts` | suppers, tasks and feeds as the server has them and as the wall shows them, tasks by the week and by the month | drags and their two writes, taps, polls, feeds succeeding and failing, paging, reloads |
| `ZoneClock` | `lib/local-date.ts`, `web/lib/format.ts`, the dates of both task providers | a zone and a day | `Midnight` |
| `Records` | an instance of `FeohBills`, `IntegrationTokens`, `Selections`, `CalendarEvents`, `Gewrit`, `Household`, `Shopping`, `LibrarySync`, `WebCache`, `Hearth` and `ZoneClock` each, over `KeyRotation`, and what each promises | theirs | theirs |
| `FeohImport_proofs` | the invariants of `FeohImport`, its refinement of `FeohInbox` and its action properties, proved | | |
| `FireflySweep_proofs`, `FeedSync_proofs`, `Weorc_proofs`, `EthelPlaces_proofs`, `MirrorPull_proofs` | the safety properties of the module they are named after, proved | | |
| `Records_proofs` | the properties of the services in `Records`, and of `KeyRotation`, proved | | |
| `Screens_proofs` | the properties of the calendar, the wall, the client's cache and the dates, proved | | |

`MC*` modules instantiate these for TLC. `MCServices` and `MCRecords` put
components that share no state side by side: `focus` names the one a behaviour
belongs to, and the others do not move. `MCRecords` extends `Records`, so that the
instances TLC checks are the ones the proofs are about.

How they meet:

- `FireflySweep` hands lines to the inbox, where `FeohImport` begins; in the one a
  line is in the inbox or not, in the other it is known by its source_id, so a line
  delivered twice is `IngestSkip`.
- `FeedSync` is the life of a feed over many passes, with `Pull` as one step;
  `MirrorPull` is the inside of that step, page by page, with series, and its
  application, one pass at a time. `IntegrationTokens` is what lies behind
  `conn` and `PullUnauthorised`, `Selections` behind `Select`, `Deselect` and
  `Designate` for several providers and members.
- `FeedSync` is what lies behind `mirror` and `SyncTask` of `Weorc`, which takes the
  weaker view that a mirror row may be missing at any time.
- `WeorcRecurrence` is the parameter `NextDueOn` of `Weorc`; its instances use the
  day-interval part of it.
- Weorc's routines reach Ethel only through the anchor, which `EthelPlaces` has;
  Ethel's decommissioning meets Feoh in `FeohItemCosts`.
- `KeyRotation` is about the key, `Household` about the claims of one token.
- `WebCache` takes from `WebQueries` which server data a view shows; the views of
  `Hearth`, which change what they show before the server answers, are modelled
  there.

The operators marked *Seeded fault* stand beside the definition they distort and
are used nowhere: they are the forms that PROJECT.json's `mutants` put in its
place, one plausible bug for each property, to show that the property notices.


## How the code is read

- A step of a process is what happens between two awaits. A single SQL statement
  is atomic; a transaction is atomic except where it waits for a row lock, which
  is then an action of its own (`BookLock`, the stages of `EthelPlaces` and
  `Gewrit`).
- A process keeps what it has read (`job`, `tick`, `pass`) and acts on it later,
  stale or not. That is the source of most interleavings below.
- An `UPDATE ... WHERE id` of a row that is gone does nothing; a unique index or
  foreign key that objects is a branch, and the transaction rolls back.
- `Promise.all` of queries reads each table at its own moment (`Read`).
- A stop of the process empties everything in memory and rolls back open
  transactions (`Crash`, `Restart`, `Stop`); the tables stay.
- In `EthelPlaces` a foreign key takes a share lock on the row it names unless
  its value is unchanged, an update a write lock, a delete or `FOR UPDATE` an
  exclusive one; an update of the row's other columns does not conflict with a
  share. The cascades of a delete follow in the order the constraints were
  created (migrations 0019, 0021, 0022). Rows are written at the commit, since
  nobody sees them before. `Gewrit` reads its locks in the same way.
- A page of the web client is what its query cache holds and whether that counts
  as fresh. The wall draws optimistic marks on top of it, which an answer or a
  later poll removes; local storage outlives a reload, React state does not.
- Time is a count of days, of hours in `ZoneClock`, of ticks where only the order
  of lifetimes matters (`Household`, `KeyRotation`).
- Left out everywhere: names, notes, formatting, logging; amounts, except in
  `FeohLedger`, `FeohBills` and `FeohItemCosts`, where they are small integers;
  authorisation, except in `Household`.

## The runs

| Run | Shows |
|---|---|
| `feoh_import` | Two processes over two lines, one foreign, one rule, one mapping, all operations and crashes. `ExactlyOnce`, `BookingIsExclusive`, `NeverForeign`, `SettledKept` (what was dismissed stays so, what was booked changes only with its transaction, and its envelope also with the envelope's own deletion), and the refinement `InboxSpec`: whatever the tables go through, `FeohInbox` is what a member sees. |
| `firefly_sweep` | Two callers; three lines dated up to a day before or after they arrive, an overlap of two days, windows fetched two lines a request, failing fetches and ingests, the page cap, deletions between sweeps, restarts between sweeps. `NoLineLost`: no line falls behind the date the next sweep starts from. |
| `firefly_live` | `EveryLineArrives` through failing fetches and the page cap. |
| `weorc` | Two processes with crashes and the task list, over two days. `LinkedToOwnTask`, `NoBacklog`, `NeverReopened`. |
| `weorc_live` | One process, tasks ticked off, moved and dropped. `AtMostOneTask`, `WorkIsMaterialised`, `TickedIsCompleted`. |
| `feed_sync` | A calendar and a task list of two items, with every failure of a pass, refused tokens, reconnection, selection, designation and write-back. `NoChangeLost`, `AttributionFresh`, `RowsLeaveWithTheirItem`, `MirrorConverges`. |
| `services` | The date computations, Ethel, and Feoh's ledger and costs, eight instances side by side: see below. |
| `records` | The smaller services and the web client, 22 instances side by side: see below. |
| `feoh_import_replay`, `weorc_stall`, `weorc_history`, `midnight_gap` | Counterexamples: what the code does against what it or its documents say. See [findings](#findings). |

In `services`:

| Instances | Property |
|---|---|
| `recurrence` | `FiguresRight`: month ends and a leap day, finished on any day, against the grid stated as a set |
| `cadence` | `FiguresRight`: the due dates of every cadence, stepped from any date asked about, are those counted from the first due date |
| `tree`, `locks`, `anchored` | `TreeSound` (a tree within its depth), `OneDetail` (one kind of detail), `NoDeadlock`: two concurrent transactions on three places; three on a place, an asset and its details; two there with a routine anchored to either |
| `wallet` | `ReconcileSquares`: a reconciliation during which nobody books ends on the counted balance; `FiguresRight`: the running balance of any page of the ledger is that of the whole |
| `csv` | `FiguresRight`: the same, through imports row by row |
| `costs` | `FiguresRight`: a payment linked to an asset, or to a bill of it, or both, counts once in its cost |

In `records`:

| Instances | Property |
|---|---|
| `papers` | `LinksKept`: a link to a document goes by its own deletion or with its element; two requests never wait for one another |
| `rotates`, `stays` | `TokensKept`: only consent makes a connection or chooses its account, and an outage asks for no consent, where refresh tokens rotate and where they stay; what a refresh that a reconnection has overtaken does to the new connection is the one exception |
| `lists` | `SelectionKept`: a selection drops only what its member could have picked, and the household loses its calendar only to a selection that read the row before it was designated (`Checked`, the calendar's form; the theorem covers the lists' as well) |
| `bills` | `TouchedKept`: a payment, a skip or an override of an occurrence ends only by the call that undoes it or with its transaction |
| `events` | `ScreensRight`: a window of the calendar shows what overlaps it and nothing else |
| `browser` | `ScreensRight`: a page at rest shows what the server has, the known gaps apart |
| `suppers`, `touched`, `paged` | `ScreensRight`: a drag exchanges two suppers, a tap the server took does not come undone through polls in flight and paging between week and month, unless the month's answer cleared its mark while the week's is older, a week paged to is forgotten after a while, however often the wall is reloaded |
| `badges` | `ViewsRight`: a stale feed is greyed and a fresh one is not |
| `clock` | around changes of the clocks, `ViewsRight`: a wall clock time is its first instant, the windows of the days tile the time; `ScreensRight`: a date survives the way to its provider and back |
| `wall` | `ViewsRight`: a listing of reminders nobody disturbs shows what is due |
| `apart` | `Secluded`: while the process runs the maintenance account administers, holds no connection and is named by no assignment; a start repoints what it created, and nothing later gives it anything |
| `rights` | `CredentialsHold`: a token outlives the role it claims by at most its own life and that of the login it came from |
| `rotation` | `Verifies`: two rotations by the README's three steps, with crashes, tokens of every age, a cache on the way and one at the satellite, refuse no token |
| `planned`, `phone` | `ListKept`: a regenerated list keeps what was added by hand, and once nothing is on its way the server has what was tapped last, except of items whose last tap was crossed by an older request or entry |
| `trakt`, `things` | `SyncsKept`: what a sync fetched is there when it commits, and only what it did not find is gone |
| `outlook`, `google days`, `google tasks` | `ViewsRight`: the mirror has every event as the last pull saw it or newer, the token is no newer than that; `RowsKept`: rows go only with their event, page by page and series by series |

`CHECK_DEADLOCK FALSE` appears in `services` and `records`, whose instances come
to an end (a calendar is used up, every request has been made), and where
`NoDeadlock` and `LinksKept` state which waits would be wrong; in
`weorc_history`, where nothing is left to ask once the routine is deleted; and in
`midnight_gap`, whose days run out. In all other runs TLC checks for deadlock as
well.

## Bounds

- Two processes are enough for most races of the import and of Weorc, which are
  about one row and two writers. What the inbox and Weorc promise is proved for any
  number, which is how the race of three calls named below came to light. `Locks` has three transactions, since a cycle of waits may need
  three.
- `Txns`, `MaxOccs`, `MaxTasks`, `MaxLines`, `MaxVersion`, `MaxDay` and `Horizon`
  cap counters. `MaxLines = 3` with requests of two lines and two pages per tick
  makes both the second request and the cap happen; `MaxVersion = 2` lets each of
  two items change, or one twice, around a pull.
- `Ops` (`FeohImport`, `Weorc`, `EthelPlaces`, ...) names the operations of an
  instance, `Faults` (`FireflySweep`) what may fail, `Races` (`FeedSync`) which
  overlaps of calls an instance admits. The passing runs exclude the overlaps
  under which a finding shows the property fails, and only those:
  - `FireflySweep`: a restart in the middle of a sweep (`restartMidSweep`) and a
    deletion between two requests of one window (`removeMidFetch`);
  - `FeedSync`: a second pass over the feed, a change of selection or
    designation while a pass is in flight, an edit at the provider of the very
    task being written from here, and selecting a task list again that still
    has a token. Each of the five breaks a property of the passing run, or, for
    a de-selection, `DeselectedStaysGone`;
  - `Weorc`: `AtMostOneTask` and the liveness properties are checked with one
    process, no crash and no lost answer of a creation (`"crash"`, `"lostAnswer"`).
    With two processes, a crash between creating a task and linking it before the
    mirror has it, or a creation whose answer was lost, two tasks can stand for one
    occurrence; `weorc` has all three. The day changes only between calls: a tick that computed `today`
    before midnight and materialises after a completion made after midnight
    breaks `NoBacklog` (admit it with `"midnight"` in `Ops`). So do three calls at
    once, one of them an edit: a tick that has yet to insert, a completion, and an
    update that read the row before it was completed and now moves it to a later
    date, by id, so that the tick's slot is free again; two processes do not
    reach it;
  - `EthelPlaces`: three processes without routines, two with them (`Scenario` of
    `MCServices`);
  - `FeohItemCosts`: one request, and more connections in the pool (`PoolMax`) than
    it can want;
  - `ZoneClock`: no gap at midnight in `records`; `midnight_gap` has nothing else.
- Smaller restrictions of the same kind are marked *Bound* at the definition:
  - `Shopping`: one live request of a tap for each item and value; of the requests
    the phone has given up, two alike count as one. Next to the plan TLC looks at one
    tap at a time, with the network there; on the phone at one item with requests in
    every order, or at two items whose requests keep to theirs (`TapBound`,
    `PhoneBound` of `MCRecords`). The theorem has none of the latter;
  - `FeohImport`: TLC deletes an envelope or an account while the line in a foreign
    currency, which is never booked, has not arrived (`ChartBound` of `MCFeohImport`);
    the theorems delete at any time;
  - `LibrarySync`: every page of a Trakt account answers;
  - `WebQueries`: `LeftOut` lists the views a mutation forgets, and `browser`
    holds apart from those;
  - `CalendarEvents`: the view is judged while every event ends after it starts
    (`Ordered`) and in windows that the steps expanded reach (`Near`);
  - `MirrorPull`: a pull stays below the page cap of Outlook;
  - `Hearth`: `SwapsExchange` is of drags both of whose writes are made; TLC looks at
    two tasks in the week's answer, or at one in the week's and the month's
    (`TouchBound` of `MCRecords`, not in the theorem); what is kept of a query is kept
    for good (`gcTime`, ten minutes);
  - `Gewrit`: no request takes an hour, the age at which the sweep takes orphans;
  - `Household`: a row is written once;
  - `KeyRotation`: three keys; the operator waits as the README says. Lives of 3, 2
    and 2 ticks, so that a token outlives either cache and not both together.
- `WeorcRecurrence` runs from 30 December 2023 for 100 days, so that dates
  computed from anchors on the 29th and 31st meet 29 February 2024 and months of
  30 days, with every possible day of completion. `FeohCadence` asks on each of
  420 days from 2023, past every due date of a year and into the leap year.
- `ZoneClock` has six offsets from -10 to +9 hours and one shift of one or two hours,
  forward or back, at any of 37 hours of the second and third day.
- `CalendarEvents` has starts at 0 and 2, a length of 1 up to 3 after edits, a series of
  every 2, and windows from 0 or 3 to 1, 4 or 5, so that an event ends before, at, in
  and after a window.
- Symmetry is used for processes, ledger identities, places and items, which the
  modules compare only for equality, and in no run with liveness. Instances that
  never meet share model values.

## Fairness

- `FireflySweep`: the poll loop goes on ticking (weak fairness of `StartTick`),
  and strong fairness of each step of a sweep, of each request of a fetch by its
  number: Firefly and the database may fail any number of times, but not every
  time. `setInterval` and the flag reset in
  `finally` (sync.ts:68-84) are what justifies it.
- `Weorc`: the timer starts ticks whatever requests run (strong fairness of
  `TickStart`, scheduler.ts:18-39), and a started call goes on.
- `FeedSync`: strong fairness of the start and the steps of a pass, weak of
  recording a failure. `MirrorConverges` asks for convergence only while the feed
  stays connected and selected.

Nothing is assumed of members, of providers other than the above, or of restarts.

## Proofs

The hypotheses of a theorem are named operators of the constants, or which elements
a bound (`Ops`, `Faults`, `Races`) lacks. Each element excluded is one with which
TLC finds the property violated.

### The bank inbox

`FeohImport_proofs` proves, from `ImportAssumption` alone (the types of the
constants; `NONE` outside every set it must be told from), for any number of
processes, lines, accounts, rules and identities:

- `TypeCorrect`: `Spec => []TypeOK`;
- `BookedExactlyOnce`: `Spec => []ExactlyOnce`;
- `ForeignNeverBooked`: `Spec => []NeverForeign`;
- `MatchIsDeterministic`: the (priority, id) order never gives two rules.

`ExactlyOnce` is not inductive: a process in `booking` is about to write a row it
checked some steps ago. The invariant `IInv` adds what protects it: a process in
`booking` holds the row's lock, a locked row is held by the process that is
booking it and is pending with no ledger entry (exclusive booking under the
lock), and whatever a process has worked out to book (`line`, `account`,
`envelope`) is a real value and not foreign. `Invariance` proves
`Spec => []IInv` with one step per action: dismissals and deletions are held off
by the lock, a crash drops the lock with the process, `BookCommit` is the only
step that writes the ledger. The three properties follow from `IInv`.

With `Invariance` it proves further:

- `ImplementsInbox`: `Spec => InboxSpec`, the refinement of `FeohInbox`;
- `SettledForGood`: `Spec => SettledKept`;
- `BookingExcludesOthers`: `Spec => []BookingIsExclusive`.

`SettledKept` says of a booked row what the foreign keys leave true of it: it keeps
its transaction until `deleteTransaction` removes that and returns the row in the
same step, and its envelope until then or until `deleteEnvelope` deletes that very
envelope, which nulls it on the row (import/schema.ts:60) and on the posting
(schema.ts:44) and leaves the row booked. `FeohInbox` has the same step, `Close`. A
deleted account only empties the other posting. Rules and mappings refuse the deletion
of what they name (`RESTRICT`), and a booking that was worked out before the deletion
is refused by its foreign key (`BookAbort`).

`StepCases` reduces a step to the seven that touch the inbox or the ledger, and
lemmas say what the hard ones write: a commit finds its row pending with no
ledger entry (`BookingIsExclusive`), and `deleteTransaction`, which reverts *every*
row naming the transaction, reverts exactly one (`ExactlyOnce`). With those,
an insert is `Arrive`, a commit `Book`, a dismissal `Park`, a deletion `Return`, a
deleted envelope `Close`, and the rest, a rule's or an account's deletion included, are
stutters. `SettledForGood` needs one more invariant, `RuleOnBooked`: only a booked row
names a rule or an envelope, so deleting one of these (`ON DELETE SET NULL`) cannot
change a dismissed row.

### The sweep

`FireflySweep_proofs`, from `SweepAssumption` (numbers are numbers, and `Overlap`
covers how late and how early lines are dated):

- `TypeCorrect`, which includes that one tick runs at a time and the running flag
  ends with it;
- `NothingLost`: `Spec => []NoLineLost`, if `Faults` has neither `restartMidSweep`
  nor `removeMidFetch`.

`NoLineLost` says nothing of a sweep under way. `SweepInv` follows a line through
it: `Dated` bounds dates by today; `WindowInv` and `FetchInv` say that a line within
reach is in the window, or on a page not yet fetched, or was overtaken: dated at
most `Overlap` before any line the window has; `PageInv` that what a page leaves
out lies behind its end, and that the checkpoint is a date of the window less
`Overlap`. An overtaken line is therefore still within reach of the checkpoint. The
hard step is `FetchPage`: a line that arrives between two requests pushes others
to the next page, never to an earlier one, which is a count of the lines after it
(`PageAdds`). A deletion pulls lines forward, hence the hypothesis.

### Feeds

`FeedSync_proofs`, from `FeedAssumption`:

- `TypeCorrect`; `RowsStay`: `Spec => RowsLeaveWithTheirItem`, with every race
  admitted;
- `AttributionHolds`: `Spec => []AttributionFresh`, if no designation overlaps a
  pass (`"designate" \notin Races`);
- `NothingLost`: `Spec => []NoChangeLost`, if `Races` admits at most designations.

`SnapshotInv` (what a pass has pulled has every live item, or is a delta that does
not mention it) gives `RowsStay`. `AttributionInv` carries the mirror's freshness
through a pass: a designation empties the token, so a stale row means a full pull
is due. `NoLossInv` says at each step of a pass what each item is caught by: the
mirror, the rows in hand, or a token older than it; and that a write from here the
provider has answered still stands there. The races left out are those
that break the properties (see [bounds](#bounds)).

### Weorc

`Weorc_proofs`, from `WeorcAssumption`, for any number of processes, with crashes:

- `TypeCorrect`; `NotReopened`: `Spec => NeverReopened`; `LinksOwned`:
  `Spec => []LinkedToOwnTask`, if `RecurrenceAnswers` (`NextDueOn` gives a day);
- `NeverABacklog`: `Spec => []NoBacklog`, for fixed routines on grids
  (`FixedGrids`) without edits or a midnight inside a call;
- `OneTaskEach`: `Spec => []AtMostOneTask`, with one process, no crash and no answer of
  a creation lost.

`TypeInv` has what a process must have read by each step, and `OwnTask`: it links
only a task that carries its occurrence's marker. For `NoBacklog` the invariant
`BacklogInv` fixes the last terminal date and says, of every process that will
insert, that what it will insert lies on the slot the grid has after that date
(`Pending`); a completion moves that date, and every insertion still under way then
meets either the unique index or the slot it was going to take (`OnSlotStep` and
the lemmas that follow, one per action). `FixedGrids` is what
`FixedIsRightSlot` of `WeorcRecurrence` states and TLC checks of the real
recurrence (in `FiguresRight` of the run `services`); `DailyGrid` shows that it can be
met. `OneTaskInv` says that a process which is about to create a task for an
occurrence finds none, and that an unlinked occurrence with a task is being linked
at this moment. Edits, midnight, a second process, a crash or a lost answer do break the
properties they are kept from (see [bounds](#bounds)); NoBacklog has no claim for
`from_completion` routines, whose due dates are not slots.

### Key rotation

`Records_proofs`, from `RotationAssumption` (lives and keys are positive), for
any lives and any number of rotations:

- `RotationTypes`, `NeverAFlagDay`: `RotationSpec => []Verifies`.

`RotationInv` counts: a cached set that lacks the added key has no more life left
than the operator has yet to wait (`Caches`), a token of the key that signed before
is no younger than the last promotion (`TokenOf`). A set a satellite took from a
cache may be as old as both lives together; that is why the wait is `CacheLife`.

### Places and things

`EthelPlaces_proofs`, from `EthelAssumption` (tables are disjoint, there are finitely
many places), for any number of requests in flight:

- `TypeCorrect`, which includes every reference between rows;
- `DetailsExclusive`: `Spec => []OneDetail`;
- `TreeStaysSound`: `Spec => []TreeSound`;
- `DeadlockFree`: `Spec => []NoDeadlock`, if `Ops` lacks `updateRoutine`.

A check is made some statements before the write it is for. `PlacesInv` has what
keeps it true: no two requests hold locks in conflict (`Mutex`), a request past a
lock still holds it (`Kept`), and so what it has checked still stands
(`ChecksStand`); `OthersStand` proves that no commit of another request undoes it.
`TypeOK` and `OneDetail` are preserved with those.

`TreeSound` speaks of walks up the tree, which no step changes one place at a time.
`TreeInv` says instead that every place has a depth, one more than its parent's and
at most the cap. `UpDepth` and `AncestorCount` show that the walk from a place
then ends after that many distinct places; `MovedTree` gives the depths after a
move, where `HeightCovers` says that `heightOf` counts every level of the subtree
that moves along.

For `NoDeadlock`, `HeldAsked` says which kind of row a held lock can be on and
`Ordered` what else its holder has. `NoWaitCycle` then rules out waits kind by kind:
for a place, since all who lock one hold the tree lock; for a row of a facility's
places, since those who lock one share the tree or the asset's detail; for a
detail, an asset and last the tree, since who holds one waits for nothing that is
left. The order is only partial: a
deletion of a place takes assets after places, the upsert of a facility the other
way round, and it is the tree lock, taken first by both, that keeps them apart.
Anchoring a routine takes no tree lock, hence the hypothesis.

### Inside a pull

`MirrorPull_proofs`, for any calendar, page size and number of changes, from `Kinds`
(events, occurrences and series are apart; `NONE` is no title and no set of items)
and `NoCutOff`: a pull past the cap throws, as Google's do, or `MAX_PAGES` pages are
enough for the calendar even at one item a page. Without it a full Graph pull loses
rows ([findings](#findings)).

- `TypeCorrect`;
- `MirrorComplete`: `PullSpec => []CompleteSince`;
- `RowsKept`: `PullSpec => [][PullStep]_pullVars`.

A pull is of the changes before its first page, but reads each item some pages later
and a missing master later still. `ReadInv` says what that is worth: every item read
is as it was read or has changed since the first page (`GotNow`, `GoneNow`), and
every item the pull is of, unless changed since, has been read or is still to come
(`Accounted`). A master is the exception (`MasterNow`): it may have been renamed, but
then its occurrences have changed too. A master that answers 404 belongs to an
occurrence that was alive when read, so it died after the first page; that is what
makes skipping the occurrence harmless (`ResolveInv`). `Applied` puts these
together for the rows, in a full and in a delta pull; the latter also needs that it
starts from a version the mirror was complete at (`PhaseInv`). The ways in which
the provider can change go through one statement of what they have in common
(`Moves`): what they touch is newer than all there was, the deleted stay deleted, and
a new title of a series touches its occurrences. `PullInv` was checked on a calendar
of one event and a series of two before it was proved.

### Records and credentials

`Records` has the smaller services as instances, each over variables of its own, and
its properties are about one of them: `[][x' # x => A]_x`, since in the others' steps
the service stutters. `Records_proofs` proves them, each from that service's
specification, for any number of requests, members, rows and credentials, from
`RecordsAssumption` (the types of the constants; `NONE` is none of the values it is
told from). The restrictions marked *Bound* in these modules are guards of their
specifications, so the theorems are subject to them as the runs are:

- `AdminKeptApart`: `People!HouseholdSpec => Secluded`; `CredentialsEnd`: `=> []CredentialsHold`;
- `SelectionsKept`: `Picks!SelectionSpec => SelectionKept`, for lists and calendars;
- `ConsentKept`: `Grants!TokenSpec => TokensKept`;
- `LibrariesKept`: `Syncs!LibrarySpec => SyncsKept`;
- `OccurrencesKept`: `Dues!Spec => TouchedKept`;
- `LinksStay`: `Papers!Spec => LinksKept`;
- `TapsLand`: `Shop!ShoppingSpec => ListKept`;
- `HouseholdTypes`, `OccurrenceTypes`, `GrantsTyped`, `PapersTyped`: the type invariants.

Most of these are about a write by a request that has read before and awaited since,
so each invariant says what of the reading still counts when it is used.

- `PeopleInv`: `Lives` bounds what a token has left of its life plus the time it has
  outlived its role by what it was given; a satellite token gets both lives because it is
  minted from a login whose role may be gone already. For `Secluded`, `BootSweeps`: a start
  leaves the account nothing of what it looks for, and each later write refuses it.
- `PicksInv`: a selection that is about to be written has found its provider connected
  and deletes rows of its own member there, none the member asked for and not the one
  it read as the household's (`Spares`). A designation made since is what `SelectionStep`
  names as the way to lose the list; the other is that of a list de-selected meanwhile.
- `SyncsInv`: a sync has written all that it fetched before it deletes, and what it
  deletes it did not fetch (`SyncOK`).
- `BillsInv`: there is one row for a bill and a date, and what a request remembers of one
  is its id and the column it is to write. `WriteRow`, `AddRow`, `PruneRow` and
  `DropTransaction` show that each leaves the columns of the others as they are by then:
  an update by id writes one column, and a prune looks at the row once more.
- `GrantsInv`: a refresh that no consent has overtaken (`overtaken`, a history variable)
  is of the very token that the row holds, so what is recorded of it is about that token.
- `PapersInv`: a request that has asked whether a link is its document's last holds that
  document's lock (`PaperJobOK`); what a sweep found without a link still has none, or is
  a new document by then (`OrphansOK`). `NoCircle`: who deletes a document waits for
  nobody, who holds a document's lock waits for those at most, and so on down.
- `ShopInv`: through every tap, request and replay, and of every item whose last tap was
  not crossed (`crossed`, a history variable), `QueueStands`, `SentStand` and
  `ReplayStand` say that whatever is still to arrive for it is what was last tapped, and `RowsCatchUp` that a row which differs has something under way for it.
  When nothing is, the row is right; `OneEach` keeps one replay from sending an entry twice.

### Screens

`Screens_proofs`, from `RecordsAssumption` and, for the wall, `RotationAssumption`
(which has `NONE` outside the integers):

- `WindowsShow`: `Calendar!EventSpec => []Calendar!RangeViewRight`;
- `WallObeys`: `Kitchen!HearthSpec => [](SwapsExchange /\ TapsHold /\ PositionFades)`;
- `DaysTravel`: `Clock!ClockSpec => [](AnchorRight /\ DuesRight)`;
- `PagesCurrent`: `Browser!CacheSpec => []ShownIsCurrent`, if `GapsKnown` of every view;
- `ScreensAreRight`: the four together imply `[]ScreensRight`.

`GapsKnown` compares the hand-written lists of `WebQueries` with each other; it has no
variables, and TLC evaluates it for every view of the client (`ShownIsCurrent`).
That the list of gaps is complete is thus checked, and the rest proved from it.

- Calendar: the candidates the query fetches are a superset of what overlaps
  (`OverlapEnds`), and the first step the expansion tries is found by a division;
  `OccurrencesShown` proves that it leaves out no occurrence in the window and adds none
  outside, from `FewerSteps` (the cap is not reached, which `Near` states) and
  `WholeQuotient`. The invariant `EventInv` is the types, through edits that stop
  half-way.
- Suppers: `MealInv` gives every drag one of four shapes (held, begun, half-way,
  over), and each shape as long as it is `calm` fixes what the two days have on the
  server. Whoever else writes one of the days makes it not calm (`WriteShakes`), the
  drag's own calls take it to the next shape (`SwapWrites`, `SwapClears`). `PlanOK`, no
  two entries have one id, is what makes a delete by id clear the right day.
- Taps: `TapStands`: what is kept of the week or the month, or an answer in flight, says
  is completed, is so unless somebody reopened it, and a tap is marked from the moment
  it is made until one of the two confirms it (`KnownDone`). It holds through answers
  that are older than the tap, because a mark goes only with an answer that confirms it
  (`StillPending`). A task that is done for sure may be tapped again, but only if the
  month's answer took its mark (`TapIsSure`).
- Paging: `WeekInv`: what is stored is the last paging by hand; a reload stores nothing.
- Cache: `MarkStands`: data that is old without excuse is being written by the
  mutation in hand, or marked, and fetched anew if it is on screen.
- Dates: for any length of day, any two offsets less than a day and a change at any
  instant. `MidnightFound`: if midnight exists, three corrections reach it: the first
  may land on the other side of the change, the second then has its offset.
  `MidnightRecovered`: a midnight in the author's zone is either a
  whole multiple of the day, and then that day's, or is read in the zone, and is too.

### Model-checked only

- Liveness and what needs fairness; TLAPS has no rules for `ENABLED`.
- What recursion and folds compute, which takes induction over data: `FiguresRight`
  (slots of a grid, due dates, balances, sums) and `ReconcileSquares` in `services`;
  in `ViewsRight` the search for the end of a gap (`WallClockRight`, `WindowsTile`),
  the fold over the feeds (`StalenessRight`) and the paged, sorted listing
  (`WindowComplete`). `CompleteSince` and `RowsKept` of the pulls are proved in
  `MirrorPull_proofs`, as the properties of any one pull.
- `RecordsTypeOK` and `ServicesTypeOK` as wholes, whose parts are of one instance
  each: the types of `EthelPlaces`, `KeyRotation`, `MirrorPull`, `Household`,
  `FeohBills`, `IntegrationTokens` and `Gewrit` are proved.
- `GapsKnown`, a fact about the tables of `WebQueries`.
- `HistoryIsFinal` and the other properties of the runs with a counterexample do not
  hold.

## Findings

Runs with a counterexample:

- `feoh_import_replay`: a tick that stops between a line's INSERT and its booking
  is not replayed: the next tick skips the line as known and it stays pending
  although mapping and rule were there.
- `weorc_stall`: a from_completion routine completed early by just its interval
  gets the due date of the row just finished; the insert conflicts, and the
  routine never has an open occurrence again.
- `weorc_history`: an occurrence finished by one request is rewritten, moved or
  deleted by another that read it before.
- `midnight_gap`: where the clocks go forward at midnight at or east of Greenwich,
  the server anchors that day before the gap, in the day before.

Without a run of their own, each reproduced by admitting one more element of a
bound or by dropping a restriction named above:

- `FireflySweep` with `"restartMidSweep"` or `"removeMidFetch"` in `Faults`: a line
  that arrived below the resumed `after`, or slid to a page already fetched, is
  passed by the checkpoint.
- `FeedSync` with `"deselect"`, `"reselect"`, `"designate"`, or `"passes"` and two
  passes: rows of a list that was de-selected come back and stay; a list
  selected again starts from its old token; a pass in flight writes the old
  attribution; two passes record one token over the other's rows.
- `EthelPlaces`, three processes with `updateRoutine` among `Ops`: `NoDeadlock`
  fails, because the anchor of a routine references a place and its write does
  not take the place-tree lock.
- `FeohItemCosts`: `PoolServes` with as many reactivations as connections, each
  asking for a second one; `SoldStaysRetired`, where the check of the disposal
  link and the update are two statements.
- `FeohBills`: a second link of an occurrence replaces the first payment; a lost
  race answers with the wrong error; an occurrence linked while its transaction
  goes keeps a row although nobody touched it.
- `FeohLedger`: `ImportAllOrNothing` in `csv`, where a row that names only an
  envelope passes the check and is refused after the rows before it are booked.
- `Selections`: a designation of a list that was de-selected in between, or one that
  overlaps a selection of the same list, leaves the household without a list. Both are
  in the model; `SelectionStep` names them as the only ways.
- `IntegrationTokens`: the outcome of a late refresh is recorded against the
  connection that replaced the one it was for. In the model; `ConsentStep` and
  `OutageStep` allow it to the refreshes in `overtaken` only.
- `Household`: `NoFrozenFeed`; the repair runs before any provider is registered,
  and so leaves feeds of the maintenance account for which it has no connection.
- `CalendarEvents`: a series stops after 2000 steps; an event may be edited to end
  before it starts.
- `LibrarySync`: a page of Trakt that fails counts as empty, and its items go.
- `Shopping`: an older queued tap replays over a newer one that arrived, or arrives after
  it: in the model, the items of which it can happen are in `crossed`; a list
  generated from a recipe since deleted counts as added by hand.
- `WebQueries`: the pairs of `LeftOut`.
- `Hearth`: a drag whose second write fails leaves one supper on both days; the month's
  answer clears the mark of a task that what is kept of the week still shows open. The
  latter is in the model, and `TapsHold` names it.
- `MirrorPull`: a first Graph pull that hits the page cap drops every row past it.
- `Weorc`: those of *Bounds*.

PROJECT.json has each with its lines, under `findings` or `hazards`.

## What is not modelled

- Several feeds at once, and the failure counter, which only shows.
- The retries of a throttled Graph request (`m365/graph.ts`), and the mapping of
  provider fields to rows.
- Edits of a recipe's ingredients; the household's time zone and display options.
- The validation of the environment (`config/env.ts`), the list of modules and the
  routing: fixed at the start.
- Schema and migrations: generated SQL. Constraints, cascades and locks appear as
  guards where they bite.
- Exports, summaries and bundles, which only read; rendering, forms and layout of
  the web client.

## Plan

Modelled, in the order of weight: the inbox with its abstract specification and
proofs; the sweep; Weorc with its recurrence; feeds, pulls, selections and
tokens; Ethel; Feoh's ledger, bills and costs; Gewrit; household, keys and the
smaller services; the web client.

Left to model: several feeds in one tick, with a designation across them;
recipes with ingredients.

Left to prove: `CompleteSince` of reminders (`WindowComplete`) and `StalenessRight`,
once sums and folds can be reasoned about by induction; the types of `Selections`,
`LibrarySync`, `Shopping`, `CalendarEvents`, `WebCache` and `Hearth` as invariants of
their own (what the proofs need of them is part of `PicksInv`, `SyncsInv`, `ShopInv`,
`EventInv`, `CacheInv` and `MealInv`).
