------------------------------- MODULE MCRecords -------------------------------
(* The smaller services of the household side by side: each behaviour is of the *)
(* one named by focus, the others do not move.                                  *)
EXTENDS Records, WebQueries

CONSTANTS ann, kid, maint, google, m365, desk, d1, chores, soup, milk, event, cooking, rent, more,
          p1, p2, p3, x1, x2, r1, r2

VARIABLES focus,
          reminders, changes, listing,                          \* KithReminders
          version, oldest, remote, mirror, token, pull, since     \* MirrorPull

kith       == <<reminders, changes, listing>>
pulling    == <<version, oldest, remote, mirror, token, pull, since>>
-----------------------------------------------------------------------------
(* The services of Records: a document and two links to it in two roles; a member with  *)
(* two accounts, at a provider that rotates refresh tokens and at one that does not; a   *)
(* list at each of two providers; the maintenance account before and after starts of the *)
(* process, then credentials; a library of two titles; the list with the plan behind it,  *)
(* then with a phone; and a bill with one due date.                                      *)
RowKinds == event :> "created" @@ cooking :> "assigned"
SoupNeeds == soup :> (milk :> 1)

Stays == INSTANCE IntegrationTokens WITH Rotating <- FALSE, Procs <- Callers

Things == INSTANCE LibrarySync
  WITH Titles <- Media, conn <- library, job <- syncJob, Procs <- Callers, Trakt <- FALSE, MaxToken <- 1

(* An event of an adult and a child, a series, a mirrored row, and windows around them. *)
TripOf   == {[start |-> 1, end |-> 2, member |-> ann]}
Weekends == {w \in {0, 3} \X {1, 4, 5} : w[1] <= w[2]}

(* Three reminders, in pages of two. *)
Wall == INSTANCE KithReminders
  WITH Ids <- 1..3, Times <- 1..2, Froms <- 1..2, Tos <- {2}, PageLimit <- 2, MaxChanges <- 1

(* One view of the web client at a time. *)
AllViews == DOMAIN Reads

(* The kitchen wall: two drags over two days; then two tasks; then the feeds of a member  *)
(* with a Microsoft and a Google calendar and of the family; then the paging of weeks. *)
FamilyFeeds ==
  << [kind |-> "member", provider |-> m365, member |-> ann], [kind |-> "family", provider |-> google, member |-> ann],
     [kind |-> "family", provider |-> m365, member |-> NONE] >>

NearWeeks == -1..1

(* Zones on both sides of UTC, whose clocks go forward or back by an hour or two at *)
(* any hour of a day.                                                             *)
HourZones ==
  {[before |-> o, after |-> o + s, at |-> a] :
     o \in {-10, -5, -1, 0, 2, 9}, s \in {-2, -1, 1, 2}, a \in 24..60}

(* A series of two occurrences at Outlook; three events at Google; tasks of Google, which has no tokens. *)
Outlook == INSTANCE MirrorPull
  WITH Events <- {}, Occurrences <- {x1, x2}, Series <- {d1}, SeriesOf <- [i \in {x1, x2} |-> d1],
       Delta <- TRUE, CapThrows <- FALSE, PAGE_SIZE <- 2, MAX_PAGES <- 3, MaxVersion <- 2

GoogleDays == INSTANCE MirrorPull
  WITH Events <- {x1, x2, event}, Occurrences <- {}, Series <- {}, SeriesOf <- <<>>,
       Delta <- TRUE, CapThrows <- TRUE, PAGE_SIZE <- 1, MAX_PAGES <- 2, MaxVersion <- 2

GoogleTasks == INSTANCE MirrorPull
  WITH Events <- {x1, x2, event}, Occurrences <- {}, Series <- {}, SeriesOf <- <<>>,
       Delta <- FALSE, CapThrows <- TRUE, PAGE_SIZE <- 1, MAX_PAGES <- 2, MaxVersion <- 2

Sym == Permutations({p1, p2}) \cup Permutations({x1, x2}) \cup Permutations({r1, r2})
-----------------------------------------------------------------------------
NoPapers  == paperless = NONE /\ elements = NONE /\ docs = NONE /\ links = NONE /\ paperJob = NONE
NoTokens  == conn = NONE /\ cached = NONE /\ revoked = NONE /\ calls = NONE /\ overtaken = NONE
NoLists   == allowed = NONE /\ household = NONE /\ offered = NONE /\ request = NONE
NoPeople  == /\ up = NONE /\ role = NONE /\ holder = NONE /\ owner = NONE /\ conns = NONE /\ synced = NONE
             /\ registered = NONE /\ leaving = NONE /\ keys = NONE /\ login = NONE /\ satellite = NONE
NoTitles  == account = NONE /\ valid = NONE /\ library = NONE /\ items = NONE /\ syncJob = NONE
NoBills   == schedule = NONE /\ txns = NONE /\ occ = NONE /\ billJob = NONE
NoEvents  == events = NONE /\ attending = NONE /\ requests = NONE
NoWall    == reminders = NONE /\ changes = NONE /\ listing = NONE
NoShop    == /\ recipes = NONE /\ plan = NONE /\ list = NONE /\ used = NONE /\ online = NONE
             /\ queue = NONE /\ patches = NONE /\ replay = NONE /\ wanted = NONE /\ crossed = NONE /\ shopJob = NONE
NoWeb     == /\ view = NONE /\ mounted = NONE /\ data = NONE /\ invalid = NONE /\ age = NONE
             /\ fetch = NONE /\ write = NONE /\ cause = NONE
NoKitchen == /\ suppers = NONE /\ wall = NONE /\ swaps = NONE /\ made = NONE
             /\ tasks = NONE /\ wallTasks = NONE /\ onScreen = NONE /\ completing = NONE /\ taps = NONE
             /\ fetching = NONE /\ sure = NONE /\ reopened = NONE /\ feeds = NONE
             /\ clock = NONE /\ offset = NONE /\ stored = NONE /\ pagedAt = NONE /\ loaded = NONE
NoDates   == zone = NONE /\ day = NONE
NoPull    == /\ version = NONE /\ oldest = NONE /\ remote = NONE /\ mirror = NONE /\ token = NONE
             /\ pull = NONE /\ since = NONE
NoService == /\ NoPapers /\ NoTokens /\ NoEvents /\ NoLists /\ NoPeople /\ NoWall
             /\ NoShop /\ NoTitles /\ NoBills /\ NoWeb /\ NoKitchen /\ NoDates /\ NoPull

(* Without the suppers the wall starts with an empty plan. *)
KitchenFoci == {"suppers", "touched", "badges", "paged"}

(* Bounds: next to the plan, one tap at a time, online; on the phone, one item with       *)
(* requests in every order, or two items whose requests keep to theirs.                 *)
InOrder(n) == crossed = {} /\ Cardinality(patches) <= n /\ \A x \in patches : x.by # "gone"

TapBound   == InOrder(1) /\ online
PhoneBound == Cardinality(used) <= 1 \/ InOrder(2)

(* Bound: two tasks in the week's answer, or one in the week's and the month's. *)
Touched    == {t \in Tasks : tasks[t] # "open" \/ taps[t] # NONE \/ t \in reopened}
TouchBound ==
  \/ onScreen # "month" /\ fetching["month"] = NONE /\ \A t \in Tasks : wallTasks["month"][t] = "open"
  \/ Cardinality(Touched) <= 1

(* The account while it is cleaned up, by requests whose tokens stay fresh; then members *)
(* with credentials and nothing else.                                                  *)
NothingAges == satellite' = satellite /\ (login' # login => login'.left = LoginLife)

NothingOwned == owner = [r \in Belongings |-> NONE] /\ conns = {} /\ synced = {} /\ registered = {}

ServiceInit ==
  \/ /\ focus = "papers" /\ Papers!Init
     /\ NoTokens /\ NoEvents /\ NoLists /\ NoPeople /\ NoWall /\ NoShop
     /\ NoTitles /\ NoBills /\ NoWeb /\ NoKitchen /\ NoDates /\ NoPull
  \/ /\ \/ focus = "rotates" /\ Grants!TokenInit
        \/ focus = "stays" /\ Stays!TokenInit
     /\ NoPapers /\ NoEvents /\ NoLists /\ NoPeople /\ NoWall /\ NoShop
     /\ NoTitles /\ NoBills /\ NoWeb /\ NoKitchen /\ NoDates /\ NoPull
  \/ /\ focus = "events" /\ Calendar!EventInit
     /\ NoPapers /\ NoTokens /\ NoLists /\ NoPeople /\ NoWall /\ NoShop
     /\ NoTitles /\ NoBills /\ NoWeb /\ NoKitchen /\ NoDates /\ NoPull
  \/ /\ focus = "lists" /\ Picks!SelectionInit
     /\ NoPapers /\ NoTokens /\ NoEvents /\ NoPeople /\ NoWall /\ NoShop
     /\ NoTitles /\ NoBills /\ NoWeb /\ NoKitchen /\ NoDates /\ NoPull
  \/ /\ \/ focus = "apart" /\ People!HouseholdInit
        \/ focus = "rights" /\ People!HouseholdInit /\ NothingOwned
     /\ NoPapers /\ NoTokens /\ NoEvents /\ NoLists /\ NoWall /\ NoShop
     /\ NoTitles /\ NoBills /\ NoWeb /\ NoKitchen /\ NoDates /\ NoPull
  \/ /\ focus = "wall" /\ Wall!KithInit
     /\ NoPapers /\ NoTokens /\ NoEvents /\ NoLists /\ NoPeople /\ NoShop
     /\ NoTitles /\ NoBills /\ NoWeb /\ NoKitchen /\ NoDates /\ NoPull
  \/ /\ focus \in {"planned", "phone"} /\ Shop!ShoppingInit
     /\ NoPapers /\ NoTokens /\ NoEvents /\ NoLists /\ NoPeople /\ NoWall
     /\ NoTitles /\ NoBills /\ NoWeb /\ NoKitchen /\ NoDates /\ NoPull
  \/ /\ \/ focus = "trakt" /\ Syncs!LibraryInit
        \/ focus = "things" /\ Things!LibraryInit
     /\ NoPapers /\ NoTokens /\ NoEvents /\ NoLists /\ NoPeople /\ NoWall
     /\ NoShop /\ NoBills /\ NoWeb /\ NoKitchen /\ NoDates /\ NoPull
  \/ /\ focus = "bills" /\ Dues!Init
     /\ NoPapers /\ NoTokens /\ NoEvents /\ NoLists /\ NoPeople /\ NoWall
     /\ NoShop /\ NoTitles /\ NoWeb /\ NoKitchen /\ NoDates /\ NoPull
  \/ /\ focus = "browser" /\ Browser!CacheInit
     /\ NoPapers /\ NoTokens /\ NoEvents /\ NoLists /\ NoPeople /\ NoWall
     /\ NoShop /\ NoTitles /\ NoBills /\ NoKitchen /\ NoDates /\ NoPull
  \/ /\ focus \in KitchenFoci /\ Kitchen!HearthInit
     /\ focus # "suppers" => \A d \in Days : suppers[d] = NONE
     /\ NoPapers /\ NoTokens /\ NoEvents /\ NoLists /\ NoPeople /\ NoWall
     /\ NoShop /\ NoTitles /\ NoBills /\ NoWeb /\ NoDates /\ NoPull
  \/ /\ focus = "clock" /\ Clock!ClockInit
     /\ NoPapers /\ NoTokens /\ NoEvents /\ NoLists /\ NoPeople /\ NoWall
     /\ NoShop /\ NoTitles /\ NoBills /\ NoWeb /\ NoKitchen /\ NoPull
  \/ /\ \/ focus = "outlook" /\ Outlook!PullInit
        \/ focus = "google days" /\ GoogleDays!PullInit
        \/ focus = "google tasks" /\ GoogleTasks!PullInit
     /\ NoPapers /\ NoTokens /\ NoEvents /\ NoLists /\ NoPeople /\ NoWall
     /\ NoShop /\ NoTitles /\ NoBills /\ NoWeb /\ NoKitchen /\ NoDates

ServiceNext ==
  \/ /\ focus = "papers" /\ Papers!Next
     /\ UNCHANGED <<tokens, calendar, selections, people, kith, shopping, titles, bills, web, kitchen, dates, pulling>>
  \/ /\ \/ focus = "rotates" /\ Grants!TokenNext
        \/ focus = "stays" /\ Stays!TokenNext
     /\ UNCHANGED <<gewrit, calendar, selections, people, kith, shopping, titles, bills, web, kitchen, dates, pulling>>
  \/ /\ focus = "events" /\ Calendar!EventNext
     /\ UNCHANGED <<gewrit, tokens, selections, people, kith, shopping, titles, bills, web, kitchen, dates, pulling>>
  \/ /\ focus = "lists" /\ Picks!SelectionNext
     /\ UNCHANGED <<gewrit, tokens, calendar, people, kith, shopping, titles, bills, web, kitchen, dates, pulling>>
  \/ /\ \/ focus = "apart" /\ People!HouseholdNext /\ NothingAges
        \/ focus = "rights" /\ People!HouseholdNext /\ NothingOwned'
     /\ UNCHANGED <<gewrit, tokens, calendar, selections, kith, shopping, titles, bills, web, kitchen, dates, pulling>>
  \/ /\ focus = "wall" /\ Wall!KithNext
     /\ UNCHANGED <<gewrit, tokens, calendar, selections, people, shopping, titles, bills, web, kitchen, dates, pulling>>
  \/ /\ focus \in {"planned", "phone"} /\ Shop!ShoppingNext
     /\ focus = "planned" => replay' = replay /\ TapBound'
     /\ focus = "phone" => recipes' = recipes /\ plan' = plan /\ shopJob' = shopJob /\ PhoneBound'
     /\ UNCHANGED <<gewrit, tokens, calendar, selections, people, kith, titles, bills, web, kitchen, dates, pulling>>
  \/ /\ \/ focus = "trakt" /\ Syncs!LibraryNext
        \/ focus = "things" /\ Things!LibraryNext
     /\ UNCHANGED <<gewrit, tokens, calendar, selections, people, kith, shopping, bills, web, kitchen, dates, pulling>>
  \/ /\ focus = "bills" /\ Dues!Next
     /\ UNCHANGED <<gewrit, tokens, calendar, selections, people, kith, shopping, titles, web, kitchen, dates, pulling>>
  \/ /\ focus = "browser" /\ Browser!CacheNext
     /\ UNCHANGED <<gewrit, tokens, calendar, selections, people, kith, shopping, titles, bills, kitchen, dates, pulling>>
  \/ /\ focus \in KitchenFoci /\ Kitchen!HearthNext
     /\ focus # "suppers" => UNCHANGED Kitchen!mealVars
     /\ IF focus = "touched" THEN TouchBound' ELSE UNCHANGED Kitchen!taskVars
     /\ focus # "badges" => UNCHANGED feeds
     /\ focus # "paged" => UNCHANGED Kitchen!positionVars /\ (clock' # clock => focus = "badges" /\ clock < 3)
     /\ UNCHANGED <<tokens, gewrit, calendar, selections, people, kith, shopping, titles, bills, web, dates, pulling>>
  \/ /\ focus = "clock" /\ Clock!ClockNext
     /\ UNCHANGED <<tokens, gewrit, calendar, selections, people, kith, shopping, titles, bills, web, kitchen, pulling>>
  \/ /\ \/ focus = "outlook" /\ Outlook!PullNext
        \/ focus = "google days" /\ GoogleDays!PullNext
        \/ focus = "google tasks" /\ GoogleTasks!PullNext
     /\ UNCHANGED <<gewrit, tokens, calendar, selections, people, kith, shopping, titles, bills, web, kitchen, dates>>

services == <<gewrit, tokens, calendar, selections, people, kith, shopping, titles, bills, web, kitchen, dates, pulling>>

(* The keys do not move but in their own behaviours. *)
RecordsInit == RotationInit /\ (ServiceInit \/ (focus = "rotation" /\ NoService))

RecordsNext ==
  /\ UNCHANGED focus
  /\ \/ ServiceNext /\ UNCHANGED rotationVars
     \/ focus = "rotation" /\ RotationNext /\ UNCHANGED services

allVars == <<focus, services, rotationVars>>

RecordsSpec == RecordsInit /\ [][RecordsNext]_allVars
-----------------------------------------------------------------------------
(* The type invariants of the components. *)
RecordsTypeOK ==
  /\ focus = "rotation" => RotationTypeOK
  /\ focus = "papers"  => Papers!TypeOK
  /\ focus = "rotates" => Grants!TokenTypeOK
  /\ focus = "stays"   => Stays!TokenTypeOK
  /\ focus = "events"  => Calendar!EventTypeOK
  /\ focus = "lists"   => Picks!SelectionTypeOK
  /\ focus = "apart"   => People!HouseholdTypeOK
  /\ focus = "rights"  => People!HouseholdTypeOK
  /\ focus = "wall"    => Wall!KithTypeOK
  /\ focus \in {"planned", "phone"} => Shop!ShoppingTypeOK
  /\ focus = "trakt"   => Syncs!LibraryTypeOK
  /\ focus = "things"  => Things!LibraryTypeOK
  /\ focus = "bills"   => Dues!TypeOK
  /\ focus = "browser" => Browser!CacheTypeOK
  /\ focus \in KitchenFoci => Kitchen!HearthTypeOK
  /\ focus = "clock"   => Clock!ClockTypeOK
  /\ focus = "outlook" => Outlook!PullTypeOK
  /\ focus = "google days"  => GoogleDays!PullTypeOK
  /\ focus = "google tasks" => GoogleTasks!PullTypeOK

(* KithReminders: an undisturbed listing of reminders shows what is due in the window   *)
(* and nothing else (kith/routes.ts:39-45). Hearth: the wall greys what is stale         *)
(* (hearth.ts:355-385). ZoneClock: wall times and the windows of days agree on what      *)
(* instant belongs to what day (format.ts:105-174). MirrorPull: the mirrored calendars    *)
(* and lists are those of the last pull (m365/calendar-provider.ts:20-37).                *)
ViewsRight ==
  /\ focus = "wall"   => Wall!WindowComplete
  /\ focus = "badges" => Kitchen!StalenessRight
  /\ focus = "clock"  => Clock!WallClockRight /\ Clock!WindowsTile
  /\ focus = "outlook" => Outlook!CompleteSince
  /\ focus = "google days"  => GoogleDays!CompleteSince
  /\ focus = "google tasks" => GoogleTasks!CompleteSince

(* MirrorPull: a pull takes no row away of what is still at the provider, and none *)
(* cut off passes for a complete one (google/calendar-provider.ts:168-182).        *)
RowsKept ==
  [][/\ focus = "outlook" => Outlook!PullStep
     /\ focus = "google days"  => GoogleDays!PullStep
     /\ focus = "google tasks" => GoogleTasks!PullStep]_allVars
=============================================================================
