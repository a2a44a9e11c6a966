SPECIFICATION RecordsSpec
CONSTANTS
  NONE = NONE
  ann = ann
  kid = kid
  maint = maint
  google = google
  m365 = m365
  desk = desk
  d1 = d1
  chores = chores
  soup = soup
  milk = milk
  event = event
  cooking = cooking
  rent = rent
  more = more
  p1 = p1
  p2 = p2
  p3 = p3
  x1 = x1
  x2 = x2
  r1 = r1
  r2 = r2
  Callers = {p1, p2}
  Docs = {d1}
  Homes = {desk}
  LinkRoles = {r1, r2}
  LinkIds = {x1, x2}
  Accounts = {x1, x2}
  Rotating = TRUE
  Adults = {ann}
  Children = {}
  ListProviders = {google, m365}
  Lists = {chores}
  Checked = TRUE
  Persons = {ann}
  Maint = maint
  Providers = {google}
  Belongings = {event, cooking}
  KindOf <- RowKinds
  LoginLife = 2
  SatelliteLife = 1
  Media = {x1, x2}
  Trakt = TRUE
  MaxToken = 2
  Bills = {rent}
  DueDates = {1}
  Schedules = {{}, {1}}
  Payments = {r1, r2}
  Amounts = {more}
  RowIds = {x1, x2}
  Recipes = {soup}
  Slots = {1}
  Goods = {milk}
  Needs <- SoupNeeds
  Items = {x1, x2}
  Shoppers = {p3}
  Replays = {r1, r2}
  Parents = {ann}
  Young = {kid}
  EventIds = {event}
  Starts = {0, 2}
  Lengths = {1}
  Everies = {2}
  MaxLength = 3
  Mirrored <- TripOf
  Windows <- Weekends
  MaxSteps = 3
  Views <- AllViews
  Days = {x1, x2}
  Dishes = {r1, r2}
  Hands = {p1, p2}
  MaxIds = 2
  Tasks = {x1, x2}
  FeedKeys <- FamilyFeeds
  STALE_AFTER = 1
  Offsets <- NearWeeks
  WeekLength = 2
  MaxAge = 1
  LastTick = 6
  DAY = 24
  Zones <- HourZones
  LastDay = 3
  TokenLife = 3
  HttpLife = 2
  OwnLife = 2
  MaxKid = 3
SYMMETRY Sym
INVARIANTS RecordsTypeOK CredentialsHold Verifies ScreensRight ViewsRight
PROPERTIES LinksKept TokensKept SelectionKept Secluded ListKept RowsKept SyncsKept TouchedKept
CHECK_DEADLOCK FALSE
