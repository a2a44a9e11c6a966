SPECIFICATION ImportSpec
CONSTANTS
  l1 = l1
  l2 = l2
  s1 = s1
  q1 = q1
  NONE = NONE
  Procs = {p1, p2}
  Lines = {l1, l2}
  Sources = {s1}
  Accounts = {a1}
  Envelopes = {e1}
  Patterns = {q1}
  RuleIds = {1}
  Priorities = {0}
  Txns = {t1, t2}
  SourceOf <- OneSource
  Foreign <- ForeignL2
  Hits <- AllHits
  Ops <- AllOps
SYMMETRY Sym
INVARIANTS TypeOK ExactlyOnce NeverForeign BookingIsExclusive
PROPERTIES SettledKept InboxSpec
