SPECIFICATION SetUpSpec
CONSTANTS
  l1 = l1
  l2 = l2
  s1 = s1
  q1 = q1
  NONE = NONE
  Procs = {p1}
  Lines = {l1}
  Sources = {s1}
  Accounts = {a1}
  Envelopes = {e1}
  Patterns = {q1}
  RuleIds = {1}
  Priorities = {0}
  Txns = {t1, t2}
  SourceOf <- OneSource
  Foreign <- NoForeign
  Hits <- AllHits
  Ops <- ReplayOps
INVARIANTS PageWorkedThrough
