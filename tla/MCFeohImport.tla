----------------------------- MODULE MCFeohImport -----------------------------
(* Instances of FeohImport for TLC. *)
EXTENDS FeohImport, TLC

CONSTANTS l1, l2, s1, q1

MCLines == {l1, l2}
OneLine == {l1}
OneSource == [l \in Lines |-> s1]

(* l1 is in the household's currency, l2 is not (where there is an l2). *)
ForeignL2  == Lines \ {l1}
NoForeign  == {}

(* The one pattern occurs in every payee. *)
AllHits == [q \in Patterns |-> Lines]

AllOps   == {"ingest", "confirm", "dismiss", "deleteTransaction", "createRule", "updateRule",
             "deleteRule", "upsertMapping", "deleteMapping", "deleteEnvelope", "deleteAccount",
             "crash"}

(* The rule and the mapping are in place before the first tick and stay; the  *)
(* only things that happen are ticks and a process that stops.                *)
ReplayOps == {"ingest", "crash"}

SetUpInit ==
  /\ inbox     = [l \in Lines |-> AbsentRow]
  /\ ledger    = [t \in Txns |-> NONE]
  /\ rules     \in [RuleIds -> {rule \in Rule : rule.enabled}]
  /\ issued    = RuleIds
  /\ mapping   \in [Sources -> Accounts]
  /\ envelopes = Envelopes
  /\ accounts  = Accounts
  /\ rowLock   = [l \in Lines |-> NONE]
  /\ pc        = [p \in Procs |-> "idle"]
  /\ job       = [p \in Procs |-> NoJob]

SetUpSpec == SetUpInit /\ [][Next]_vars

(* Bound: an envelope or an account is deleted while the line in a foreign currency,    *)
(* which is never booked, has not arrived.                                          *)
Gone    == (Envelopes \ envelopes) \cup (Accounts \ accounts)
NoOther == \A l \in Foreign : inbox[l] = AbsentRow /\ \A p \in Procs : l \notin job[p].items

ChartBound == Gone = {} \/ NoOther

ImportSpec == Init /\ [][Next /\ ChartBound']_vars

Sym == Permutations(Procs) \cup Permutations(Txns)
=============================================================================
