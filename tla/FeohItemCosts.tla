----------------------------- MODULE FeohItemCosts -----------------------------
(***************************************************************************)
(* What an asset costs, and its end: modules/feoh/item-costs.ts, and the   *)
(* decommissioning, reactivation and deletion of modules/ethel/service.ts. *)
(*                                                                         *)
(* A request reads, awaits and writes; updateAsset does so in a            *)
(* transaction, which holds one of the pool's connections while            *)
(* hasDisposalLink asks for a second one.                                  *)
(***************************************************************************)
EXTENDS Integers, FiniteSetsExt

CONSTANTS Assets, Txns,
          Sizes,      \* cost sizes in cents: 0 for a transfer
          PoolMax,    \* DB_POOL_MAX
          Procs,      \* requests in flight
          NONE

TIER2   == {"repair", "maintenance", "accessory"}
CAPITAL == {"purchase", "disposal"}

VARIABLES retired,   \* ethel_assets: for each asset, whether it is decommissioned
          size,      \* transactions: the envelope spending of each (costSizeCents)
          links,     \* feoh_item_costs
          paid,      \* transaction and asset: a paid occurrence of a bill tied to the asset
          job

vars == <<retired, size, links, paid, job>>
-----------------------------------------------------------------------------
NoJob     == [op |-> NONE]
AssetRows == DOMAIN retired
TxnRows   == DOMAIN size
Link(t, a, k) == [txn |-> t, asset |-> a, kind |-> k]

(* item_cost_tx_asset_unique and item_cost_capital_unique. *)
Unique(S) == \A l, m \in S :
               \/ l = m
               \/ /\ l.txn # m.txn \/ l.asset # m.asset
                  /\ l.asset # m.asset \/ l.kind # m.kind \/ l.kind \in TIER2

TypeOK ==
  /\ AssetRows \subseteq Assets /\ \A a \in AssetRows : retired[a] \in BOOLEAN
  /\ TxnRows \subseteq Txns /\ \A t \in TxnRows : size[t] \in Sizes
  /\ \A l \in links : l.txn \in TxnRows /\ l.asset \in AssetRows /\ l.kind \in TIER2 \cup CAPITAL
  /\ Unique(links)
  /\ paid \subseteq TxnRows \X AssetRows
  /\ \A p \in Procs : job[p] = NoJob \/ job[p].pc \in {"txn", "asset", "size", "insert", "update",
                                                       "begin", "disposal", "reactivate"}

Init == /\ retired = <<>> /\ size = <<>> /\ links = {} /\ paid = {}
        /\ job = [p \in Procs |-> NoJob]
-----------------------------------------------------------------------------
Becomes(p, j) == job' = [job EXCEPT ![p] = j]
Answers(p)    == Becomes(p, NoJob)
GoesTo(p, pc) == Becomes(p, [job[p] EXCEPT !.pc = pc])
At(p, pc)     == job[p] # NoJob /\ job[p].pc = pc

(* A transaction holds its connection; any other statement needs a free one. *)
InTransaction == {p \in Procs : At(p, "disposal") \/ At(p, "reactivate")}
FreeConnection == Cardinality(InTransaction) < PoolMax
-----------------------------------------------------------------------------
StartCreate(p, t, a, k) ==
  /\ job[p] = NoJob
  /\ Becomes(p, [op |-> "createItemCost", pc |-> "txn", txn |-> t, asset |-> a, kind |-> k])
  /\ UNCHANGED <<retired, size, links, paid>>

ReadTxn(p) ==
  /\ At(p, "txn") /\ FreeConnection
  /\ IF job[p].txn \in TxnRows THEN GoesTo(p, "asset") ELSE Answers(p)
  /\ UNCHANGED <<retired, size, links, paid>>

(* The asset as createItemCost and as decommissionAsset read it. *)
ReadAsset(p) ==
  /\ At(p, "asset") /\ FreeConnection
  /\ LET j    == job[p]
         gone == j.asset \notin AssetRows
     IN  CASE gone -> Answers(p)
           [] ~gone /\ j.op = "createItemCost" ->
                CASE retired[j.asset] /\ j.kind # "disposal" -> Answers(p)
                  [] j.kind \in TIER2 -> GoesTo(p, "size")
                  [] OTHER            -> GoesTo(p, "insert")
           [] ~gone /\ j.op = "decommissionAsset" ->
                IF retired[j.asset] THEN Answers(p) ELSE GoesTo(p, "update")
  /\ UNCHANGED <<retired, size, links, paid>>

(* A transfer is not a cost; of a transaction that is gone the size is 0 too. *)
ReadSize(p) ==
  /\ At(p, "size") /\ FreeConnection
  /\ IF job[p].txn \in TxnRows /\ size[job[p].txn] > 0 THEN GoesTo(p, "insert") ELSE Answers(p)
  /\ UNCHANGED <<retired, size, links, paid>>

InsertLink(p) ==
  /\ At(p, "insert") /\ FreeConnection
  /\ LET j   == job[p]
         new == Link(j.txn, j.asset, j.kind)
     IN  links' = IF /\ j.txn \in TxnRows /\ j.asset \in AssetRows
                     /\ new \notin links /\ Unique(links \cup {new})
                  THEN links \cup {new} ELSE links
  /\ Answers(p)
  /\ UNCHANGED <<retired, size, paid>>

deleteItemCost(l) ==
  /\ l \in links /\ FreeConnection
  /\ links' = links \ {l}
  /\ UNCHANGED <<retired, size, paid, job>>
-----------------------------------------------------------------------------
createAsset(a) ==
  /\ a \notin AssetRows /\ FreeConnection
  /\ retired' = [b \in AssetRows \cup {a} |-> IF b = a THEN FALSE ELSE retired[b]]
  /\ UNCHANGED <<size, links, paid, job>>

StartDecommission(p, a) ==
  /\ job[p] = NoJob
  /\ Becomes(p, [op |-> "decommissionAsset", pc |-> "asset", asset |-> a])
  /\ UNCHANGED <<retired, size, links, paid>>

decommissionAsset(p) ==
  /\ At(p, "update") /\ FreeConnection
  /\ retired' = IF job[p].asset \in AssetRows THEN [retired EXCEPT ![job[p].asset] = TRUE] ELSE retired
  /\ Answers(p)
  /\ UNCHANGED <<size, links, paid>>

(* updateAsset with decommissionedAt: null. *)
BeginReactivation(p, a) ==
  /\ job[p] = NoJob /\ FreeConnection
  /\ Becomes(p, [op |-> "updateAsset", pc |-> "disposal", asset |-> a])
  /\ UNCHANGED <<retired, size, links, paid>>

hasDisposalLink(a) == \E l \in links : l.asset = a /\ l.kind = "disposal"

CheckDisposal(p) ==
  /\ At(p, "disposal") /\ FreeConnection
  /\ IF hasDisposalLink(job[p].asset) THEN Answers(p) ELSE GoesTo(p, "reactivate")
  /\ UNCHANGED <<retired, size, links, paid>>

reactivate(p) ==
  /\ At(p, "reactivate")
  /\ retired' = IF job[p].asset \in AssetRows THEN [retired EXCEPT ![job[p].asset] = FALSE] ELSE retired
  /\ Answers(p)
  /\ UNCHANGED <<size, links, paid>>

(* Seeded fault: the asset goes although finance still names it. *)
deleteAssetUnrestricted(a) ==
  /\ a \in AssetRows /\ FreeConnection
  /\ retired' = [b \in AssetRows \ {a} |-> retired[b]]
  /\ UNCHANGED <<size, links, paid, job>>

(* ON DELETE RESTRICT, of links and of the bills tied to the asset. *)
deleteAsset(a) ==
  /\ a \in AssetRows /\ FreeConnection
  /\ \A l \in links : l.asset # a
  /\ \A b \in paid : b[2] # a
  /\ retired' = [b \in AssetRows \ {a} |-> retired[b]]
  /\ UNCHANGED <<size, links, paid, job>>
-----------------------------------------------------------------------------
(* The ledger and the bills around it. *)
RecordTransaction(t, n) ==
  /\ t \notin TxnRows /\ FreeConnection
  /\ size' = [s \in TxnRows \cup {t} |-> IF s = t THEN n ELSE size[s]]
  /\ UNCHANGED <<retired, links, paid, job>>

(* Its links go by cascade, its occurrences are emptied. *)
DeleteTransaction(t) ==
  /\ t \in TxnRows /\ FreeConnection
  /\ size' = [s \in TxnRows \ {t} |-> size[s]]
  /\ links' = {l \in links : l.txn # t}
  /\ paid' = {b \in paid : b[1] # t}
  /\ UNCHANGED <<retired, job>>

(* Its envelope or account is deleted: SET NULL, and nothing is left to count. *)
LosesEnvelope(t) ==
  /\ t \in TxnRows /\ FreeConnection
  /\ size' = [size EXCEPT ![t] = 0]
  /\ UNCHANGED <<retired, links, paid, job>>

PayBill(t, a) ==
  /\ t \in TxnRows /\ a \in AssetRows /\ FreeConnection
  /\ paid' \in {paid \cup {<<t, a>>}, paid \ {<<t, a>>}}
  /\ UNCHANGED <<retired, size, links, job>>

Crash == /\ \E p \in Procs : job[p] # NoJob
         /\ job' = [p \in Procs |-> NoJob]
         /\ UNCHANGED <<retired, size, links, paid>>

Requests(p) ==
  \/ \E t \in Txns, a \in Assets, k \in TIER2 \cup CAPITAL : StartCreate(p, t, a, k)
  \/ \E a \in Assets : StartDecommission(p, a) \/ BeginReactivation(p, a)

Works(p) ==
  \/ ReadTxn(p) \/ ReadAsset(p) \/ ReadSize(p) \/ InsertLink(p)
  \/ decommissionAsset(p) \/ CheckDisposal(p) \/ reactivate(p)

Next ==
  \/ \E p \in Procs : Requests(p) \/ Works(p)
  \/ \E l \in links : deleteItemCost(l)
  \/ \E a \in Assets : createAsset(a) \/ deleteAsset(a)
  \/ \E t \in Txns : \/ DeleteTransaction(t) \/ LosesEnvelope(t)
                     \/ \E n \in Sizes : RecordTransaction(t, n)
                     \/ \E a \in Assets : PayBill(t, a)
  \/ Crash

Spec == Init /\ [][Next]_vars
-----------------------------------------------------------------------------
(* getItemCosts: recurring payments first, then the links, which win. *)
LinkedCosts(a) == {l.txn : l \in {m \in links : m.asset = a /\ m.kind \in TIER2}}

(* Seeded fault: a bill's payment linked as a repair counts in both totals. *)
RecurringTwice(a) == {b[1] : b \in {c \in paid : c[2] = a}}

RecurringCosts(a) == {b[1] : b \in {c \in paid : c[2] = a}} \ LinkedCosts(a)

SumOf(S) == MapThenSumSet(LAMBDA t : size[t], S)

getItemCosts(a) == [tier2 |-> SumOf(LinkedCosts(a)), recurring |-> SumOf(RecurringCosts(a))]

(* However a transaction came to count into an asset, by a link, by a bill of   *)
(* the asset, or both, and whatever became of it since, its cents are in the     *)
(* asset's total once ("Dedup by transactionId per item").                       *)
CountedOnce ==
  \A a \in AssetRows :
    getItemCosts(a).tier2 + getItemCosts(a).recurring
      = SumOf({t \in TxnRows : <<t, a>> \in paid \/ \E k \in TIER2 : Link(t, a, k) \in links})

(* Of the requests in flight, one can go on: no connection is held only by      *)
(* transactions that wait for another one.                                       *)
PoolServes == InTransaction = {} \/ FreeConnection \/ \E p \in Procs : At(p, "reactivate")

(* An asset is not taken back into use while a transaction says it was sold     *)
(* ("blocks reactivating an asset with a recorded disposal link").               *)
SoldStaysRetired ==
  [][\A a \in AssetRows \cap DOMAIN retired' :
       retired[a] /\ ~retired'[a] => ~hasDisposalLink(a)]_vars
=============================================================================
