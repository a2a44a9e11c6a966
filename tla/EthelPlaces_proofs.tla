-------------------------- MODULE EthelPlaces_proofs --------------------------
(* Proofs about EthelPlaces, for any number of requests in flight: its types,  *)
(* that the place tree stays a tree no deeper than the cap, that no asset has  *)
(* two details, and that the lock protocol cannot deadlock.                    *)
EXTENDS EthelPlaces, FiniteSetTheorems, WellFoundedInduction, TLAPS

USE EthelAssumption

(* ------------------------------------------------------- the invariants *)
PlaceOps == {"createPlace", "updatePlace", "deletePlace"}

AllOps == PlaceOps \cup {"createAsset", "updateAsset", "deleteAsset", "upsertVehicle", "deleteVehicle",
                         "upsertFacility", "deleteFacility", "updateRoutine"}

(* How many statements an operation makes. *)
HowMany(op) ==
  CASE op = "deleteVehicle" -> 1
    [] op \in {"createPlace", "createAsset", "upsertVehicle", "deleteFacility", "updateRoutine"} -> 2
    [] op \in {"updatePlace", "updateAsset"} -> 3
    [] op = "deleteAsset" -> 4
    [] OTHER -> 5

(* What a request of an operation names, and the statements it is among. *)
Fits(t) ==
  /\ t.op \in AllOps /\ t.stage \in 1..HowMany(t.op)
  /\ t.op \in PlaceOps => t.id \in Places
  /\ t.op \in AllOps \ (PlaceOps \cup {"updateRoutine"}) => t.id \in Assets
  /\ t.op = "updateRoutine" => t.id \in Routines
  /\ t.op \in {"createPlace", "updatePlace", "createAsset", "updateAsset"} => t.to \in Places \cup {NONE}

(* No two requests hold locks that exclude one another. *)
Mutex ==
  /\ held = [q \in Procs |-> held[q]]
  /\ \A q, r \in Procs : q # r => \A l \in held[q], m \in held[r] : ~Conflict(l, m)

(* What a request has locked, by the stage it has reached. *)
HasTree(t)  == t.op \in PlaceOps \cup {"upsertFacility"} /\ t.stage >= 2
HasAsset(t) == \/ t.op \in {"deleteAsset", "upsertVehicle"} /\ t.stage >= 2
               \/ t.op = "upsertFacility" /\ t.stage >= 3

Fitted == \A q \in Procs, t \in Requests : tx[q] = t => Fits(t)

Kept ==
  \A q \in Procs, t \in Requests : tx[q] = t =>
    /\ HasTree(t) => Tree \in held[q]
    /\ HasAsset(t) => Lock(t.id, "delete") \in held[q]

(* What a request has checked is still so: nobody writes what it has locked. *)
ChecksStand ==
  \A q \in Procs, t \in Requests : tx[q] = t /\ t.stage > CheckAt(t) => Passes(t)

PlacesInv == TypeOK /\ Fitted /\ Mutex /\ Kept /\ ChecksStand /\ OneDetail
-----------------------------------------------------------------------------
(* --------------------------------------------- the stages, one by one *)
LEMMA StageCount ==
  ASSUME NEW t, t.op \in AllOps
  PROVE  Len(Stages(t)) = HowMany(t.op) /\ HowMany(t.op) \in 1..5
<1>1. CASE t.op = "createPlace"
  <2>1. HowMany(t.op) = 2
    BY <1>1 DEF HowMany
  <2>2. Len(Stages(t)) = HowMany(t.op)
    BY <1>1, <2>1 DEF Stages, VehicleStages, FacilityStages
  <2> QED BY <2>1, <2>2
<1>2. CASE t.op = "updatePlace"
  <2>1. HowMany(t.op) = 3
    BY <1>2 DEF HowMany
  <2>2. Len(Stages(t)) = HowMany(t.op)
    BY <1>2, <2>1 DEF Stages, VehicleStages, FacilityStages
  <2> QED BY <2>1, <2>2
<1>3. CASE t.op = "deletePlace"
  <2>1. HowMany(t.op) = 5
    BY <1>3 DEF HowMany
  <2>2. Len(Stages(t)) = HowMany(t.op)
    BY <1>3, <2>1 DEF Stages, VehicleStages, FacilityStages
  <2> QED BY <2>1, <2>2
<1>4. CASE t.op = "createAsset"
  <2>1. HowMany(t.op) = 2
    BY <1>4 DEF HowMany
  <2>2. Len(Stages(t)) = HowMany(t.op)
    BY <1>4, <2>1 DEF Stages, VehicleStages, FacilityStages
  <2> QED BY <2>1, <2>2
<1>5. CASE t.op = "updateAsset"
  <2>1. HowMany(t.op) = 3
    BY <1>5 DEF HowMany
  <2>2. Len(Stages(t)) = HowMany(t.op)
    BY <1>5, <2>1 DEF Stages, VehicleStages, FacilityStages
  <2> QED BY <2>1, <2>2
<1>6. CASE t.op = "deleteAsset"
  <2>1. HowMany(t.op) = 4
    BY <1>6 DEF HowMany
  <2>2. Len(Stages(t)) = HowMany(t.op)
    BY <1>6, <2>1 DEF Stages, VehicleStages, FacilityStages
  <2> QED BY <2>1, <2>2
<1>7. CASE t.op = "upsertVehicle"
  <2>1. HowMany(t.op) = 2
    BY <1>7 DEF HowMany
  <2>2. Len(Stages(t)) = HowMany(t.op)
    BY <1>7, <2>1 DEF Stages, VehicleStages, FacilityStages
  <2> QED BY <2>1, <2>2
<1>8. CASE t.op = "deleteVehicle"
  <2>1. HowMany(t.op) = 1
    BY <1>8 DEF HowMany
  <2>2. Len(Stages(t)) = HowMany(t.op)
    BY <1>8, <2>1 DEF Stages, VehicleStages, FacilityStages
  <2> QED BY <2>1, <2>2
<1>9. CASE t.op = "upsertFacility"
  <2>1. HowMany(t.op) = 5
    BY <1>9 DEF HowMany
  <2>2. Len(Stages(t)) = HowMany(t.op)
    BY <1>9, <2>1 DEF Stages, VehicleStages, FacilityStages
  <2> QED BY <2>1, <2>2
<1>10. CASE t.op = "deleteFacility"
  <2>1. HowMany(t.op) = 2
    BY <1>10 DEF HowMany
  <2>2. Len(Stages(t)) = HowMany(t.op)
    BY <1>10, <2>1 DEF Stages, VehicleStages, FacilityStages
  <2> QED BY <2>1, <2>2
<1>11. CASE t.op = "updateRoutine"
  <2>1. HowMany(t.op) = 2
    BY <1>11 DEF HowMany
  <2>2. Len(Stages(t)) = HowMany(t.op)
    BY <1>11, <2>1 DEF Stages, VehicleStages, FacilityStages
  <2> QED BY <2>1, <2>2
<1> QED BY <1>1, <1>2, <1>3, <1>4, <1>5, <1>6, <1>7, <1>8, <1>9, <1>10, <1>11 DEF AllOps, PlaceOps

LEMMA ChecksOf ==
  ASSUME NEW t
  PROVE  /\ t.op = "createPlace" => Passes(t) = Placeable(t.to, NONE)
         /\ t.op = "updatePlace" => Passes(t) = Placeable(t.to, t.id)
         /\ t.op = "deletePlace" => Passes(t) = (t.id \in PlaceRows /\ \A p \in PlaceRows : parent[p] # t.id)
         /\ t.op = "upsertVehicle" => Passes(t) = (t.id \in AssetRows \ facilities)
         /\ t.op = "upsertFacility" => Passes(t) = (t.id \in AssetRows \ vehicles)
         /\ t.op \notin PlaceOps \cup {"upsertVehicle", "upsertFacility"} => Passes(t)
BY DEF Passes, PlaceOps

LEMMA CheckAtOf ==
  ASSUME NEW t
  PROVE  /\ t.op = "upsertFacility" => CheckAt(t) = 2
         /\ t.op # "upsertFacility" => CheckAt(t) = 1
BY DEF CheckAt

LEMMA NoTxApart == NoTx \notin Requests /\ \A t \in Requests : t # NoTx
BY DEF NoTx, Requests

(* A check of the tree reads the tree alone. *)
LEMMA SameTree ==
  ASSUME NEW t, t.op \in PlaceOps, parent' = parent
  PROVE  Passes(t)' = Passes(t)
<1>1. CASE t.op = "createPlace"
  BY <1>1, ChecksOf DEF Passes, Placeable, ancestorIds, heightOf, Up, PlaceRows
<1>2. CASE t.op = "updatePlace"
  BY <1>2, ChecksOf DEF Passes, Placeable, ancestorIds, heightOf, Up, PlaceRows
<1>3. CASE t.op = "deletePlace"
  BY <1>3, ChecksOf DEF Passes, PlaceRows
<1> QED BY <1>1, <1>2, <1>3 DEF PlaceOps

LEMMA SameRows ==
  ASSUME NEW t, UNCHANGED rows
  PROVE  Passes(t)' = Passes(t)
<1>1. CASE t.op \in PlaceOps
  BY <1>1, SameTree DEF rows
<1>2. CASE t.op = "upsertVehicle"
  BY <1>2 DEF Passes, rows, AssetRows
<1>3. CASE t.op = "upsertFacility"
  BY <1>3 DEF Passes, rows, AssetRows
<1>4. CASE t.op \notin PlaceOps \cup {"upsertVehicle", "upsertFacility"}
  BY <1>4 DEF Passes, PlaceOps
<1> QED BY <1>1, <1>2, <1>3, <1>4

(* A check reads nothing of its own request but what is asked for. *)
LEMMA SameCheck ==
  ASSUME NEW t, NEW u, u.op = t.op, u.id = t.id, u.to = t.to
  PROVE  (Passes(u) <=> Passes(t)) /\ CheckAt(u) = CheckAt(t)
BY DEF Passes, CheckAt
-----------------------------------------------------------------------------
(* ------------------------------------- the steps that write no rows *)
LEMMA InitInv == Init => PlacesInv
<1> SUFFICES ASSUME Init PROVE PlacesInv
  OBVIOUS
<1>1. PlaceRows = {} /\ AssetRows = {}
  BY DEF Init, PlaceRows, AssetRows
<1>2. TypeOK
  BY <1>1 DEF Init, TypeOK, PlaceRows, AssetRows
<1>3. \A q \in Procs, t \in Requests : tx[q] # t
  BY NoTxApart DEF Init
<1>4. Fitted /\ Kept /\ ChecksStand
  BY <1>3 DEF Fitted, Kept, ChecksStand
<1>5. Mutex
  BY DEF Init, Mutex
<1>6. OneDetail
  BY DEF Init, OneDetail
<1> QED BY <1>2, <1>4, <1>5, <1>6 DEF PlacesInv

LEMMA Requested ==
  ASSUME NEW q \in Procs, Request(q)
  PROVE  /\ \E t \in Requests : /\ Fits(t) /\ t.stage = 1
                               /\ tx' = [tx EXCEPT ![q] = t]
         /\ tx[q] = NoTx /\ UNCHANGED <<rows, held>>
<1> DEFINE Req(op, id, to, set) == [op |-> op, id |-> id, to |-> to, set |-> set, stage |-> 1]
<1>0. \A op \in AllOps : 1 \in 1..HowMany(op)
  BY DEF HowMany
<1>1. ASSUME NEW op \in Ops, NEW id \in Places \cup Assets \cup Routines,
             NEW to \in Places \cup Assets \cup {NONE}, NEW set \in SUBSET Places
      PROVE  Req(op, id, to, set) \in Requests
  BY DEF Requests
<1>2. ASSUME NEW op \in {"createPlace", "updatePlace"}, NEW p \in Places, NEW to \in Places \cup {NONE},
             Starts(q, op, p, to, {})
      PROVE  Req(op, p, to, {}) \in Requests /\ Fits(Req(op, p, to, {}))
  BY <1>0, <1>1, <1>2 DEF Starts, Fits, AllOps, PlaceOps
<1>3. ASSUME NEW p \in Places, Starts(q, "deletePlace", p, NONE, {})
      PROVE  Req("deletePlace", p, NONE, {}) \in Requests /\ Fits(Req("deletePlace", p, NONE, {}))
  BY <1>0, <1>1, <1>3 DEF Starts, Fits, AllOps, PlaceOps
<1>4. ASSUME NEW op \in {"createAsset", "updateAsset"}, NEW a \in Assets, NEW to \in Places \cup {NONE},
             Starts(q, op, a, to, {})
      PROVE  Req(op, a, to, {}) \in Requests /\ Fits(Req(op, a, to, {}))
  BY <1>0, <1>1, <1>4 DEF Starts, Fits, AllOps, PlaceOps
<1>5. ASSUME NEW op \in {"deleteAsset", "upsertVehicle", "deleteVehicle", "deleteFacility"},
             NEW a \in Assets, Starts(q, op, a, NONE, {})
      PROVE  Req(op, a, NONE, {}) \in Requests /\ Fits(Req(op, a, NONE, {}))
  BY <1>0, <1>1, <1>5 DEF Starts, Fits, AllOps, PlaceOps
<1>6. ASSUME NEW a \in Assets, NEW set \in SUBSET Places, Starts(q, "upsertFacility", a, NONE, set)
      PROVE  Req("upsertFacility", a, NONE, set) \in Requests /\ Fits(Req("upsertFacility", a, NONE, set))
  BY <1>0, <1>1, <1>6 DEF Starts, Fits, AllOps, PlaceOps
<1>7. ASSUME NEW r \in Routines, NEW to \in Places \cup Assets \cup {NONE},
             Starts(q, "updateRoutine", r, to, {})
      PROVE  Req("updateRoutine", r, to, {}) \in Requests /\ Fits(Req("updateRoutine", r, to, {}))
  BY <1>0, <1>1, <1>7 DEF Starts, Fits, AllOps, PlaceOps
<1>8. \E op, id, to, set : /\ Starts(q, op, id, to, set)
                           /\ Req(op, id, to, set) \in Requests /\ Fits(Req(op, id, to, set))
  BY <1>2, <1>3, <1>4, <1>5, <1>6, <1>7 DEF Request
<1> QED BY <1>8 DEF Starts
LEMMA RequestStep ==
  ASSUME PlacesInv, NEW q \in Procs, Request(q)
  PROVE  PlacesInv'
<1>1. PICK u \in Requests : Fits(u) /\ u.stage = 1 /\ tx' = [tx EXCEPT ![q] = u]
  BY Requested
<1>2. UNCHANGED <<rows, held>>
  BY Requested
<1>3. \A r \in Procs, t \in Requests : tx'[r] = t => (tx[r] = t \/ (r = q /\ t = u))
  BY <1>1 DEF PlacesInv, TypeOK
<1>4. TypeOK'
  BY <1>1, <1>2 DEF PlacesInv, TypeOK, rows, PlaceRows, AssetRows
<1>5. Fitted'
  BY <1>1, <1>3 DEF PlacesInv, Fitted
<1>6. Mutex'
  BY <1>2 DEF PlacesInv, Mutex
<1>7. Kept'
  <2>1. ~HasTree(u) /\ ~HasAsset(u)
    BY <1>1 DEF HasTree, HasAsset
  <2> QED BY <2>1, <1>2, <1>3 DEF PlacesInv, Kept
<1>8. ChecksStand'
  <2>1. \A r \in Procs, t \in Requests : tx'[r] = t /\ t.stage > CheckAt(t) => Passes(t)
    BY <1>1, <1>3, CheckAtOf DEF PlacesInv, ChecksStand
  <2>2. \A t : Passes(t)' = Passes(t)
    BY <1>2, SameRows
  <2> QED BY <2>1, <2>2 DEF ChecksStand
<1>9. OneDetail'
  BY <1>2 DEF PlacesInv, OneDetail, rows
<1> QED BY <1>4, <1>5, <1>6, <1>7, <1>8, <1>9 DEF PlacesInv

LEMMA AcquireStep ==
  ASSUME PlacesInv, NEW q \in Procs, NEW l, Acquires(q, l)
  PROVE  PlacesInv'
<1>1. /\ held' = [held EXCEPT ![q] = @ \cup {l}] /\ UNCHANGED <<rows, tx>>
      /\ \A r \in Procs \ {q} : \A m \in held[r] : ~Conflict(l, m)
  BY DEF Acquires, Blockers
<1>2. /\ held'[q] = held[q] \cup {l}
      /\ \A r \in Procs \ {q} : held'[r] = held[r]
  BY <1>1 DEF PlacesInv, Mutex
<1>3. TypeOK'
  BY <1>1 DEF PlacesInv, TypeOK, rows, PlaceRows, AssetRows
<1>4. Fitted' /\ OneDetail'
  BY <1>1 DEF PlacesInv, Fitted, OneDetail, rows
<1>5. Mutex'
  <2>1. held' = [r \in Procs |-> held'[r]]
    BY <1>1 DEF PlacesInv, Mutex
  <2>2. \A m : Conflict(l, m) <=> Conflict(m, l)
    BY DEF Conflict
  <2>3. ASSUME NEW p \in Procs, NEW r \in Procs, p # r, NEW k \in held'[p], NEW m \in held'[r]
        PROVE  ~Conflict(k, m)
    <3>1. k \in held[p] \/ (p = q /\ k = l)
      BY <1>2, <2>3
    <3>2. m \in held[r] \/ (r = q /\ m = l)
      BY <1>2, <2>3
    <3>3. CASE k \in held[p] /\ m \in held[r]
      BY <3>3, <2>3 DEF PlacesInv, Mutex
    <3>4. CASE p = q /\ k = l
      BY <3>4, <3>2, <1>1, <2>3
    <3>5. CASE r = q /\ m = l
      BY <3>5, <3>1, <1>1, <2>2, <2>3
    <3> QED BY <3>1, <3>2, <3>3, <3>4, <3>5
  <2> QED BY <2>1, <2>3 DEF Mutex
<1>6. Kept'
  BY <1>1, <1>2 DEF PlacesInv, Kept
<1>7. ChecksStand'
  <2>1. \A t : Passes(t)' = Passes(t)
    BY <1>1, SameRows
  <2> QED BY <2>1, <1>1 DEF PlacesInv, ChecksStand
<1> QED BY <1>3, <1>4, <1>5, <1>6, <1>7 DEF PlacesInv

(* A request that has taken all the locks of its stage holds them. *)
LEMMA StageHeld ==
  ASSUME PlacesInv, NEW q \in Procs, StageDone(q)
  PROVE  \E t \in Requests :
           /\ tx[q] = t /\ Fits(t) /\ Stages(t)[t.stage] \subseteq held[q]
           /\ t.stage > 1 => (HasTree(t) => Tree \in held[q])
<1>1. PICK t \in Requests : tx[q] = t
  BY DEF PlacesInv, TypeOK, StageDone
<1>2. Wanted(q) = Stages(t)[t.stage] \ held[q]
  BY <1>1, NoTxApart DEF Wanted
<1>3. Stages(t)[t.stage] \subseteq held[q]
  BY <1>2 DEF StageDone
<1>4. Fits(t)
  BY <1>1 DEF PlacesInv, Fitted
<1>5. HasTree(t) => Tree \in held[q]
  BY <1>1 DEF PlacesInv, Kept
<1> QED BY <1>1, <1>3, <1>4, <1>5

LEMMA NextStageStep ==
  ASSUME PlacesInv, NEW q \in Procs, NextStage(q)
  PROVE  PlacesInv'
<1>1. PICK t \in Requests : tx[q] = t /\ Fits(t) /\ Stages(t)[t.stage] \subseteq held[q]
  BY StageHeld DEF NextStage
<1> DEFINE u == [t EXCEPT !.stage = @ + 1]
<1>2. tx' = [tx EXCEPT ![q] = u] /\ UNCHANGED <<rows, held>>
  BY <1>1 DEF NextStage
<1>3. t.stage < HowMany(t.op) /\ t.stage \in 1..5 /\ HowMany(t.op) \in 1..5
  BY <1>1, StageCount DEF NextStage, Fits, Requests
<1>4. /\ u \in Requests /\ u.stage = t.stage + 1
      /\ u.op = t.op /\ u.id = t.id /\ u.to = t.to
  BY <1>3 DEF Requests
<1>5. Fits(u)
  BY <1>1, <1>3, <1>4 DEF Fits
<1> HIDE DEF u
<1>6. \A r \in Procs, v \in Requests : tx'[r] = v => (tx[r] = v \/ (r = q /\ v = u))
  BY <1>2, <1>4 DEF PlacesInv, TypeOK
<1>7. TypeOK'
  BY <1>2, <1>4 DEF PlacesInv, TypeOK, rows, PlaceRows, AssetRows
<1>8. Fitted'
  BY <1>5, <1>6 DEF PlacesInv, Fitted
<1>9. Mutex'
  BY <1>2 DEF PlacesInv, Mutex
<1>10. Kept'
  <2>1. HasTree(u) => Tree \in held[q]
    <3>1. CASE t.stage = 1 /\ t.op \in PlaceOps \cup {"upsertFacility"}
      <4>1. Stages(t)[1] = {Tree}
        BY <3>1 DEF PlaceOps, Stages, FacilityStages
      <4> QED BY <4>1, <3>1, <1>1
    <3>2. CASE HasTree(t)
      BY <3>2, <1>1 DEF PlacesInv, Kept
    <3> QED BY <3>1, <3>2, <1>3, <1>4 DEF HasTree
  <2>2. HasAsset(u) => Lock(u.id, "delete") \in held[q]
    <3>1. CASE t.stage = 1 /\ t.op \in {"deleteAsset", "upsertVehicle"}
      <4>1. Stages(t)[1] = Deletes({t.id})
        BY <3>1 DEF Stages, VehicleStages
      <4> QED BY <4>1, <3>1, <1>1, <1>4 DEF Deletes
    <3>2. CASE t.stage = 2 /\ t.op = "upsertFacility"
      <4>1. Stages(t)[2] = Deletes({t.id})
        BY <3>2 DEF Stages, FacilityStages
      <4> QED BY <4>1, <3>2, <1>1, <1>4 DEF Deletes
    <3>3. CASE HasAsset(t)
      BY <3>3, <1>1, <1>4 DEF PlacesInv, Kept
    <3> QED BY <3>1, <3>2, <3>3, <1>3, <1>4 DEF HasAsset
  <2> QED BY <2>1, <2>2, <1>2, <1>6 DEF PlacesInv, Kept
<1>11. ChecksStand'
  <2>1. u.stage > CheckAt(u) => Passes(u)
    <3>1. CASE t.stage = CheckAt(t)
      BY <3>1, <1>1, <1>4, SameCheck DEF NextStage, Checked
    <3>2. CASE t.stage > CheckAt(t)
      BY <3>2, <1>1, <1>4, SameCheck DEF PlacesInv, ChecksStand
    <3>3. CheckAt(t) \in Int /\ CheckAt(u) = CheckAt(t)
      BY CheckAtOf, <1>4, SameCheck
    <3> QED BY <3>1, <3>2, <3>3, <1>3, <1>4
  <2>2. \A v : Passes(v)' = Passes(v)
    BY <1>2, SameRows
  <2> QED BY <2>1, <2>2, <1>6 DEF PlacesInv, ChecksStand
<1>12. OneDetail'
  BY <1>2 DEF PlacesInv, OneDetail, rows
<1> QED BY <1>7, <1>8, <1>9, <1>10, <1>11, <1>12 DEF PlacesInv

LEMMA EndStep ==
  ASSUME PlacesInv, NEW q \in Procs, Ends(q)
  PROVE  /\ \A r \in Procs, t \in Requests : tx'[r] = t => tx[r] = t /\ r # q
         /\ tx' \in [Procs -> Requests \cup {NoTx}]
         /\ Fitted' /\ Mutex' /\ Kept'
<1>1. /\ tx' = [tx EXCEPT ![q] = NoTx] /\ held' = [held EXCEPT ![q] = {}]
  BY DEF Ends
<1>2. \A r \in Procs, t \in Requests : tx'[r] = t => tx[r] = t /\ r # q
  BY <1>1, NoTxApart DEF PlacesInv, TypeOK
<1>3. held'[q] = {} /\ \A r \in Procs \ {q} : held'[r] = held[r]
  BY <1>1 DEF PlacesInv, Mutex
<1>4. tx' \in [Procs -> Requests \cup {NoTx}]
  BY <1>1 DEF PlacesInv, TypeOK
<1>5. Fitted'
  BY <1>2 DEF PlacesInv, Fitted
<1>6. Mutex'
  BY <1>1, <1>3 DEF PlacesInv, Mutex
<1>7. Kept'
  BY <1>2, <1>3 DEF PlacesInv, Kept
<1> QED BY <1>2, <1>4, <1>5, <1>6, <1>7

LEMMA RollBackStep ==
  ASSUME PlacesInv, NEW q \in Procs, RollsBack(q)
  PROVE  PlacesInv'
<1>1. Ends(q) /\ UNCHANGED rows
  BY DEF RollsBack
<1>2. TypeOK'
  BY <1>1, EndStep DEF PlacesInv, TypeOK, rows, PlaceRows, AssetRows
<1>3. ChecksStand'
  <2>1. \A t : Passes(t)' = Passes(t)
    BY <1>1, SameRows
  <2> QED BY <2>1, <1>1, EndStep DEF PlacesInv, ChecksStand
<1>4. OneDetail'
  BY <1>1 DEF PlacesInv, OneDetail, rows
<1> QED BY <1>1, <1>2, <1>3, <1>4, EndStep DEF PlacesInv
-----------------------------------------------------------------------------
(* --------------------------------------------------------- the commits *)
LEMMA Committed ==
  ASSUME PlacesInv, NEW q \in Procs, Commits(q)
  PROVE  \E t \in Requests :
           /\ tx[q] = t /\ Fits(t) /\ Passes(t) /\ Writing(t) /\ Ends(q)
           /\ t.op \in PlaceOps => Tree \in held[q]
           /\ t.op \in {"deleteAsset", "upsertVehicle", "upsertFacility"} => Lock(t.id, "delete") \in held[q]
<1>1. PICK t \in Requests : tx[q] = t /\ Fits(t)
  BY StageHeld DEF Commits
<1>2. Writing(t) /\ Ends(q) /\ t.stage = HowMany(t.op)
  BY <1>1, StageCount DEF Commits, Fits
<1>3. /\ t.op \in PlaceOps \cup {"upsertVehicle", "deleteAsset"} => HowMany(t.op) \in 2..5
      /\ t.op = "upsertFacility" => HowMany(t.op) = 5
  BY DEF PlaceOps, HowMany
<1>4. Passes(t)
  <2>1. CASE t.stage > CheckAt(t)
    BY <2>1, <1>1 DEF PlacesInv, ChecksStand
  <2>2. CASE t.op \in PlaceOps \cup {"upsertVehicle", "upsertFacility"}
    BY <2>1, <2>2, <1>2, <1>3, CheckAtOf DEF PlaceOps
  <2> QED BY <2>2, ChecksOf
<1>5. t.op \in PlaceOps => Tree \in held[q]
  BY <1>1, <1>2, <1>3 DEF PlacesInv, Kept, HasTree
<1>6. t.op \in {"deleteAsset", "upsertVehicle", "upsertFacility"} => Lock(t.id, "delete") \in held[q]
  BY <1>1, <1>2, <1>3 DEF PlacesInv, Kept, HasAsset
<1> QED BY <1>1, <1>2, <1>4, <1>5, <1>6

(* What a commit leaves alone. *)
LEMMA Untouched ==
  ASSUME NEW t, Writing(t)
  PROVE  /\ t.op \notin PlaceOps => parent' = parent
         /\ AssetRows' = CASE t.op = "createAsset" -> AssetRows \cup {t.id}
                           [] t.op = "deleteAsset" -> AssetRows \ {t.id}
                           [] OTHER -> AssetRows
         /\ \/ vehicles' = vehicles
            \/ t.op \in {"deleteAsset", "deleteVehicle"} /\ vehicles' = vehicles \ {t.id}
            \/ t.op = "upsertVehicle" /\ vehicles' = vehicles \cup {t.id}
         /\ \/ facilities' = facilities
            \/ t.op \in {"deleteAsset", "deleteFacility"} /\ facilities' = facilities \ {t.id}
            \/ t.op = "upsertFacility" /\ facilities' = facilities \cup {t.id}
<1>1. t.op \notin PlaceOps => parent' = parent
  BY DEF Writing, PlaceOps
<1>2. AssetRows' = CASE t.op = "createAsset" -> AssetRows \cup {t.id}
                      [] t.op = "deleteAsset" -> AssetRows \ {t.id}
                      [] OTHER -> AssetRows
  BY DEF Writing, AssetRows, WithoutPlace
<1>3. \/ vehicles' = vehicles
      \/ t.op \in {"deleteAsset", "deleteVehicle"} /\ vehicles' = vehicles \ {t.id}
      \/ t.op = "upsertVehicle" /\ vehicles' = vehicles \cup {t.id}
  BY DEF Writing
<1>4. \/ facilities' = facilities
      \/ t.op \in {"deleteAsset", "deleteFacility"} /\ facilities' = facilities \ {t.id}
      \/ t.op = "upsertFacility" /\ facilities' = facilities \cup {t.id}
  BY DEF Writing
<1> QED BY <1>1, <1>2, <1>3, <1>4

(* The rows a commit writes are rows of the tables. *)
LEMMA WritesTypes ==
  ASSUME TypeOK, NEW t \in Requests, Fits(t), Passes(t), Writing(t)
  PROVE  /\ (PlaceRows \subseteq Places /\ parent \in [PlaceRows -> PlaceRows \cup {NONE}])'
         /\ (AssetRows \subseteq Assets /\ stands \in [AssetRows -> PlaceRows \cup {NONE}])'
         /\ (vehicles \subseteq AssetRows /\ facilities \subseteq AssetRows)'
         /\ (serves \subseteq facilities \X PlaceRows)'
         /\ (anchor \in [Routines -> PlaceRows \cup AssetRows \cup {NONE}])'
<1> USE DEF TypeOK, PlaceRows, AssetRows
<1>1. CASE t.op = "createPlace"
  BY <1>1 DEF Writing, Fits, PlaceOps
<1>2. CASE t.op = "updatePlace"
  <2>1. t.to \in PlaceRows \cup {NONE}
    BY <1>2, ChecksOf DEF Placeable
  <2> QED BY <1>2, <2>1 DEF Writing
<1>3. CASE t.op = "deletePlace"
  <2>1. \A p \in PlaceRows : parent[p] # t.id
    BY <1>3, ChecksOf
  <2> QED BY <1>3, <2>1 DEF Writing, WithoutPlace, Serving
<1>4. CASE t.op = "createAsset"
  BY <1>4 DEF Writing, Fits, AllOps, PlaceOps
<1>5. CASE t.op = "updateAsset"
  BY <1>5 DEF Writing
<1>6. CASE t.op = "deleteAsset"
  BY <1>6 DEF Writing, ServedBy
<1>7. CASE t.op = "upsertVehicle"
  BY <1>7, ChecksOf DEF Writing
<1>8. CASE t.op = "deleteVehicle"
  BY <1>8 DEF Writing
<1>9. CASE t.op = "upsertFacility"
  BY <1>9, ChecksOf DEF Writing, ServedBy
<1>10. CASE t.op = "deleteFacility"
  BY <1>10 DEF Writing, ServedBy
<1>11. CASE t.op = "updateRoutine"
  BY <1>11 DEF Writing
<1> QED BY <1>1, <1>2, <1>3, <1>4, <1>5, <1>6, <1>7, <1>8, <1>9, <1>10, <1>11 DEF Fits, AllOps, PlaceOps

(* A commit does not undo what another request has checked. *)
LEMMA OthersStand ==
  ASSUME PlacesInv, NEW q \in Procs, NEW r \in Procs, r # q, Commits(q),
         NEW v \in Requests, tx[r] = v, v.stage > CheckAt(v)
  PROVE  Passes(v)'
<1>1. PICK t \in Requests :
        /\ tx[q] = t /\ Fits(t) /\ Passes(t) /\ Writing(t)
        /\ t.op \in PlaceOps => Tree \in held[q]
        /\ t.op \in {"deleteAsset", "upsertVehicle", "upsertFacility"} => Lock(t.id, "delete") \in held[q]
  BY Committed
<1>2. Fits(v) /\ Passes(v) /\ v.stage \in 1..5
  BY DEF PlacesInv, Fitted, ChecksStand, Requests
<1>3. \A i : ~(Lock(i, "delete") \in held[q] /\ Lock(i, "delete") \in held[r])
  BY DEF PlacesInv, Mutex, Conflict, Lock
<1>4. CASE v.op \in PlaceOps
  <2>1. HasTree(v)
    BY <1>2, <1>4, CheckAtOf DEF HasTree, PlaceOps
  <2>2. t.op \notin PlaceOps
    BY <2>1, <1>1, <1>3 DEF PlacesInv, Kept, Tree
  <2> QED BY <1>1, <1>2, <1>4, <2>2, Untouched, SameTree
<1>5. CASE v.op \in {"upsertVehicle", "upsertFacility"}
  <2>1. HasAsset(v)
    BY <1>2, <1>5, CheckAtOf DEF HasAsset
  <2>2. t.op \in {"deleteAsset", "upsertVehicle", "upsertFacility"} => t.id # v.id
    BY <2>1, <1>1, <1>3 DEF PlacesInv, Kept
  <2>3. v.id \in AssetRows /\ v.id \in AssetRows'
    <3>1. v.id \in AssetRows
      BY <1>2, <1>5, ChecksOf
    <3> QED BY <3>1, <1>1, <2>2, Untouched
  <2>4. CASE v.op = "upsertVehicle"
    <3>1. v.id \notin facilities
      BY <1>2, <2>4, ChecksOf
    <3>2. v.id \notin facilities'
      BY <3>1, <2>2, <1>1, Untouched
    <3> QED BY <2>3, <2>4, <3>2 DEF Passes
  <2>5. CASE v.op = "upsertFacility"
    <3>1. v.id \notin vehicles
      BY <1>2, <2>5, ChecksOf
    <3>2. v.id \notin vehicles'
      BY <3>1, <2>2, <1>1, Untouched
    <3> QED BY <2>3, <2>5, <3>2 DEF Passes
  <2> QED BY <1>5, <2>4, <2>5
<1>6. CASE v.op \notin PlaceOps \cup {"upsertVehicle", "upsertFacility"}
  BY <1>6 DEF Passes, PlaceOps
<1> QED BY <1>4, <1>5, <1>6

LEMMA CommitStep ==
  ASSUME PlacesInv, NEW q \in Procs, Commits(q)
  PROVE  PlacesInv'
<1>1. PICK t \in Requests : Fits(t) /\ Passes(t) /\ Writing(t) /\ Ends(q)
  BY Committed
<1>2. TypeOK'
  BY <1>1, WritesTypes, EndStep DEF PlacesInv, TypeOK
<1>3. Fitted' /\ Mutex' /\ Kept'
  BY <1>1, EndStep
<1>4. ChecksStand'
  <2>1. ASSUME NEW r \in Procs, NEW v \in Requests, tx'[r] = v, v.stage > CheckAt(v)
        PROVE  Passes(v)'
    BY <2>1, <1>1, EndStep, OthersStand
  <2> QED BY <2>1 DEF ChecksStand
<1>5. OneDetail'
  <2>1. /\ t.op = "upsertVehicle" => t.id \notin facilities
        /\ t.op = "upsertFacility" => t.id \notin vehicles
    BY <1>1, ChecksOf
  <2> QED BY <2>1, <1>1, Untouched DEF PlacesInv, OneDetail
<1> QED BY <1>2, <1>3, <1>4, <1>5 DEF PlacesInv

LEMMA NextInv == PlacesInv /\ [Next]_vars => PlacesInv'
<1> SUFFICES ASSUME PlacesInv, [Next]_vars PROVE PlacesInv'
  OBVIOUS
<1>1. CASE Next
  BY <1>1, RequestStep, AcquireStep, NextStageStep, CommitStep, RollBackStep DEF Next
<1>2. CASE UNCHANGED vars
  <2>1. \A t : Passes(t)' = Passes(t)
    BY <1>2, SameRows DEF vars
  <2>2. ChecksStand'
    BY <1>2, <2>1 DEF PlacesInv, ChecksStand, vars
  <2> QED BY <1>2, <2>2
      DEF PlacesInv, vars, rows, TypeOK, PlaceRows, AssetRows, Fitted, Mutex, Kept, OneDetail
<1> QED BY <1>1, <1>2

(* Every request works on rows there are: no place has a parent that is gone,  *)
(* no asset stands in a place that is gone, no detail row, served place or     *)
(* anchored routine outlives what it is about, whatever deletes run meanwhile. *)
THEOREM TypeCorrect == Spec => []TypeOK
<1>1. Init => PlacesInv
  BY InitInv
<1>2. PlacesInv /\ [Next]_vars => PlacesInv'
  BY NextInv
<1>3. PlacesInv => TypeOK
  BY DEF PlacesInv
<1> QED BY <1>1, <1>2, <1>3, PTL DEF Spec

(* No asset is both a vehicle and a facility, however many requests upsert and *)
(* delete its details at once: the lock on the asset row comes before the look *)
(* at the other detail (details.ts).                                           *)
THEOREM DetailsExclusive == Spec => []OneDetail
<1>1. Init => PlacesInv
  BY InitInv
<1>2. PlacesInv /\ [Next]_vars => PlacesInv'
  BY NextInv
<1>3. PlacesInv => OneDetail
  BY DEF PlacesInv
<1> QED BY <1>1, <1>2, <1>3, PTL DEF Spec
-----------------------------------------------------------------------------
(* ------------------------------------------------- the tree of places *)
(* Every place lies one below its parent, and none below the cap: a walk up a  *)
(* tree with such depths ends.                                                 *)
IsDepth(par, h) ==
  /\ h \in [DOMAIN par -> 1..MAX_PLACE_DEPTH]
  /\ \A p \in DOMAIN par : \/ par[p] = NONE /\ h[p] = 1
                           \/ par[p] \in DOMAIN par /\ h[p] = h[par[p]] + 1

TreeInv == \E h : IsDepth(parent, h)

Steps == 0..Cardinality(Places)

IsUp(f, p) ==
  f = [n \in Steps |-> IF n = 0 THEN p ELSE IF f[n - 1] = NONE THEN NONE ELSE parent[f[n - 1]]]

LEMMA LeastNumber ==
  ASSUME NEW T, T \subseteq Nat, T # {}
  PROVE  \E x \in T : \A y \in T : x <= y
<1>1. PICK x \in T : \A y \in T : <<y, x>> \notin OpToRel(<, Nat)
  BY NatLessThanWellFounded, WFMin
<1>2. \A y \in T : ~(y < x)
  BY <1>1 DEF OpToRel
<1> QED BY <1>2

LEMMA UpTo ==
  ASSUME NEW n \in Nat
  PROVE  IsFiniteSet(0..n) /\ Cardinality(0..n) = n + 1
<1>1. 0 \in Int /\ n \in Int /\ ~(0 > n)
  OBVIOUS
<1>2. IsFiniteSet(0..n) /\ Cardinality(0..n) = IF 0 > n THEN 0 ELSE n - 0 + 1
  BY <1>1, FS_Interval, Zenon
<1> QED BY <1>1, <1>2

LEMMA PlacesCount == Cardinality(Places) \in Nat
BY FS_CardinalityType

(* The walk from a place is that of its parent, one later: take a shallowest   *)
(* place from which there is none.                                             *)
LEMMA ChainExists ==
  ASSUME TypeOK, NEW h, IsDepth(parent, h), NEW p \in PlaceRows
  PROVE  \E f : IsUp(f, p)
<1> DEFINE Lost == {x \in PlaceRows : ~ \E f : IsUp(f, x)}
<1> SUFFICES ASSUME Lost # {} PROVE FALSE
  OBVIOUS
<1>1. PICK x \in Lost : \A y \in Lost : h[x] <= h[y]
  <2> DEFINE T == {h[y] : y \in Lost}
  <2>1. T \subseteq Nat /\ T # {}
    BY DEF IsDepth, PlaceRows
  <2>2. PICK k \in T : \A j \in T : k <= j
    <3> HIDE DEF T
    <3> QED BY <2>1, LeastNumber
  <2> QED BY <2>2
<1>2. x \in PlaceRows /\ NONE \notin Places /\ PlaceRows \subseteq Places
  BY DEF TypeOK
<1>3. CASE parent[x] = NONE
  <2> DEFINE f == [n \in Steps |-> IF n = 0 THEN x ELSE NONE]
  <2>1. \A n \in Steps : n # 0 => n - 1 \in Steps
    BY PlacesCount DEF Steps
  <2>2. \A n \in Steps : f[n] = IF n = 0 THEN x ELSE IF f[n - 1] = NONE THEN NONE ELSE parent[f[n - 1]]
    BY <1>2, <1>3, <2>1 DEF Steps
  <2>3. IsUp(f, x)
    BY <2>2 DEF IsUp
  <2> QED BY <2>3
<1>4. CASE parent[x] # NONE
  <2>1. parent[x] \in PlaceRows /\ h[parent[x]] < h[x]
    BY <1>2, <1>4 DEF IsDepth, PlaceRows
  <2>2. PICK g : IsUp(g, parent[x])
    <3>1. parent[x] \notin Lost
      BY <2>1, <1>1 DEF IsDepth, PlaceRows
    <3> QED BY <3>1, <2>1
  <2> DEFINE f == [n \in Steps |-> IF n = 0 THEN x ELSE g[n - 1]]
  <2>3. \A n \in Steps : n # 0 => n - 1 \in Steps /\ (n # 1 => n - 2 \in Steps)
    BY PlacesCount DEF Steps
  <2>4. \A n \in Steps : g[n] = IF n = 0 THEN parent[x] ELSE IF g[n - 1] = NONE THEN NONE ELSE parent[g[n - 1]]
    BY <2>2 DEF IsUp
  <2>5. ASSUME NEW n \in Steps
        PROVE  f[n] = IF n = 0 THEN x ELSE IF f[n - 1] = NONE THEN NONE ELSE parent[f[n - 1]]
    <3>1. CASE n = 0
      BY <3>1
    <3>2. CASE n = 1
      <4>1. 0 \in Steps
        BY PlacesCount DEF Steps
      <4>2. f[1] = parent[x] /\ f[0] = x
        BY <3>2, <4>1, <2>4
      <4> QED BY <3>2, <4>2, <1>2
    <3>3. CASE n # 0 /\ n # 1
      <4>1. n - 1 \in Steps /\ n - 1 # 0 /\ (n - 1) - 1 = n - 2
        BY <3>3, <2>3 DEF Steps
      <4>2. f[n] = g[n - 1] /\ f[n - 1] = g[n - 2]
        BY <3>3, <4>1
      <4> QED BY <3>3, <4>1, <4>2, <2>4
    <3> QED BY <3>1, <3>2, <3>3
  <2>6. IsUp(f, x)
    BY <2>5 DEF IsUp
  <2> QED BY <2>6
<1> QED BY <1>3, <1>4

LEMMA UpSteps ==
  ASSUME TypeOK, NEW h, IsDepth(parent, h), NEW p \in PlaceRows
  PROVE  /\ DOMAIN Up(p) = Steps /\ 0 \in Steps /\ Up(p)[0] = p
         /\ \A n \in Steps : n # 0 =>
              /\ n - 1 \in Steps
              /\ Up(p)[n] = IF Up(p)[n - 1] = NONE THEN NONE ELSE parent[Up(p)[n - 1]]
<1>1. IsUp(Up(p), p)
  BY ChainExists DEF Up, IsUp, Steps
<1>2. 0 \in Steps /\ \A n \in Steps : n # 0 => n - 1 \in Steps
  BY PlacesCount DEF Steps
<1> QED BY <1>1, <1>2 DEF IsUp

(* The walk climbs one place a step and has left the tree at the depth of p. *)
LEMMA UpDepth ==
  ASSUME TypeOK, NEW h, IsDepth(parent, h), NEW p \in PlaceRows, NEW n \in Steps
  PROVE  /\ h[p] \in 1..MAX_PLACE_DEPTH
         /\ n < h[p] => Up(p)[n] \in PlaceRows /\ h[Up(p)[n]] = h[p] - n
         /\ n >= h[p] => Up(p)[n] = NONE
<1> DEFINE Right(k) == /\ k < h[p] => Up(p)[k] \in PlaceRows /\ h[Up(p)[k]] = h[p] - k
                       /\ k >= h[p] => Up(p)[k] = NONE
           Wrong == {k \in Steps : ~Right(k)}
<1>0. h[p] \in 1..MAX_PLACE_DEPTH /\ \A x \in PlaceRows : h[x] \in 1..MAX_PLACE_DEPTH
  BY DEF IsDepth, PlaceRows
<1>1. SUFFICES ASSUME Wrong # {} PROVE FALSE
  BY <1>0
<1>2. PICK k \in Wrong : \A j \in Wrong : k <= j
  <2>1. Wrong \subseteq Nat
    BY PlacesCount DEF Steps
  <2> HIDE DEF Wrong
  <2> QED BY <2>1, <1>1, LeastNumber
<1>3. k # 0
  <2>1. Right(0)
    BY <1>0, UpSteps
  <2> QED BY <2>1, <1>2
<1>4. k \in Steps /\ k - 1 \in Steps /\ k \in Nat \ {0}
  BY <1>2, <1>3, UpSteps, PlacesCount DEF Steps
<1>5. Right(k - 1)
  BY <1>2, <1>4
<1>6. Up(p)[k] = IF Up(p)[k - 1] = NONE THEN NONE ELSE parent[Up(p)[k - 1]]
  BY <1>3, <1>4, UpSteps
<1>7. NONE \notin PlaceRows
  BY DEF TypeOK
<1>8. CASE k - 1 >= h[p]
  BY <1>0, <1>4, <1>5, <1>6, <1>8, <1>2
<1>9. CASE k - 1 < h[p]
  <2>1. PICK x \in PlaceRows : x = Up(p)[k - 1] /\ h[x] = h[p] - (k - 1)
    BY <1>5, <1>9
  <2>2. Up(p)[k] = parent[x]
    BY <1>6, <1>7, <2>1
  <2>3. CASE parent[x] = NONE
    BY <2>1, <2>2, <2>3, <1>0, <1>2, <1>4 DEF IsDepth, PlaceRows, TypeOK
  <2>4. CASE parent[x] # NONE
    <3>1. parent[x] \in PlaceRows /\ h[x] = h[parent[x]] + 1
      BY <2>4 DEF IsDepth, PlaceRows
    <3> QED BY <3>1, <2>1, <2>2, <1>0, <1>2, <1>4
  <2> QED BY <2>3, <2>4
<1> QED BY <1>0, <1>4, <1>8, <1>9

(* No place lies deeper than there are places. *)
LEMMA DepthBound ==
  ASSUME TypeOK, NEW h, IsDepth(parent, h), NEW p \in PlaceRows
  PROVE  h[p] \in 1..Cardinality(Places)
<1>1. h[p] \in Nat \ {0} /\ Cardinality(Places) \in Nat
  BY PlacesCount DEF IsDepth, PlaceRows
<1>2. SUFFICES ASSUME h[p] > Cardinality(Places) PROVE FALSE
  BY <1>1
<1> DEFINE f == [n \in Steps |-> Up(p)[n]]
<1>3. \A n \in Steps : n < h[p] /\ n \in Nat
  BY <1>1, <1>2 DEF Steps
<1>4. \A n \in Steps : Up(p)[n] \in PlaceRows /\ h[Up(p)[n]] = h[p] - n
  BY <1>3, UpDepth
<1>5. f \in [Steps -> Places]
  BY <1>4 DEF TypeOK
<1>6. IsFiniteSet(Steps) /\ Cardinality(Steps) = Cardinality(Places) + 1
  BY <1>1, UpTo DEF Steps
<1>7. PICK i \in Steps, j \in Steps : i # j /\ f[i] = f[j]
  <2> HIDE DEF f
  <2> QED BY <1>1, <1>5, <1>6, FS_PigeonHole
<1> QED BY <1>1, <1>3, <1>4, <1>7

LEMMA AncestorCount ==
  ASSUME TypeOK, NEW h, IsDepth(parent, h), NEW p \in PlaceRows
  PROVE  /\ NONE \in {Up(p)[n] : n \in DOMAIN Up(p)}
         /\ IsFiniteSet(ancestorIds(p)) /\ Cardinality(ancestorIds(p)) = h[p]
<1>1. h[p] \in 1..Cardinality(Places) /\ Cardinality(Places) \in Nat /\ DOMAIN Up(p) = Steps
  BY DepthBound, PlacesCount, UpSteps
<1>2. h[p] \in Steps /\ Up(p)[h[p]] = NONE
  BY <1>1, UpDepth DEF Steps
<1> DEFINE Below == 0..(h[p] - 1)
           f == [n \in Below |-> Up(p)[n]]
<1>3. \A n \in Below : n \in Steps /\ n < h[p] /\ n \in Nat
  BY <1>1 DEF Steps
<1>4. \A n \in Below : Up(p)[n] \in PlaceRows /\ h[Up(p)[n]] = h[p] - n /\ Up(p)[n] # NONE
  BY <1>3, UpDepth DEF TypeOK
<1>5. \A n \in Steps : n \in Below \/ Up(p)[n] = NONE
  BY <1>1, UpDepth DEF Steps
<1>6. ancestorIds(p) = {Up(p)[n] : n \in Below}
  BY <1>1, <1>3, <1>4, <1>5 DEF ancestorIds
<1>7. f \in Bijection(Below, ancestorIds(p))
  <2>1. f \in [Below -> ancestorIds(p)] /\ \A y \in ancestorIds(p) : \E n \in Below : f[n] = y
    BY <1>6
  <2>2. \A i, j \in Below : f[i] = f[j] => i = j
    BY <1>1, <1>3, <1>4
  <2> HIDE DEF f, Below
  <2> QED BY <2>1, <2>2 DEF Bijection, Injection, Surjection, IsInjective
<1>8. IsFiniteSet(Below) /\ Cardinality(Below) = h[p]
  <2>1. h[p] - 1 \in Nat /\ h[p] = (h[p] - 1) + 1
    BY <1>1
  <2> QED BY <2>1, UpTo
<1>9. IsFiniteSet(ancestorIds(p)) /\ Cardinality(ancestorIds(p)) = Cardinality(Below)
  <2> HIDE DEF f, Below
  <2> QED BY <1>7, <1>8, FS_Bijection DEF ExistsBijection
<1> QED BY <1>1, <1>2, <1>8, <1>9

LEMMA TreeIsSound == TypeOK /\ TreeInv => TreeSound
<1> SUFFICES ASSUME TypeOK, NEW h, IsDepth(parent, h), NEW p \in PlaceRows
             PROVE  /\ NONE \in {Up(p)[n] : n \in DOMAIN Up(p)}
                    /\ Cardinality(ancestorIds(p)) <= MAX_PLACE_DEPTH
  BY DEF TreeInv, TreeSound
<1>1. h[p] \in 1..MAX_PLACE_DEPTH
  BY DEF IsDepth, PlaceRows
<1> QED BY <1>1, AncestorCount

(* The walk from a place goes on as the walk from its parent. *)
LEMMA UpShift ==
  ASSUME TypeOK, NEW h, IsDepth(parent, h), NEW p \in PlaceRows, parent[p] # NONE,
         NEW n \in Steps, n + 1 \in Steps
  PROVE  Up(p)[n + 1] = Up(parent[p])[n]
<1>0. PICK q \in PlaceRows : q = parent[p]
  BY DEF IsDepth, PlaceRows
<1> DEFINE Wrong == {k \in Steps : k + 1 \in Steps /\ Up(p)[k + 1] # Up(q)[k]}
<1>1. SUFFICES ASSUME Wrong # {} PROVE FALSE
  BY <1>0
<1>2. PICK k \in Wrong : \A j \in Wrong : k <= j
  <2>1. Wrong \subseteq Nat
    BY PlacesCount DEF Steps
  <2> HIDE DEF Wrong
  <2> QED BY <2>1, <1>1, LeastNumber
<1>3. k \in Steps /\ k + 1 \in Steps /\ k \in Nat /\ Up(p)[k + 1] # Up(q)[k]
  BY <1>2, PlacesCount DEF Steps
<1>4. Up(p)[k + 1] = IF Up(p)[k] = NONE THEN NONE ELSE parent[Up(p)[k]]
  <2>1. k + 1 # 0 /\ (k + 1) - 1 = k
    BY <1>3
  <2> QED BY <1>3, <2>1, UpSteps
<1>5. CASE k = 0
  BY <1>0, <1>3, <1>4, <1>5, UpSteps DEF TypeOK
<1>6. CASE k # 0
  <2>1. k - 1 \in Steps /\ Up(q)[k] = IF Up(q)[k - 1] = NONE THEN NONE ELSE parent[Up(q)[k - 1]]
    BY <1>3, <1>6, UpSteps
  <2>2. Up(p)[k] = Up(q)[k - 1]
    <3>1. (k - 1) + 1 = k /\ ~(k <= k - 1)
      BY <1>3
    <3> QED BY <3>1, <2>1, <1>2, <1>3
  <2> QED BY <2>1, <2>2, <1>3, <1>4
<1> QED BY <1>5, <1>6

(* heightOf counts every step down from m to a place under it. *)
LEMMA HeightCovers ==
  ASSUME TypeOK, NEW h, IsDepth(parent, h), NEW m \in PlaceRows, NEW d \in PlaceRows,
         NEW n \in Steps, Up(d)[n] = m
  PROVE  heightOf(m) \in Nat /\ n + 1 <= heightOf(m)
<1> DEFINE D == {k \in Steps : \E e \in PlaceRows : Up(e)[k] = m}
           Missed == {j \in 0..n : n - j \notin D}
<1>1. n \in Nat /\ 0..n \subseteq Steps
  BY PlacesCount DEF Steps
<1>2. Missed = {}
  <2> SUFFICES ASSUME Missed # {} PROVE FALSE
    OBVIOUS
  <2>1. PICK j \in Missed : \A i \in Missed : j <= i
    <3>1. Missed \subseteq Nat
      BY <1>1
    <3> HIDE DEF Missed
    <3> QED BY <3>1, LeastNumber
  <2>2. j \in Nat /\ j <= n /\ j # 0 /\ n - j \notin D
    BY <2>1, <1>1
  <2>3. n - (j - 1) \in D
    BY <2>1, <2>2, <1>1
  <2>4. PICK k \in Steps : k = n - j /\ k + 1 = n - (j - 1) /\ k + 1 \in Steps /\ k + 1 >= 1
    BY <2>2, <1>1 DEF Steps
  <2>5. PICK e \in PlaceRows : Up(e)[k + 1] = m
    BY <2>3, <2>4
  <2>6. parent[e] # NONE
    <3>1. h[e] \in Nat /\ (parent[e] = NONE => h[e] = 1)
      BY DEF IsDepth, PlaceRows, TypeOK
    <3>2. m # NONE
      BY DEF TypeOK
    <3> QED BY <3>1, <3>2, <2>4, <2>5, UpDepth
  <2>7. parent[e] \in PlaceRows /\ Up(parent[e])[k] = m
    BY <2>4, <2>5, <2>6, UpShift DEF TypeOK
  <2> QED BY <2>2, <2>4, <2>7
<1>3. 0..n \subseteq D
  <2>1. \A i \in 0..n : n - i \in 0..n /\ n - (n - i) = i
    BY <1>1
  <2> QED BY <2>1, <1>2
<1>4. IsFiniteSet(Steps) /\ D \subseteq Steps
  BY PlacesCount, UpTo DEF Steps
<1>5. IsFiniteSet(D) /\ Cardinality(D) \in Nat
  <2> HIDE DEF D
  <2> QED BY <1>4, FS_Subset, FS_CardinalityType
<1>6. Cardinality(0..n) <= Cardinality(D)
  <2> HIDE DEF D
  <2> QED BY <1>3, <1>5, FS_Subset
<1>7. heightOf(m) = Cardinality(D)
  BY DEF heightOf, Steps
<1> QED BY <1>1, <1>5, <1>6, <1>7, UpTo

(* The subtree of a moved place moves with it: what lay n below it still does. *)
LEMMA MovedTree ==
  ASSUME TypeOK, NEW h, IsDepth(parent, h), NEW m \in PlaceRows, NEW to, Placeable(to, m)
  PROVE  \E g : IsDepth([parent EXCEPT ![m] = to], g)
<1> DEFINE Under(x) == \E n \in Steps : Up(x)[n] = m
           base == IF to = NONE THEN 0 ELSE h[to]
           g == [x \in PlaceRows |-> IF Under(x) THEN h[x] - h[m] + 1 + base ELSE h[x]]
<1>1. \A x \in PlaceRows : h[x] \in 1..MAX_PLACE_DEPTH
  BY DEF IsDepth, PlaceRows
<1>2. to = NONE \/ (to \in PlaceRows /\ to # m)
  BY DEF Placeable
<1>3. base \in Nat /\ \A x \in PlaceRows : h[x] \in Nat
  BY <1>1, <1>2
<1>4. m # NONE /\ NONE \notin PlaceRows
  BY DEF TypeOK
<1>5. \A x \in PlaceRows, n \in Steps : Up(x)[n] = m => h[m] = h[x] - n /\ n \in Nat
  <2>1. \A n \in Steps : n \in Nat
    BY PlacesCount DEF Steps
  <2> QED BY <1>3, <1>4, <2>1, UpDepth
<1>6. Under(m)
  BY UpSteps
<1>7. to # NONE => ~Under(to)
  BY <1>2, <1>4, UpSteps DEF Placeable, ancestorIds
<1>8. ASSUME NEW x \in PlaceRows, x # m, parent[x] = NONE
      PROVE  ~Under(x)
  <2>1. h[x] = 1
    BY <1>4, <1>8 DEF IsDepth, PlaceRows
  <2>2. \A n \in Steps : n = 0 \/ n >= 1
    BY PlacesCount DEF Steps
  <2> QED BY <1>4, <1>8, <2>1, <2>2, UpSteps, UpDepth
<1>9. ASSUME NEW x \in PlaceRows, x # m, parent[x] # NONE
      PROVE  parent[x] \in PlaceRows /\ (Under(x) <=> Under(parent[x]))
  <2>1. PICK y \in PlaceRows : y = parent[x] /\ h[x] = h[y] + 1
    BY <1>9 DEF IsDepth, PlaceRows
  <2>2. ASSUME NEW n \in Steps, Up(x)[n] = m PROVE Under(y)
    <3>1. n # 0
      BY <2>2, <1>9, UpSteps
    <3>2. PICK k \in Steps : k = n - 1 /\ k + 1 = n
      BY <3>1, PlacesCount DEF Steps
    <3>3. Up(y)[k] = m
      BY <3>2, <2>1, <2>2, <1>9, UpShift
    <3> QED BY <3>3
  <2>3. ASSUME NEW k \in Steps, Up(y)[k] = m PROVE Under(x)
    <3>1. h[m] = h[y] - k /\ k \in Nat
      BY <2>3, <1>5
    <3>2. h[m] \in Nat \ {0} /\ h[x] \in 1..Cardinality(Places)
      BY <1>1, DepthBound
    <3>3. k + 1 \in Steps
      BY <3>1, <3>2, <2>1, <1>3, PlacesCount DEF Steps
    <3>4. Up(x)[k + 1] = m
      BY <3>3, <2>1, <2>3, <1>9, UpShift
    <3> QED BY <3>3, <3>4
  <2> QED BY <2>1, <2>2, <2>3
<1>10. ASSUME NEW x \in PlaceRows, Under(x)
       PROVE  h[x] - h[m] + 1 + base \in 1..MAX_PLACE_DEPTH
  <2>1. PICK n \in Steps : Up(x)[n] = m
    BY <1>10
  <2>2. h[m] = h[x] - n /\ n \in Nat
    BY <2>1, <1>5
  <2>3. heightOf(m) \in Nat /\ n + 1 <= heightOf(m)
    BY <2>1, HeightCovers
  <2>4. CASE to = NONE
    BY <2>2, <2>4, <1>1, <1>3
  <2>5. CASE to # NONE
    <3>1. Cardinality(ancestorIds(to)) = h[to]
      BY <1>2, <2>5, AncestorCount
    <3>2. h[to] + heightOf(m) <= MAX_PLACE_DEPTH
      BY <3>1, <2>5, <1>4 DEF Placeable
    <3> QED BY <3>2, <2>2, <2>3, <2>5, <1>1, <1>2, <1>3
  <2> QED BY <2>4, <2>5
<1> DEFINE par == [parent EXCEPT ![m] = to]
<1>11. DOMAIN par = PlaceRows /\ par[m] = to /\ \A x \in PlaceRows : x # m => par[x] = parent[x]
  BY DEF TypeOK, PlaceRows
<1>12. g \in [PlaceRows -> 1..MAX_PLACE_DEPTH]
  BY <1>1, <1>10
<1>13. ASSUME NEW x \in PlaceRows
       PROVE  \/ par[x] = NONE /\ g[x] = 1
              \/ par[x] \in PlaceRows /\ g[x] = g[par[x]] + 1
  <2>1. CASE x = m /\ to = NONE
    <3>1. g[m] = h[m] - h[m] + 1 + 0
      BY <1>6, <2>1
    <3> QED BY <3>1, <2>1, <1>3, <1>11
  <2>2. CASE x = m /\ to # NONE
    <3>1. g[m] = h[m] - h[m] + 1 + h[to] /\ g[to] = h[to]
      BY <1>2, <1>6, <1>7, <2>2
    <3> QED BY <3>1, <2>2, <1>2, <1>3, <1>11
  <2>3. CASE x # m /\ parent[x] = NONE
    <3>1. g[x] = h[x] /\ h[x] = 1
      BY <1>4, <1>8, <2>3 DEF IsDepth, PlaceRows
    <3> QED BY <3>1, <2>3, <1>11
  <2>4. CASE x # m /\ parent[x] # NONE
    <3>1. PICK y \in PlaceRows : y = parent[x] /\ h[x] = h[y] + 1 /\ (Under(x) <=> Under(y))
      BY <1>9, <2>4 DEF IsDepth, PlaceRows
    <3>2. g[x] = g[y] + 1
      <4>1. CASE Under(x)
        <5>1. g[x] = h[x] - h[m] + 1 + base /\ g[y] = h[y] - h[m] + 1 + base
          BY <3>1, <4>1
        <5> HIDE DEF base, g
        <5> QED BY <5>1, <3>1, <1>3
      <4>2. CASE ~Under(x)
        BY <3>1, <4>2
      <4> QED BY <4>1, <4>2
    <3> QED BY <3>1, <3>2, <2>4, <1>11
  <2> QED BY <2>1, <2>2, <2>3, <2>4, <1>2
<1>14. IsDepth(par, g)
  <2> HIDE DEF par, g
  <2>1. g \in [DOMAIN par -> 1..MAX_PLACE_DEPTH]
    BY <1>11, <1>12
  <2>2. \A x \in DOMAIN par : \/ par[x] = NONE /\ g[x] = 1
                              \/ par[x] \in DOMAIN par /\ g[x] = g[par[x]] + 1
    BY <1>11, <1>13
  <2> QED BY <2>1, <2>2, Zenon DEF IsDepth
<1> QED BY <1>14

LEMMA TreeStep ==
  ASSUME TypeOK, TreeInv, NEW t \in Requests, Fits(t), Passes(t), Writing(t)
  PROVE  TreeInv'
<1>1. PICK h : IsDepth(parent, h)
  BY DEF TreeInv
<1>2. SUFFICES \E g : IsDepth(parent', g)
  BY DEF TreeInv, IsDepth
<1>3. CASE t.op = "createPlace"
  <2>1. t.id \notin PlaceRows /\ t.id \in Places /\ t.to \in PlaceRows \cup {NONE}
    BY <1>3 DEF Writing, Fits, PlaceOps
  <2> DEFINE new == IF t.to = NONE THEN 1 ELSE h[t.to] + 1
             g == [x \in PlaceRows \cup {t.id} |-> IF x = t.id THEN new ELSE h[x]]
  <2>2. new \in 1..MAX_PLACE_DEPTH
    <3>1. CASE t.to = NONE
      BY <3>1
    <3>2. CASE t.to # NONE
      <4>1. Placeable(t.to, NONE)
        BY <1>3, ChecksOf
      <4>2. t.to \in PlaceRows /\ Cardinality(ancestorIds(t.to)) + 1 <= MAX_PLACE_DEPTH
        BY <4>1, <3>2 DEF Placeable
      <4>3. Cardinality(ancestorIds(t.to)) = h[t.to] /\ h[t.to] \in Nat
        BY <4>2, <1>1, AncestorCount DEF IsDepth, PlaceRows
      <4> QED BY <4>2, <4>3, <3>2
    <3> QED BY <3>1, <3>2
  <2>3. parent' = [x \in PlaceRows \cup {t.id} |-> IF x = t.id THEN t.to ELSE parent[x]]
    BY <1>3 DEF Writing
  <2>4. g \in [PlaceRows \cup {t.id} -> 1..MAX_PLACE_DEPTH]
    <3> HIDE DEF new
    <3> QED BY <2>2, <1>1 DEF IsDepth, PlaceRows
  <2>5. ASSUME NEW x \in PlaceRows \cup {t.id}
        PROVE  \/ parent'[x] = NONE /\ g[x] = 1
               \/ parent'[x] \in PlaceRows \cup {t.id} /\ g[x] = g[parent'[x]] + 1
    <3>1. CASE x = t.id
      BY <2>1, <2>3, <3>1
    <3>2. CASE x # t.id
      BY <2>1, <2>3, <3>2, <1>1 DEF IsDepth, PlaceRows
    <3> QED BY <3>1, <3>2
  <2>6. DOMAIN parent' = PlaceRows \cup {t.id}
    BY <2>3
  <2>7. IsDepth(parent', g)
    <3> HIDE DEF g
    <3>1. g \in [DOMAIN parent' -> 1..MAX_PLACE_DEPTH]
      BY <2>4, <2>6
    <3>2. \A x \in DOMAIN parent' : \/ parent'[x] = NONE /\ g[x] = 1
                                    \/ parent'[x] \in DOMAIN parent' /\ g[x] = g[parent'[x]] + 1
      BY <2>5, <2>6
    <3> QED BY <3>1, <3>2, Zenon DEF IsDepth
  <2> QED BY <2>7
<1>4. CASE t.op = "updatePlace"
  BY <1>1, <1>4, ChecksOf, MovedTree DEF Writing
<1>5. CASE t.op = "deletePlace"
  <2>1. parent' = [p \in PlaceRows \ {t.id} |-> parent[p]] /\ \A p \in PlaceRows : parent[p] # t.id
    BY <1>5, ChecksOf DEF Writing
  <2> DEFINE g == [p \in PlaceRows \ {t.id} |-> h[p]]
  <2>2. DOMAIN parent' = PlaceRows \ {t.id}
    BY <2>1
  <2>3. g \in [DOMAIN parent' -> 1..MAX_PLACE_DEPTH]
    BY <2>2, <1>1 DEF IsDepth, PlaceRows
  <2>4. \A x \in DOMAIN parent' : \/ parent'[x] = NONE /\ g[x] = 1
                                  \/ parent'[x] \in DOMAIN parent' /\ g[x] = g[parent'[x]] + 1
    BY <2>1, <2>2, <1>1 DEF IsDepth, PlaceRows
  <2>5. IsDepth(parent', g)
    <3> HIDE DEF g
    <3> QED BY <2>3, <2>4, Zenon DEF IsDepth
  <2> QED BY <2>5
<1>6. CASE t.op \notin PlaceOps
  BY <1>1, <1>6, Untouched
<1> QED BY <1>3, <1>4, <1>5, <1>6 DEF PlaceOps

LEMMA TreeNext == PlacesInv /\ TreeInv /\ [Next]_vars => TreeInv'
<1> SUFFICES ASSUME PlacesInv, TreeInv, [Next]_vars PROVE TreeInv'
  OBVIOUS
<1>1. CASE parent' = parent
  BY <1>1 DEF TreeInv
<1>2. CASE \E q \in Procs : Commits(q)
  BY <1>2, Committed, TreeStep DEF PlacesInv
<1>3. (\E q \in Procs : Commits(q)) \/ parent' = parent
  BY DEF Next, vars, rows, Request, Starts, Acquires, NextStage, RollsBack
<1> QED BY <1>1, <1>2, <1>3

(* The places of the house are a forest no deeper than the cap, whatever       *)
(* requests create, move and delete places at once: the tree lock spans the    *)
(* check (assertPlaceable) and the write, and a moved subtree's whole height   *)
(* counts.                                                                     *)
THEOREM TreeStaysSound == Spec => []TreeSound
<1>1. Init => PlacesInv /\ TreeInv
  <2>1. Init => TreeInv
    <3> SUFFICES ASSUME Init PROVE IsDepth(parent, [p \in {} |-> 1])
      BY DEF TreeInv
    <3> QED BY DEF Init, IsDepth
  <2> QED BY <2>1, InitInv
<1>2. PlacesInv /\ TreeInv /\ [Next]_vars => (PlacesInv /\ TreeInv)'
  BY NextInv, TreeNext
<1>3. PlacesInv /\ TreeInv => TreeSound
  BY TreeIsSound DEF PlacesInv
<1> QED BY <1>1, <1>2, <1>3, PTL DEF Spec
-----------------------------------------------------------------------------
(* ------------------------------------------------- the order of locks *)
(* Which lock a request may ask for at which of its statements.  Only the      *)
(* deletion of a place asks for several assets, and only asking for details    *)
(* and served places comes after another lock on the same asset.               *)
InTree(t) == \/ t.op \in PlaceOps \cup {"upsertFacility"}
             \/ t.op \in {"createAsset", "updateAsset"} /\ t.to # NONE

AssetOps  == {"updateAsset", "deleteAsset", "upsertVehicle", "upsertFacility"}
DetailOps == {"deleteAsset", "upsertVehicle", "deleteVehicle", "upsertFacility", "deleteFacility"}
ServesOps == {"deleteAsset", "upsertFacility", "deleteFacility"}

AssetAt(op)  == IF op \in {"deleteAsset", "upsertVehicle"} THEN 1 ELSE 2
DetailAt(op) == IF op \in {"deleteAsset", "upsertVehicle"} THEN 2 ELSE IF op = "upsertFacility" THEN 3 ELSE 1

AssetLock(t)  == Lock(t.id, IF t.op = "updateAsset" THEN "write" ELSE "delete")
DetailLock(t) == Lock(<<t.id>>, IF t.op \in {"upsertVehicle", "upsertFacility"} THEN "write" ELSE "delete")

AsksTree(t, l, k)   == InTree(t) /\ k = 1 /\ l = Tree
AsksPlace(t, l, k)  == InTree(t) /\ k >= 2 /\ l.on \in Places
AsksAsset(t, l, k)  == /\ l.on \in Assets
                       /\ \/ t.op = "deletePlace" /\ k = 3
                          \/ t.op \in AssetOps /\ k = AssetAt(t.op) /\ l = AssetLock(t)
AsksDetail(t, l, k) == t.op \in DetailOps /\ k = DetailAt(t.op) /\ l = DetailLock(t)
ServesFor(t, a, p, k) == \/ t.op = "deletePlace" /\ k = 4 /\ p = t.id
                         \/ t.op \in ServesOps /\ k = DetailAt(t.op) + 1 /\ a = t.id
AsksServes(t, l, k) ==
  \E a \in Assets, p \in Places : l = Lock(<<a, p>>, "delete") /\ ServesFor(t, a, p, k)

Asks(t, l, k) == \/ AsksTree(t, l, k) \/ AsksPlace(t, l, k) \/ AsksAsset(t, l, k)
                 \/ AsksDetail(t, l, k) \/ AsksServes(t, l, k)

(* What a request holds it has asked for, and what orders it behind others it   *)
(* has kept; without updateRoutine no routine is anchored.                      *)
HeldAsked ==
  \A q \in Procs : \A l \in held[q] :
    \E t \in Requests : tx[q] = t /\ \E k \in 1..t.stage : Asks(t, l, k)

Ordered ==
  \A q \in Procs, t \in Requests : tx[q] = t =>
    /\ InTree(t) /\ t.stage >= 2 => Tree \in held[q]
    /\ t.op \in ServesOps /\ t.stage > DetailAt(t.op) => DetailLock(t) \in held[q]

Unanchored == anchor = [r \in Routines |-> NONE]

WaitInv == PlacesInv /\ HeldAsked /\ Ordered /\ Unanchored
-----------------------------------------------------------------------------
LEMMA StageAsked ==
  ASSUME TypeOK, Unanchored, NEW t \in Requests, Fits(t), t.op # "updateRoutine",
         NEW l \in Stages(t)[t.stage]
  PROVE  Asks(t, l, t.stage)
<1>0. /\ t.stage \in 1..HowMany(t.op)
      /\ NONE \notin Places \cup Assets
      /\ StandingIn(t.id) \subseteq Assets
      /\ Serving(t.id) \subseteq Assets \X {t.id} /\ ServedBy(t.id) \subseteq {t.id} \X Places
      /\ t.set \subseteq Places
  BY DEF Fits, TypeOK, StandingIn, Serving, ServedBy, Requests
<1>1. t.id \in Places \cup Assets => AnchoredAt(t.id) = {}
  BY <1>0 DEF Unanchored, AnchoredAt
<1>2. CASE t.op = "createPlace"
  <2>1. t.stage \in 1..2 /\ t.to \in Places \cup {NONE}
    BY <1>0, <1>2 DEF HowMany, Fits
  <2>2. Stages(t)[1] = {Tree} /\ Stages(t)[2] = Shares({t.to})
    BY <1>2 DEF Stages
  <2>3. CASE t.stage = 1
    BY <2>2, <2>3, <1>2 DEF Asks, AsksTree, InTree, PlaceOps
  <2>4. CASE t.stage = 2
    BY <2>1, <2>2, <2>4, <1>2 DEF Asks, AsksPlace, InTree, PlaceOps, Shares, Lock
  <2> QED BY <2>1, <2>3, <2>4
<1>3. CASE t.op = "updatePlace"
  <2>1. t.stage \in 1..3 /\ t.to \in Places \cup {NONE} /\ t.id \in Places
    BY <1>0, <1>3 DEF HowMany, Fits, PlaceOps
  <2>2. Stages(t)[1] = {Tree} /\ Stages(t)[2] = Writes({t.id}) /\ Stages(t)[3] = Shares({t.to})
    BY <1>3 DEF Stages
  <2>3. CASE t.stage = 1
    BY <2>2, <2>3, <1>3 DEF Asks, AsksTree, InTree, PlaceOps
  <2>4. CASE t.stage = 2
    BY <2>1, <2>2, <2>4, <1>3 DEF Asks, AsksPlace, InTree, PlaceOps, Writes, Lock
  <2>5. CASE t.stage = 3
    BY <2>1, <2>2, <2>5, <1>3 DEF Asks, AsksPlace, InTree, PlaceOps, Shares, Lock
  <2> QED BY <2>1, <2>3, <2>4, <2>5
<1>4. CASE t.op = "deletePlace"
  <2>1. t.stage \in 1..5 /\ t.id \in Places
    BY <1>0, <1>4 DEF HowMany, Fits, PlaceOps
  <2>2. /\ Stages(t)[1] = {Tree} /\ Stages(t)[2] = Deletes({t.id}) /\ Stages(t)[3] = Writes(StandingIn(t.id))
        /\ Stages(t)[4] = Deletes(Serving(t.id)) /\ Stages(t)[5] = Writes(AnchoredAt(t.id))
    BY <1>4 DEF Stages
  <2>3. CASE t.stage = 1
    BY <2>2, <2>3, <1>4 DEF Asks, AsksTree, InTree, PlaceOps
  <2>4. CASE t.stage = 2
    BY <2>1, <2>2, <2>4, <1>4 DEF Asks, AsksPlace, InTree, PlaceOps, Deletes, Lock
  <2>5. CASE t.stage = 3
    BY <2>2, <2>5, <1>0, <1>4 DEF Asks, AsksAsset, Writes, Lock
  <2>6. CASE t.stage = 4
    <3>1. PICK a \in Assets : l = Lock(<<a, t.id>>, "delete")
      BY <2>2, <2>6, <1>0 DEF Deletes
    <3> QED BY <3>1, <2>1, <2>6, <1>4 DEF Asks, AsksServes, ServesFor
  <2>7. CASE t.stage = 5
    BY <2>1, <2>2, <2>7, <1>1 DEF Writes
  <2> QED BY <2>1, <2>3, <2>4, <2>5, <2>6, <2>7
<1>5. CASE t.op = "createAsset"
  <2>1. t.stage \in 1..2 /\ t.to \in Places \cup {NONE}
    BY <1>0, <1>5 DEF HowMany, Fits
  <2>2. Stages(t)[1] = TreeIf(t.to) /\ Stages(t)[2] = Shares({t.to})
    BY <1>5 DEF Stages
  <2>3. CASE t.stage = 1
    BY <2>2, <2>3, <1>5 DEF Asks, AsksTree, InTree, TreeIf
  <2>4. CASE t.stage = 2
    BY <2>1, <2>2, <2>4, <1>5 DEF Asks, AsksPlace, InTree, Shares, Lock
  <2> QED BY <2>1, <2>3, <2>4
<1>6. CASE t.op = "updateAsset"
  <2>1. t.stage \in 1..3 /\ t.to \in Places \cup {NONE} /\ t.id \in Assets
    BY <1>0, <1>6 DEF HowMany, Fits, AllOps, PlaceOps
  <2>2. /\ Stages(t)[1] = TreeIf(t.to) /\ Stages(t)[2] = Writes({t.id})
        /\ Stages(t)[3] \subseteq Shares({t.to})
    BY <1>6 DEF Stages, Changed
  <2>3. CASE t.stage = 1
    BY <2>2, <2>3, <1>6 DEF Asks, AsksTree, InTree, TreeIf
  <2>4. CASE t.stage = 2
    BY <2>1, <2>2, <2>4, <1>6 DEF Asks, AsksAsset, AssetOps, AssetAt, AssetLock, Writes, Lock
  <2>5. CASE t.stage = 3
    BY <2>1, <2>2, <2>5, <1>6 DEF Asks, AsksPlace, InTree, Shares, Lock
  <2> QED BY <2>1, <2>3, <2>4, <2>5
<1>7. CASE t.op = "deleteAsset"
  <2>1. t.stage \in 1..4 /\ t.id \in Assets
    BY <1>0, <1>7 DEF HowMany, Fits, AllOps, PlaceOps
  <2>2. /\ Stages(t)[1] = Deletes({t.id}) /\ Stages(t)[2] = Deletes({<<t.id>>})
        /\ Stages(t)[3] = Deletes(ServedBy(t.id)) /\ Stages(t)[4] = Writes(AnchoredAt(t.id))
    BY <1>7 DEF Stages, Detail
  <2>3. CASE t.stage = 1
    BY <2>1, <2>2, <2>3, <1>7 DEF Asks, AsksAsset, AssetOps, AssetAt, AssetLock, Deletes, Lock
  <2>4. CASE t.stage = 2
    BY <2>1, <2>2, <2>4, <1>7 DEF Asks, AsksDetail, DetailOps, DetailAt, DetailLock, Deletes, Lock
  <2>5. CASE t.stage = 3
    <3>1. PICK p \in Places : l = Lock(<<t.id, p>>, "delete")
      BY <2>2, <2>5, <1>0 DEF Deletes
    <3> QED BY <3>1, <2>1, <2>5, <1>7 DEF Asks, AsksServes, ServesFor, ServesOps, DetailAt
  <2>6. CASE t.stage = 4
    BY <2>1, <2>2, <2>6, <1>1 DEF Writes
  <2> QED BY <2>1, <2>3, <2>4, <2>5, <2>6
<1>8. CASE t.op = "upsertVehicle"
  <2>1. t.stage \in 1..2 /\ t.id \in Assets
    BY <1>0, <1>8 DEF HowMany, Fits, AllOps, PlaceOps
  <2>2. Stages(t)[1] = Deletes({t.id}) /\ Stages(t)[2] = Writes({<<t.id>>})
    BY <1>8 DEF Stages, VehicleStages, Detail
  <2>3. CASE t.stage = 1
    BY <2>1, <2>2, <2>3, <1>8 DEF Asks, AsksAsset, AssetOps, AssetAt, AssetLock, Deletes, Lock
  <2>4. CASE t.stage = 2
    BY <2>1, <2>2, <2>4, <1>8 DEF Asks, AsksDetail, DetailOps, DetailAt, DetailLock, Writes, Lock
  <2> QED BY <2>1, <2>3, <2>4
<1>9. CASE t.op = "deleteVehicle"
  <2>1. t.stage = 1 /\ t.id \in Assets
    BY <1>0, <1>9 DEF HowMany, Fits, AllOps, PlaceOps
  <2>2. Stages(t)[1] = Deletes({<<t.id>>})
    BY <1>9 DEF Stages, Detail
  <2> QED BY <2>1, <2>2, <1>9 DEF Asks, AsksDetail, DetailOps, DetailAt, DetailLock, Deletes, Lock
<1>10. CASE t.op = "upsertFacility"
  <2>1. t.stage \in 1..5 /\ t.id \in Assets
    BY <1>0, <1>10 DEF HowMany, Fits, AllOps, PlaceOps
  <2>2. /\ Stages(t)[1] = {Tree} /\ Stages(t)[2] = Deletes({t.id}) /\ Stages(t)[3] = Writes({<<t.id>>})
        /\ Stages(t)[4] = Deletes(ServedBy(t.id)) /\ Stages(t)[5] = Shares(t.set)
    BY <1>10 DEF Stages, FacilityStages, Detail
  <2>3. CASE t.stage = 1
    BY <2>2, <2>3, <1>10 DEF Asks, AsksTree, InTree
  <2>4. CASE t.stage = 2
    BY <2>1, <2>2, <2>4, <1>10 DEF Asks, AsksAsset, AssetOps, AssetAt, AssetLock, Deletes, Lock
  <2>5. CASE t.stage = 3
    BY <2>1, <2>2, <2>5, <1>10 DEF Asks, AsksDetail, DetailOps, DetailAt, DetailLock, Writes, Lock
  <2>6. CASE t.stage = 4
    <3>1. PICK p \in Places : l = Lock(<<t.id, p>>, "delete")
      BY <2>2, <2>6, <1>0 DEF Deletes
    <3> QED BY <3>1, <2>1, <2>6, <1>10 DEF Asks, AsksServes, ServesFor, ServesOps, DetailAt
  <2>7. CASE t.stage = 5
    BY <2>2, <2>7, <1>0, <1>10 DEF Asks, AsksPlace, InTree, Shares, Lock
  <2> QED BY <2>1, <2>3, <2>4, <2>5, <2>6, <2>7
<1>11. CASE t.op = "deleteFacility"
  <2>1. t.stage \in 1..2 /\ t.id \in Assets
    BY <1>0, <1>11 DEF HowMany, Fits, AllOps, PlaceOps
  <2>2. Stages(t)[1] = Deletes({<<t.id>>}) /\ Stages(t)[2] = Deletes(ServedBy(t.id))
    BY <1>11 DEF Stages, Detail
  <2>3. CASE t.stage = 1
    BY <2>1, <2>2, <2>3, <1>11 DEF Asks, AsksDetail, DetailOps, DetailAt, DetailLock, Deletes, Lock
  <2>4. CASE t.stage = 2
    <3>1. PICK p \in Places : l = Lock(<<t.id, p>>, "delete")
      BY <2>2, <2>4, <1>0 DEF Deletes
    <3> QED BY <3>1, <2>1, <2>4, <1>11 DEF Asks, AsksServes, ServesFor, ServesOps, DetailAt
  <2> QED BY <2>1, <2>3, <2>4
<1> QED BY <1>2, <1>3, <1>4, <1>5, <1>6, <1>7, <1>8, <1>9, <1>10, <1>11 DEF Fits, AllOps, PlaceOps

(* What may be asked for depends on what is requested alone. *)
LEMMA SameAsks ==
  ASSUME NEW t, NEW u, u.op = t.op, u.id = t.id, u.to = t.to, NEW l, NEW k
  PROVE  Asks(u, l, k) = Asks(t, l, k) /\ InTree(u) = InTree(t) /\ DetailLock(u) = DetailLock(t)
BY DEF Asks, AsksTree, AsksPlace, AsksAsset, AsksDetail, AsksServes, ServesFor, InTree, AssetLock, DetailLock

(* Between one statement and the next, what a request holds stays ordered. *)
LEMMA WaitNextStage ==
  ASSUME WaitInv, NEW q \in Procs, NextStage(q)
  PROVE  HeldAsked' /\ Ordered'
<1>1. PICK t \in Requests : tx[q] = t /\ Fits(t) /\ Stages(t)[t.stage] \subseteq held[q]
  BY StageHeld DEF NextStage, WaitInv
<1> DEFINE u == [t EXCEPT !.stage = @ + 1]
<1>2. tx' = [tx EXCEPT ![q] = u] /\ UNCHANGED <<rows, held>>
  BY <1>1 DEF NextStage
<1>3. t.stage < HowMany(t.op) /\ t.stage \in 1..5 /\ HowMany(t.op) \in 1..5
  BY <1>1, StageCount DEF NextStage, Fits, Requests
<1>4. /\ u \in Requests /\ u.stage = t.stage + 1
      /\ u.op = t.op /\ u.id = t.id /\ u.to = t.to
  BY <1>3 DEF Requests
<1> HIDE DEF u
<1>5. tx'[q] = u /\ \A r \in Procs \ {q} : tx'[r] = tx[r]
  BY <1>2 DEF WaitInv, PlacesInv, TypeOK
<1>6. HeldAsked'
  <2> SUFFICES ASSUME NEW r \in Procs, NEW l \in held[r]
               PROVE  \E v \in Requests : tx'[r] = v /\ \E k \in 1..v.stage : Asks(v, l, k)
    BY <1>2 DEF HeldAsked
  <2>1. PICK v \in Requests : tx[r] = v /\ \E k \in 1..v.stage : Asks(v, l, k)
    BY DEF WaitInv, HeldAsked
  <2>2. CASE r # q
    BY <2>1, <2>2, <1>5
  <2>3. CASE r = q
    <3>1. PICK k \in 1..t.stage : Asks(t, l, k)
      BY <2>1, <2>3, <1>1
    <3>2. k \in 1..u.stage
      BY <1>3, <1>4
    <3>3. Asks(u, l, k)
      BY <3>1, <1>4, SameAsks
    <3> QED BY <3>2, <3>3, <2>3, <1>4, <1>5
  <2> QED BY <2>2, <2>3
<1>7. Ordered'
  <2>1. InTree(u) /\ u.stage >= 2 => Tree \in held[q]
    <3>1. InTree(u) = InTree(t)
      BY <1>4, SameAsks
    <3>2. CASE t.stage = 1 /\ InTree(t)
      <4>1. Stages(t)[1] = {Tree}
        BY <3>2 DEF InTree, PlaceOps, Stages, FacilityStages, TreeIf
      <4> QED BY <4>1, <3>2, <1>1
    <3>3. CASE t.stage >= 2 /\ InTree(t)
      BY <3>3, <1>1 DEF WaitInv, Ordered
    <3> QED BY <3>1, <3>2, <3>3, <1>3
  <2>2. u.op \in ServesOps /\ u.stage > DetailAt(u.op) => DetailLock(u) \in held[q]
    <3>1. DetailLock(u) = DetailLock(t)
      BY <1>4, SameAsks
    <3>2. CASE t.op \in ServesOps /\ t.stage = DetailAt(t.op)
      <4>1. Stages(t)[t.stage] = {DetailLock(t)}
        <5>1. CASE t.op = "deleteAsset"
          BY <5>1, <3>2 DEF DetailAt, DetailLock, Stages, Deletes, Detail, Lock
        <5>2. CASE t.op = "upsertFacility"
          BY <5>2, <3>2 DEF DetailAt, DetailLock, Stages, FacilityStages, Writes, Detail, Lock
        <5>3. CASE t.op = "deleteFacility"
          BY <5>3, <3>2 DEF DetailAt, DetailLock, Stages, Deletes, Detail, Lock
        <5> QED BY <5>1, <5>2, <5>3, <3>2 DEF ServesOps
      <4> QED BY <4>1, <3>1, <1>1
    <3>3. CASE t.op \in ServesOps /\ t.stage > DetailAt(t.op)
      BY <3>1, <3>3, <1>1 DEF WaitInv, Ordered
    <3>4. DetailAt(t.op) \in 1..3
      BY DEF DetailAt
    <3> QED BY <3>2, <3>3, <3>4, <1>3, <1>4
  <2>3. \A r \in Procs, v \in Requests : tx'[r] = v => (tx[r] = v \/ (r = q /\ v = u))
    BY <1>5
  <2> QED BY <2>1, <2>2, <2>3, <1>2 DEF WaitInv, Ordered
<1> QED BY <1>6, <1>7

LEMMA WaitNext ==
  ASSUME "updateRoutine" \notin Ops, WaitInv, [Next]_vars
  PROVE  WaitInv'
<1>1. PlacesInv /\ PlacesInv'
  BY NextInv DEF WaitInv
<1>2. \A t \in Requests : t.op # "updateRoutine"
  BY DEF Requests
<1>3. CASE UNCHANGED vars
  BY <1>1, <1>3 DEF WaitInv, HeldAsked, Ordered, Unanchored, vars, rows
<1>4. ASSUME NEW q \in Procs, Request(q)
      PROVE  WaitInv'
  <2>1. PICK u \in Requests : u.stage = 1 /\ tx' = [tx EXCEPT ![q] = u]
    BY <1>1, <1>4, Requested
  <2>2. tx[q] = NoTx /\ UNCHANGED <<rows, held>>
    BY <1>1, <1>4, Requested
  <2>3. tx'[q] = u /\ \A r \in Procs \ {q} : tx'[r] = tx[r]
    BY <1>1, <2>1 DEF PlacesInv, TypeOK
  <2>4. held[q] = {}
    BY <2>2, NoTxApart DEF WaitInv, HeldAsked
  <2>5. HeldAsked'
    BY <2>2, <2>3, <2>4 DEF WaitInv, HeldAsked
  <2>6. Ordered'
    <3>1. \A op : DetailAt(op) \in 1..3
      BY DEF DetailAt
    <3>2. ~(u.stage >= 2) /\ ~(u.stage > DetailAt(u.op))
      BY <3>1, <2>1
    <3> QED BY <3>2, <2>2, <2>3 DEF WaitInv, Ordered
  <2>7. Unanchored'
    BY <2>2 DEF WaitInv, Unanchored, rows
  <2> QED BY <1>1, <2>5, <2>6, <2>7 DEF WaitInv
<1>5. ASSUME NEW q \in Procs, NEW l \in Wanted(q), Acquires(q, l)
      PROVE  WaitInv'
  <2>1. held' = [held EXCEPT ![q] = @ \cup {l}] /\ UNCHANGED <<rows, tx>>
    BY <1>5 DEF Acquires
  <2>2. held'[q] = held[q] \cup {l} /\ \A r \in Procs \ {q} : held'[r] = held[r]
    BY <1>1, <2>1 DEF PlacesInv, Mutex
  <2>3. PICK t \in Requests : tx[q] = t
    BY <1>1, <1>5 DEF PlacesInv, TypeOK, Wanted
  <2>4. t.stage \in 1..t.stage /\ Asks(t, l, t.stage)
    <3>1. l \in Stages(t)[t.stage]
      BY <1>5, <2>3, NoTxApart DEF Wanted
    <3>2. Fits(t) /\ t.stage \in 1..5
      BY <1>1, <2>3 DEF PlacesInv, Fitted, Requests
    <3> QED BY <3>1, <3>2, <1>1, <1>2, StageAsked DEF PlacesInv, WaitInv
  <2>5. HeldAsked'
    <3> SUFFICES ASSUME NEW r \in Procs, NEW m \in held'[r]
                 PROVE  \E v \in Requests : tx[r] = v /\ \E k \in 1..v.stage : Asks(v, m, k)
      BY <2>1 DEF HeldAsked
    <3>1. CASE m \in held[r]
      BY <3>1 DEF WaitInv, HeldAsked
    <3>2. CASE r = q /\ m = l
      BY <3>2, <2>3, <2>4
    <3> QED BY <3>1, <3>2, <2>2
  <2>6. Ordered' /\ Unanchored'
    BY <2>1, <2>2 DEF WaitInv, Ordered, Unanchored, rows
  <2> QED BY <1>1, <2>5, <2>6 DEF WaitInv
<1>6. ASSUME NEW q \in Procs, NextStage(q)
      PROVE  WaitInv'
  <2>1. Unanchored'
    BY <1>6 DEF NextStage, WaitInv, Unanchored, rows
  <2> QED BY <1>1, <1>6, <2>1, WaitNextStage DEF WaitInv
<1>7. ASSUME NEW q \in Procs, Ends(q), Unanchored'
      PROVE  WaitInv'
  <2>1. /\ tx' = [tx EXCEPT ![q] = NoTx] /\ held' = [held EXCEPT ![q] = {}]
    BY <1>7 DEF Ends
  <2>2. /\ held'[q] = {} /\ tx'[q] = NoTx
        /\ \A r \in Procs \ {q} : held'[r] = held[r] /\ tx'[r] = tx[r]
    BY <1>1, <2>1 DEF PlacesInv, Mutex, TypeOK
  <2>3. HeldAsked'
    BY <2>2 DEF WaitInv, HeldAsked
  <2>4. Ordered'
    BY <2>2, NoTxApart DEF WaitInv, Ordered
  <2> QED BY <1>1, <1>7, <2>3, <2>4 DEF WaitInv
<1>8. ASSUME NEW q \in Procs, Commits(q)
      PROVE  WaitInv'
  <2>1. PICK t \in Requests : Writing(t) /\ Ends(q)
    BY <1>1, <1>8, Committed
  <2>2. Unanchored'
    BY <2>1, <1>2 DEF Writing, WaitInv, Unanchored
  <2> QED BY <2>1, <2>2, <1>7
<1>9. ASSUME NEW q \in Procs, RollsBack(q)
      PROVE  WaitInv'
  <2>1. Ends(q) /\ Unanchored'
    BY <1>9 DEF RollsBack, WaitInv, Unanchored, rows
  <2> QED BY <2>1, <1>7
<1> QED BY <1>3, <1>4, <1>5, <1>6, <1>8, <1>9 DEF Next
-----------------------------------------------------------------------------
(* The rows locked are of different tables, so a conflict is over one kind. *)
LEMMA Kinds ==
  ASSUME NEW t, Fits(t), NEW l, NEW k, Asks(t, l, k)
  PROVE  /\ l.on = NONE => AsksTree(t, l, k)
         /\ l.on \in Places => AsksPlace(t, l, k)
         /\ l.on \in Assets => AsksAsset(t, l, k)
         /\ \A a \in Assets : l.on = <<a>> => AsksDetail(t, l, k) /\ t.id = a
         /\ \A a \in Assets, p \in Places : l.on = <<a, p>> =>
              AsksServes(t, l, k) /\ l = Lock(<<a, p>>, "delete") /\ ServesFor(t, a, p, k)
<1>1. t.op \in DetailOps => t.id \in Assets
  BY DEF Fits, DetailOps, AllOps, PlaceOps
<1>2. CASE AsksTree(t, l, k)
  <2>1. l.on = NONE
    BY <1>2 DEF AsksTree, Tree, Lock
  <2> QED BY <1>2, <2>1
<1>3. CASE AsksPlace(t, l, k)
  BY <1>3 DEF AsksPlace
<1>4. CASE AsksAsset(t, l, k)
  BY <1>4 DEF AsksAsset
<1>5. CASE AsksDetail(t, l, k)
  <2>1. l.on = <<t.id>> /\ t.id \in Assets
    BY <1>1, <1>5 DEF AsksDetail, DetailLock, Lock
  <2> QED BY <1>5, <2>1
<1>6. CASE AsksServes(t, l, k)
  <2>1. PICK a \in Assets, p \in Places : l = Lock(<<a, p>>, "delete") /\ ServesFor(t, a, p, k)
    BY <1>6 DEF AsksServes
  <2>2. l.on = <<a, p>>
    BY <2>1 DEF Lock
  <2>3. l.on \notin Places \cup Assets \cup {NONE}
    BY <2>2
  <2>4. \A b \in Assets : l.on # <<b>>
    BY <2>2
  <2>5. \A b \in Assets, r \in Places : l.on = <<b, r>> => b = a /\ r = p
    BY <2>2
  <2> QED BY <1>6, <2>1, <2>3, <2>4, <2>5
<1> QED BY <1>2, <1>3, <1>4, <1>5, <1>6 DEF Asks

LEMMA Holder ==
  ASSUME WaitInv, NEW r \in Procs, NEW m \in held[r]
  PROVE  \E t \in Requests : /\ tx[r] = t /\ Fits(t) /\ t.stage \in 1..5
                             /\ \E k \in 1..t.stage : Asks(t, m, k)
<1>1. PICK t \in Requests : tx[r] = t /\ \E k \in 1..t.stage : Asks(t, m, k)
  BY DEF WaitInv, HeldAsked
<1>2. Fits(t) /\ t.stage \in 1..5
  BY <1>1 DEF WaitInv, PlacesInv, Fitted, Requests
<1> QED BY <1>1, <1>2

LEMMA Waiter ==
  ASSUME "updateRoutine" \notin Ops, WaitInv, NEW q \in Procs, NEW l \in Wanted(q)
  PROVE  \E t \in Requests : /\ tx[q] = t /\ Fits(t) /\ t.stage \in 1..5
                             /\ Asks(t, l, t.stage) /\ l \notin held[q]
<1>1. PICK t \in Requests : tx[q] = t
  BY DEF WaitInv, PlacesInv, TypeOK, Wanted
<1>2. l \in Stages(t)[t.stage] /\ l \notin held[q]
  BY <1>1, NoTxApart DEF Wanted
<1>3. Fits(t) /\ t.stage \in 1..5 /\ t.op # "updateRoutine"
  BY <1>1 DEF WaitInv, PlacesInv, Fitted, Requests
<1> QED BY <1>1, <1>2, <1>3, StageAsked DEF WaitInv, PlacesInv

LEMMA TreeOnce ==
  ASSUME WaitInv, NEW q \in Procs, NEW r \in Procs, q # r
  PROVE  ~(Tree \in held[q] /\ Tree \in held[r])
BY DEF WaitInv, PlacesInv, Mutex, Conflict, Tree, Lock

LEMMA DetailOnce ==
  ASSUME WaitInv, NEW q \in Procs, NEW r \in Procs, q # r, NEW t, NEW u, t.id = u.id
  PROVE  ~(DetailLock(t) \in held[q] /\ DetailLock(u) \in held[r])
<1>1. Conflict(DetailLock(t), DetailLock(u))
  BY DEF Conflict, DetailLock, Lock
<1> QED BY <1>1 DEF WaitInv, PlacesInv, Mutex

(* Who holds the row that has a facility serve a place. *)
ServesHeld(r, u, a, p) ==
  /\ tx[r] = u /\ u.stage \in 1..5
  /\ \/ u.op = "deletePlace" /\ u.id = p /\ u.stage >= 4 /\ Tree \in held[r]
     \/ /\ u.op \in ServesOps /\ u.id = a /\ u.stage > DetailAt(u.op)
        /\ DetailLock(u) \in held[r]

(* Whoever waits for a row is behind somebody who waits for a row of an earlier *)
(* kind, and whoever waits for the tree is behind nobody who waits.            *)
LEMMA NoWaitCycle ==
  ASSUME "updateRoutine" \notin Ops, WaitInv
  PROVE  NoDeadlock
<1> SUFFICES ASSUME NEW S, S \subseteq Procs, S # {}, \A q \in S : Wanted(q) # {},
                    \A q \in S : \A l \in Wanted(q) : Blockers(q, l) \cap S # {}
             PROVE  FALSE
  BY DEF NoDeadlock
<1>1. ASSUME NEW q \in S, NEW l \in Wanted(q)
      PROVE  \E r \in S : r # q /\ \E m \in held[r] : m.on = l.on
  BY <1>1 DEF Blockers, Conflict
<1>2. ASSUME NEW q \in S, NEW l \in Wanted(q), l.on \in Places
      PROVE  FALSE
  <2>1. PICK t \in Requests : tx[q] = t /\ Fits(t) /\ t.stage \in 1..5 /\ Asks(t, l, t.stage)
    BY Waiter
  <2>2. Tree \in held[q]
    <3>1. AsksPlace(t, l, t.stage)
      BY <2>1, <1>2, Kinds
    <3> QED BY <3>1, <2>1 DEF AsksPlace, WaitInv, Ordered
  <2>3. PICK r \in S : r # q /\ \E m \in held[r] : m.on = l.on
    BY <1>1
  <2>4. PICK m \in held[r] : m.on = l.on
    BY <2>3
  <2>5. PICK u \in Requests : tx[r] = u /\ Fits(u) /\ u.stage \in 1..5 /\ \E k \in 1..u.stage : Asks(u, m, k)
    BY Holder
  <2>6. PICK k \in 1..u.stage : AsksPlace(u, m, k)
    BY <2>3, <2>4, <2>5, <1>2, Kinds
  <2>7. Tree \in held[r]
    BY <2>5, <2>6 DEF AsksPlace, WaitInv, Ordered
  <2> QED BY <2>2, <2>3, <2>4, <2>7, TreeOnce
<1>3. ASSUME NEW r \in S, NEW m \in held[r], NEW a \in Assets, NEW p \in Places, m.on = <<a, p>>
      PROVE  m = Lock(<<a, p>>, "delete") /\ \E u \in Requests : ServesHeld(r, u, a, p)
  <2>1. PICK u \in Requests : tx[r] = u /\ Fits(u) /\ u.stage \in 1..5 /\ \E k \in 1..u.stage : Asks(u, m, k)
    BY Holder
  <2>2. PICK k \in 1..u.stage : Asks(u, m, k)
    BY <2>1
  <2>3. m = Lock(<<a, p>>, "delete") /\ ServesFor(u, a, p, k)
    BY <2>1, <2>2, <1>3, Kinds
  <2>4. CASE u.op = "deletePlace" /\ k = 4 /\ u.id = p
    <3>1. InTree(u) /\ u.stage >= 4 /\ u.stage >= 2
      BY <2>1, <2>2, <2>4 DEF InTree, PlaceOps
    <3>2. Tree \in held[r]
      BY <3>1, <2>1 DEF WaitInv, Ordered
    <3> QED BY <3>1, <3>2, <2>1, <2>3, <2>4 DEF ServesHeld
  <2>5. CASE u.op \in ServesOps /\ k = DetailAt(u.op) + 1 /\ u.id = a
    <3>1. u.stage > DetailAt(u.op)
      <4>1. DetailAt(u.op) \in 1..3
        BY DEF DetailAt
      <4> QED BY <4>1, <2>1, <2>2, <2>5
    <3>2. DetailLock(u) \in held[r]
      BY <3>1, <2>1, <2>5 DEF WaitInv, Ordered
    <3> QED BY <3>1, <3>2, <2>1, <2>3, <2>5 DEF ServesHeld
  <2> QED BY <2>3, <2>4, <2>5 DEF ServesFor
<1>4. ASSUME NEW q \in S, NEW l \in Wanted(q), NEW t \in Requests, tx[q] = t,
             t.op \in ServesOps, t.stage > DetailAt(t.op)
      PROVE  \E p \in Places : l = Lock(<<t.id, p>>, "delete") /\ l \notin held[q] /\ t.id \in Assets
  <2>1. Fits(t) /\ t.stage \in 1..5 /\ Asks(t, l, t.stage) /\ l \notin held[q]
    BY <1>4, Waiter
  <2>2. ~AsksTree(t, l, t.stage)
    BY <1>4 DEF AsksTree, ServesOps, DetailAt
  <2>3. ~AsksPlace(t, l, t.stage)
    BY <1>2 DEF AsksPlace
  <2>4. ~AsksAsset(t, l, t.stage)
    BY <1>4 DEF AsksAsset, AssetOps, ServesOps, DetailAt, AssetAt
  <2>5. ~AsksDetail(t, l, t.stage)
    <3>1. DetailAt(t.op) \in 1..3
      BY DEF DetailAt
    <3> QED BY <3>1, <1>4 DEF AsksDetail
  <2>6. AsksServes(t, l, t.stage)
    BY <2>1, <2>2, <2>3, <2>4, <2>5 DEF Asks
  <2> QED BY <2>1, <2>6, <1>4 DEF AsksServes, ServesFor, ServesOps
<1>5. ASSUME NEW q \in S, NEW l \in Wanted(q), NEW a \in Assets, NEW p \in Places, l.on = <<a, p>>,
             tx[q].op = "deletePlace"
      PROVE  FALSE
  <2>1. PICK t \in Requests : tx[q] = t /\ Fits(t) /\ t.stage \in 1..5 /\ Asks(t, l, t.stage)
    BY Waiter
  <2>2. l = Lock(<<a, p>>, "delete") /\ t.id = p /\ t.stage = 4
    BY <2>1, <1>5, Kinds DEF ServesFor, ServesOps
  <2>3. Tree \in held[q]
    BY <2>1, <2>2, <1>5 DEF WaitInv, Ordered, InTree, PlaceOps
  <2>4. PICK r \in S : r # q /\ \E m \in held[r] : m.on = l.on
    BY <1>1
  <2>5. PICK m \in held[r] : m.on = <<a, p>>
    BY <2>4, <1>5
  <2>6. PICK u \in Requests : m = Lock(<<a, p>>, "delete") /\ ServesHeld(r, u, a, p)
    BY <2>5, <1>3
  <2>7. /\ tx[r] = u /\ m \in held[r] /\ m = Lock(<<a, p>>, "delete")
        /\ u.op \in ServesOps /\ u.id = a /\ u.stage > DetailAt(u.op) /\ DetailLock(u) \in held[r]
    BY <2>3, <2>4, <2>6, TreeOnce DEF ServesHeld
  <2>8. PICK l2 \in Wanted(r) : TRUE
    OBVIOUS
  <2>9. PICK p2 \in Places : l2 = Lock(<<a, p2>>, "delete") /\ l2 \notin held[r]
    BY <2>7, <2>8, <1>4
  <2>10. PICK r2 \in S : r2 # r /\ \E m2 \in held[r2] : m2.on = l2.on
    BY <1>1, <2>8
  <2>11. PICK m2 \in held[r2] : m2.on = <<a, p2>>
    BY <2>9, <2>10 DEF Lock
  <2>12. PICK v \in Requests : ServesHeld(r2, v, a, p2)
    BY <2>11, <1>3
  <2>13. tx[r2] = v /\ v.id = p2 /\ Tree \in held[r2]
    BY <2>7, <2>10, <2>12, DetailOnce DEF ServesHeld
  <2>14. r2 = q
    BY <2>3, <2>13, TreeOnce
  <2> QED BY <2>1, <2>2, <2>7, <2>9, <2>13, <2>14
<1>6. ASSUME NEW q \in S, NEW l \in Wanted(q), NEW a \in Assets, NEW p \in Places, l.on = <<a, p>>
      PROVE  FALSE
  <2>1. PICK t \in Requests : tx[q] = t /\ Fits(t) /\ t.stage \in 1..5 /\ Asks(t, l, t.stage)
    BY Waiter
  <2>2. t.op \in ServesOps /\ t.stage = DetailAt(t.op) + 1 /\ t.id = a
    <3>1. t.op # "deletePlace"
      BY <2>1, <1>5, <1>6
    <3>2. ServesFor(t, a, p, t.stage)
      BY <2>1, <1>6, Kinds
    <3> QED BY <3>1, <3>2 DEF ServesFor
  <2>3. DetailLock(t) \in held[q]
    <3>1. t.stage > DetailAt(t.op)
      BY <2>2 DEF DetailAt
    <3> QED BY <3>1, <2>1, <2>2 DEF WaitInv, Ordered
  <2>4. PICK r \in S : r # q /\ \E m \in held[r] : m.on = l.on
    BY <1>1
  <2>5. PICK m \in held[r] : m.on = <<a, p>>
    BY <2>4, <1>6
  <2>6. PICK u \in Requests : ServesHeld(r, u, a, p)
    BY <2>5, <1>3
  <2>7. tx[r] = u /\ u.op = "deletePlace" /\ u.stage \in 4..5
    BY <2>2, <2>3, <2>4, <2>6, DetailOnce DEF ServesHeld
  <2>8. PICK l2 \in Wanted(r) : TRUE
    OBVIOUS
  <2>9. Asks(u, l2, u.stage)
    BY <2>7, <2>8, Waiter
  <2>10. AsksServes(u, l2, u.stage)
    BY <2>7, <2>8, <2>9, <1>2 DEF Asks, AsksTree, AsksPlace, AsksAsset, AsksDetail, AssetOps, DetailOps
  <2>11. \E b \in Assets, p2 \in Places : l2.on = <<b, p2>>
    BY <2>10 DEF AsksServes, Lock
  <2> QED BY <2>7, <2>8, <2>11, <1>5
<1>7. ASSUME NEW q \in S, NEW l \in Wanted(q), NEW t \in Requests, tx[q] = t
      PROVE  /\ Fits(t) /\ t.stage \in 1..5 /\ l \notin held[q]
             /\ AsksTree(t, l, t.stage) \/ AsksAsset(t, l, t.stage) \/ AsksDetail(t, l, t.stage)
  <2>1. Fits(t) /\ t.stage \in 1..5 /\ Asks(t, l, t.stage) /\ l \notin held[q]
    BY <1>7, Waiter
  <2>2. ~AsksPlace(t, l, t.stage)
    BY <1>2 DEF AsksPlace
  <2>3. ~AsksServes(t, l, t.stage)
    BY <1>6 DEF AsksServes, Lock
  <2> QED BY <2>1, <2>2, <2>3 DEF Asks
<1>8. ASSUME NEW q \in S, NEW l \in Wanted(q), NEW a \in Assets, l.on = <<a>>
      PROVE  FALSE
  <2>1. PICK r \in S : r # q /\ \E m \in held[r] : m.on = l.on
    BY <1>1
  <2>2. PICK m \in held[r] : m.on = <<a>>
    BY <2>1, <1>8
  <2>3. PICK u \in Requests : tx[r] = u /\ Fits(u) /\ u.stage \in 1..5 /\ \E k \in 1..u.stage : Asks(u, m, k)
    BY Holder
  <2>4. PICK k \in 1..u.stage : AsksDetail(u, m, k)
    BY <2>1, <2>2, <2>3, Kinds
  <2>5. u.op \in DetailOps /\ u.stage >= DetailAt(u.op) /\ DetailLock(u) \in held[r]
    BY <2>1, <2>2, <2>3, <2>4 DEF AsksDetail
  <2>6. PICK l2 \in Wanted(r) : TRUE
    OBVIOUS
  <2>7. ~AsksTree(u, l2, u.stage)
    BY <2>5 DEF AsksTree, InTree, PlaceOps, DetailOps, DetailAt
  <2>8. ~AsksAsset(u, l2, u.stage)
    BY <2>5 DEF AsksAsset, AssetOps, AssetAt, DetailOps, DetailAt
  <2>9. ~AsksDetail(u, l2, u.stage)
    BY <2>3, <2>5, <2>6, <1>7 DEF AsksDetail
  <2> QED BY <2>3, <2>6, <2>7, <2>8, <2>9, <1>7
<1>9. ASSUME NEW q \in S, NEW l \in Wanted(q), NEW t \in Requests, tx[q] = t
      PROVE  /\ Fits(t) /\ t.stage \in 1..5 /\ l \notin held[q]
             /\ AsksTree(t, l, t.stage) \/ AsksAsset(t, l, t.stage)
  <2>1. ~AsksDetail(t, l, t.stage)
    <3>1. SUFFICES ASSUME AsksDetail(t, l, t.stage) PROVE FALSE
      OBVIOUS
    <3>2. t.id \in Assets /\ l.on = <<t.id>>
      BY <3>1, <1>7, <1>9 DEF AsksDetail, DetailLock, Lock, DetailOps, Fits, AllOps, PlaceOps
    <3> QED BY <3>2, <1>8
  <2> QED BY <2>1, <1>7, <1>9
<1>10. ASSUME NEW r \in S, NEW m \in held[r], m.on \in Assets
       PROVE  Tree \in held[r] /\ \E l2 \in Wanted(r) : l2.on \in Assets
  <2>1. PICK u \in Requests : tx[r] = u /\ Fits(u) /\ u.stage \in 1..5 /\ \E k \in 1..u.stage : Asks(u, m, k)
    BY Holder
  <2>2. PICK k \in 1..u.stage : AsksAsset(u, m, k)
    BY <2>1, <1>10, Kinds
  <2>3. PICK l2 \in Wanted(r) : l2 \notin held[r] /\ (AsksTree(u, l2, u.stage) \/ AsksAsset(u, l2, u.stage))
    BY <2>1, <1>9
  <2>4. CASE u.op = "deletePlace" /\ k = 3
    <3>1. u.stage >= 3
      BY <2>1, <2>2, <2>4
    <3>2. Tree \in held[r]
      BY <3>1, <2>1, <2>4 DEF WaitInv, Ordered, InTree, PlaceOps
    <3>3. l2.on \in Assets
      BY <3>1, <2>3 DEF AsksTree, AsksAsset
    <3> QED BY <3>2, <3>3
  <2>5. CASE u.op \in AssetOps /\ k = AssetAt(u.op) /\ m = AssetLock(u)
    <3>1. u.stage >= AssetAt(u.op)
      BY <2>1, <2>2, <2>5 DEF AssetAt
    <3>2. ~AsksTree(u, l2, u.stage)
      BY <3>1, <2>5 DEF AsksTree, InTree, PlaceOps, AssetOps, AssetAt
    <3>3. l2 = AssetLock(u)
      BY <3>2, <2>3, <2>5 DEF AsksAsset, AssetOps
    <3> QED BY <3>3, <2>3, <2>5
  <2> QED BY <2>2, <2>4, <2>5 DEF AsksAsset
<1>11. ASSUME NEW q \in S, NEW l \in Wanted(q), l.on \in Assets
       PROVE  FALSE
  <2>1. PICK r \in S : r # q /\ \E m \in held[r] : m.on \in Assets
    BY <1>1, <1>11
  <2>2. PICK m \in held[r] : m.on \in Assets
    BY <2>1
  <2>3. PICK l2 \in Wanted(r) : Tree \in held[r] /\ l2.on \in Assets
    BY <2>1, <2>2, <1>10
  <2>4. PICK r2 \in S : r2 # r /\ \E m2 \in held[r2] : m2.on \in Assets
    BY <2>3, <1>1
  <2>5. PICK m2 \in held[r2] : m2.on \in Assets
    BY <2>4
  <2>6. Tree \in held[r2]
    BY <2>4, <2>5, <1>10
  <2> QED BY <2>3, <2>4, <2>5, <2>6, TreeOnce
<1>12. ASSUME NEW q \in S, NEW l \in Wanted(q)
       PROVE  l = Tree /\ l \notin held[q]
  <2>1. PICK t \in Requests : tx[q] = t
    BY Waiter
  <2>2. ~AsksAsset(t, l, t.stage)
    BY <1>11 DEF AsksAsset
  <2> QED BY <2>1, <2>2, <1>9 DEF AsksTree
<1>13. PICK q \in S : TRUE
  OBVIOUS
<1>14. PICK l \in Wanted(q) : TRUE
  OBVIOUS
<1>15. PICK r \in S : \E m \in held[r] : m.on = NONE
  BY <1>1, <1>12, <1>13, <1>14 DEF Tree, Lock
<1>16. PICK m \in held[r] : m.on = NONE
  BY <1>15
<1>17. m = Tree
  <2>1. PICK u \in Requests : Fits(u) /\ \E k \in 1..u.stage : Asks(u, m, k)
    BY Holder
  <2>2. PICK k \in 1..u.stage : AsksTree(u, m, k)
    BY <2>1, <1>15, <1>16, Kinds
  <2> QED BY <2>2 DEF AsksTree
<1> QED BY <1>12, <1>15, <1>16, <1>17

(* No set of requests waits only for one another, however many are in flight:  *)
(* the tree comes before any place or asset, an asset before its detail and the *)
(* places it serves.  Only a routine being anchored takes its rows in another  *)
(* order.                                                                      *)
THEOREM DeadlockFree ==
  ASSUME "updateRoutine" \notin Ops
  PROVE  Spec => []NoDeadlock
<1>1. Init => WaitInv
  <2> SUFFICES ASSUME Init PROVE WaitInv
    OBVIOUS
  <2>1. HeldAsked
    BY DEF Init, HeldAsked
  <2>2. Ordered
    BY NoTxApart DEF Init, Ordered
  <2>3. Unanchored
    BY DEF Init, Unanchored
  <2> QED BY <2>1, <2>2, <2>3, InitInv DEF WaitInv
<1>2. WaitInv /\ [Next]_vars => WaitInv'
  BY WaitNext
<1>3. WaitInv => NoDeadlock
  BY NoWaitCycle
<1> QED BY <1>1, <1>2, <1>3, PTL DEF Spec
=============================================================================
