------------------------------ MODULE EthelPlaces ------------------------------
(***************************************************************************)
(* The place tree, the assets in it and their details: modules/ethel/      *)
(* places.ts, service.ts, details.ts, and the anchor of a Weorc routine.   *)
(*                                                                         *)
(* A transaction takes its locks stage by stage, checks where the code     *)
(* checks, and writes all it writes when it commits: nobody sees a row it  *)
(* has locked before.  The stages are the statements, in their order, and  *)
(* the cascades of a delete, in the order of their constraints.            *)
(***************************************************************************)
EXTENDS Integers, Sequences, FiniteSets

CONSTANTS Places, Assets, Routines,
          Procs,            \* requests in flight
          MAX_PLACE_DEPTH,
          Ops,              \* the operations of an instance
          NONE

(* Rows of different tables, a detail row <<a>> and a row <<a, p>> of            *)
(* ethel_facility_places are never the same row.                              *)
ASSUME EthelAssumption ==
  /\ MAX_PLACE_DEPTH \in Nat \ {0}
  /\ IsFiniteSet(Places)
  /\ NONE \notin Places \cup Assets \cup Routines \cup Ops
  /\ Places \cap Assets = {} /\ Places \cap Routines = {} /\ Assets \cap Routines = {}
  /\ \A a \in Assets :
       /\ <<a>> \notin Places \cup Assets \cup Routines \cup {NONE}
       /\ \A p \in Places : <<a, p>> \notin Places \cup Assets \cup Routines \cup {NONE}

VARIABLES parent,     \* ethel_places: parent[p] for each place there is
          stands,     \* ethel_assets: stands[a] for each asset there is
          vehicles, facilities, serves,   \* the detail rows and ethel_facility_places
          anchor,     \* weorc_routines: the asset or place a routine is about
          tx, held    \* each request's transaction, and the locks it holds

rows == <<parent, stands, vehicles, facilities, serves, anchor>>
vars == <<rows, tx, held>>
-----------------------------------------------------------------------------
PlaceRows == DOMAIN parent
AssetRows == DOMAIN stands
NoTx      == [op |-> NONE, id |-> NONE, to |-> NONE, set |-> {}, stage |-> 1]

Requests == [op : Ops, id : Places \cup Assets \cup Routines, to : Places \cup Assets \cup {NONE},
             set : SUBSET Places, stage : 1..5]

TypeOK ==
  /\ PlaceRows \subseteq Places /\ parent \in [PlaceRows -> PlaceRows \cup {NONE}]
  /\ AssetRows \subseteq Assets /\ stands \in [AssetRows -> PlaceRows \cup {NONE}]
  /\ vehicles \subseteq AssetRows /\ facilities \subseteq AssetRows
  /\ serves \subseteq facilities \X PlaceRows
  /\ anchor \in [Routines -> PlaceRows \cup AssetRows \cup {NONE}]
  /\ tx \in [Procs -> Requests \cup {NoTx}]

Init ==
  /\ parent = <<>> /\ stands = <<>>
  /\ vehicles = {} /\ facilities = {} /\ serves = {}
  /\ anchor = [r \in Routines |-> NONE]
  /\ tx = [q \in Procs |-> NoTx] /\ held = [q \in Procs |-> {}]
-----------------------------------------------------------------------------
(* From a place to its root: the n-th ancestor, p itself being the 0th. *)
Up(p) == LET up[n \in 0..Cardinality(Places)] ==
               IF n = 0 THEN p ELSE IF up[n - 1] = NONE THEN NONE ELSE parent[up[n - 1]]
         IN  up

ancestorIds(p) == {Up(p)[n] : n \in DOMAIN Up(p)} \ {NONE}

(* The moved subtree's own height: 0 for a place there is not. *)
heightOf(p) == Cardinality({n \in 0..Cardinality(Places) : \E d \in PlaceRows : Up(d)[n] = p})

(* Seeded fault: the moved subtree counts as one place. *)
PlaceableFlat(to, moved) ==
  to # NONE =>
    /\ to \in PlaceRows /\ to # moved
    /\ moved \notin ancestorIds(to)
    /\ Cardinality(ancestorIds(to)) + 1 <= MAX_PLACE_DEPTH

(* assertPlaceable; moved is NONE for a new place. *)
Placeable(to, moved) ==
  to # NONE =>
    /\ to \in PlaceRows /\ to # moved
    /\ moved \notin ancestorIds(to)
    /\ Cardinality(ancestorIds(to)) + (IF moved = NONE THEN 1 ELSE heightOf(moved))
         <= MAX_PLACE_DEPTH
-----------------------------------------------------------------------------
(* Locks: a foreign key shares the row it names, an update writes its row, and *)
(* a delete or FOR UPDATE excludes both.  The advisory lock names no row.      *)
Lock(on, mode) == [on |-> on, mode |-> mode]
Tree           == Lock(NONE, "delete")
Shares(ids)    == {Lock(i, "share") : i \in ids \ {NONE}}
Writes(ids)    == {Lock(i, "write") : i \in ids}
Deletes(ids)   == {Lock(i, "delete") : i \in ids}

Conflict(l, m) ==
  l.on = m.on /\ (l.mode = "delete" \/ m.mode = "delete" \/ (l.mode = "write" /\ m.mode = "write"))

StandingIn(p)  == {a \in AssetRows : stands[a] = p}
AnchoredAt(x)  == {r \in Routines : anchor[r] = x}
ServedBy(a)    == {s \in serves : s[1] = a}
Serving(p)     == {s \in serves : s[2] = p}
Detail(a)      == <<a>>
TreeIf(to)     == IF to = NONE THEN {} ELSE {Tree}

(* A foreign key that keeps its value is not checked again. *)
Changed(old, to) == IF old = to THEN {} ELSE Shares({to})

(* Seeded fault: the facility's transaction locks the asset before the tree. *)
FacilityAssetFirst(t) ==
  << Deletes({t.id}), {Tree}, Writes({Detail(t.id)}), Deletes(ServedBy(t.id)), Shares(t.set) >>

FacilityStages(t) ==
  << {Tree}, Deletes({t.id}), Writes({Detail(t.id)}), Deletes(ServedBy(t.id)), Shares(t.set) >>

(* Seeded fault: no lock on the asset row. *)
VehicleUnlocked(t) == << {}, Writes({Detail(t.id)}) >>

VehicleStages(t) == << Deletes({t.id}), Writes({Detail(t.id)}) >>

Stages(t) ==
  CASE t.op = "createPlace"    -> << {Tree}, Shares({t.to}) >>
    [] t.op = "updatePlace"    -> << {Tree}, Writes({t.id}), Shares({t.to}) >>
    [] t.op = "deletePlace"    -> << {Tree}, Deletes({t.id}), Writes(StandingIn(t.id)),
                                     Deletes(Serving(t.id)), Writes(AnchoredAt(t.id)) >>
    [] t.op = "createAsset"    -> << TreeIf(t.to), Shares({t.to}) >>
    [] t.op = "updateAsset"    -> << TreeIf(t.to), Writes({t.id}),
                                     IF t.id \in AssetRows THEN Changed(stands[t.id], t.to) ELSE {} >>
    [] t.op = "deleteAsset"    -> << Deletes({t.id}), Deletes({Detail(t.id)}),
                                     Deletes(ServedBy(t.id)), Writes(AnchoredAt(t.id)) >>
    [] t.op = "upsertVehicle"  -> VehicleStages(t)
    [] t.op = "deleteVehicle"  -> << Deletes({Detail(t.id)}) >>
    [] t.op = "upsertFacility" -> FacilityStages(t)
    [] t.op = "deleteFacility" -> << Deletes({Detail(t.id)}), Deletes(ServedBy(t.id)) >>
    [] t.op = "updateRoutine"  -> << Writes({t.id}), Changed(anchor[t.id], t.to) >>

(* What is checked, and after which stage; a failed check rolls back. *)
CheckAt(t) == CASE t.op = "upsertFacility" -> 2 [] OTHER -> 1

Passes(t) ==
  CASE t.op = "createPlace"    -> Placeable(t.to, NONE)
    [] t.op = "updatePlace"    -> Placeable(t.to, t.id)
    [] t.op = "deletePlace"    -> t.id \in PlaceRows /\ \A p \in PlaceRows : parent[p] # t.id
    [] t.op = "upsertVehicle"  -> t.id \in AssetRows \ facilities
    [] t.op = "upsertFacility" -> t.id \in AssetRows \ vehicles
    [] OTHER                   -> TRUE
-----------------------------------------------------------------------------
Starts(q, op, id, to, set) ==
  /\ op \in Ops /\ tx[q] = NoTx
  /\ tx' = [tx EXCEPT ![q] = [op |-> op, id |-> id, to |-> to, set |-> set, stage |-> 1]]
  /\ UNCHANGED <<rows, held>>

Wanted(q) == IF tx[q] = NoTx THEN {} ELSE Stages(tx[q])[tx[q].stage] \ held[q]

Blockers(q, l) == {r \in Procs \ {q} : \E m \in held[r] : Conflict(l, m)}

Acquires(q, l) ==
  /\ l \in Wanted(q) /\ Blockers(q, l) = {}
  /\ held' = [held EXCEPT ![q] = @ \cup {l}]
  /\ UNCHANGED <<rows, tx>>

Ends(q) == tx' = [tx EXCEPT ![q] = NoTx] /\ held' = [held EXCEPT ![q] = {}]

StageDone(q) == tx[q] # NoTx /\ Wanted(q) = {}

Checked(q) == tx[q].stage = CheckAt(tx[q]) => Passes(tx[q])

NextStage(q) ==
  /\ StageDone(q) /\ Checked(q)
  /\ tx[q].stage < Len(Stages(tx[q]))
  /\ tx' = [tx EXCEPT ![q].stage = @ + 1]
  /\ UNCHANGED <<rows, held>>

(* A check fails, a name is taken, a constraint objects: all roll back. *)
RollsBack(q) ==
  /\ StageDone(q)
  /\ Ends(q)
  /\ UNCHANGED rows

WithoutPlace(p) == [a \in AssetRows |-> IF stands[a] = p THEN NONE ELSE stands[a]]

(* What is written at the commit, and the rows it still has to find. *)
Writing(t) ==
  \/ /\ t.op = "createPlace" /\ t.id \notin PlaceRows /\ t.to \in PlaceRows \cup {NONE}
     /\ parent' = [p \in PlaceRows \cup {t.id} |-> IF p = t.id THEN t.to ELSE parent[p]]
     /\ UNCHANGED <<stands, vehicles, facilities, serves, anchor>>
  \/ /\ t.op = "updatePlace" /\ t.id \in PlaceRows
     /\ parent' = [parent EXCEPT ![t.id] = t.to]
     /\ UNCHANGED <<stands, vehicles, facilities, serves, anchor>>
  \/ /\ t.op = "deletePlace"
     /\ parent' = [p \in PlaceRows \ {t.id} |-> parent[p]]
     /\ stands' = WithoutPlace(t.id)
     /\ serves' = serves \ Serving(t.id)
     /\ anchor' = [r \in Routines |-> IF anchor[r] = t.id THEN NONE ELSE anchor[r]]
     /\ UNCHANGED <<vehicles, facilities>>
  \/ /\ t.op = "createAsset" /\ t.id \notin AssetRows /\ t.to \in PlaceRows \cup {NONE}
     /\ stands' = [a \in AssetRows \cup {t.id} |-> IF a = t.id THEN t.to ELSE stands[a]]
     /\ UNCHANGED <<parent, vehicles, facilities, serves, anchor>>
  \/ /\ t.op = "updateAsset" /\ t.id \in AssetRows /\ t.to \in PlaceRows \cup {NONE}
     /\ stands' = [stands EXCEPT ![t.id] = t.to]
     /\ UNCHANGED <<parent, vehicles, facilities, serves, anchor>>
  \/ /\ t.op = "deleteAsset"
     /\ stands' = [a \in AssetRows \ {t.id} |-> stands[a]]
     /\ vehicles' = vehicles \ {t.id} /\ facilities' = facilities \ {t.id}
     /\ serves' = serves \ ServedBy(t.id)
     /\ anchor' = [r \in Routines |-> IF anchor[r] = t.id THEN NONE ELSE anchor[r]]
     /\ UNCHANGED parent
  \/ /\ t.op = "upsertVehicle"
     /\ vehicles' = vehicles \cup {t.id}
     /\ UNCHANGED <<parent, stands, facilities, serves, anchor>>
  \/ /\ t.op = "deleteVehicle"
     /\ vehicles' = vehicles \ {t.id}
     /\ UNCHANGED <<parent, stands, facilities, serves, anchor>>
  \/ /\ t.op = "upsertFacility" /\ t.set \subseteq PlaceRows
     /\ facilities' = facilities \cup {t.id}
     /\ serves' = (serves \ ServedBy(t.id)) \cup ({t.id} \X t.set)
     /\ UNCHANGED <<parent, stands, vehicles, anchor>>
  \/ /\ t.op = "deleteFacility"
     /\ facilities' = facilities \ {t.id}
     /\ serves' = serves \ ServedBy(t.id)
     /\ UNCHANGED <<parent, stands, vehicles, anchor>>
  \/ /\ t.op = "updateRoutine" /\ t.to \in PlaceRows \cup AssetRows \cup {NONE}
     /\ anchor' = [anchor EXCEPT ![t.id] = t.to]
     /\ UNCHANGED <<parent, stands, vehicles, facilities, serves>>

Commits(q) ==
  /\ StageDone(q) /\ Checked(q)
  /\ tx[q].stage = Len(Stages(tx[q]))
  /\ Writing(tx[q])
  /\ Ends(q)
-----------------------------------------------------------------------------
Request(q) ==
  \/ \E op \in {"createPlace", "updatePlace"}, p \in Places, to \in Places \cup {NONE} :
       Starts(q, op, p, to, {})
  \/ \E p \in Places : Starts(q, "deletePlace", p, NONE, {})
  \/ \E op \in {"createAsset", "updateAsset"}, a \in Assets, to \in Places \cup {NONE} :
       Starts(q, op, a, to, {})
  \/ \E op \in {"deleteAsset", "upsertVehicle", "deleteVehicle", "deleteFacility"}, a \in Assets :
       Starts(q, op, a, NONE, {})
  \/ \E a \in Assets, set \in SUBSET Places : Starts(q, "upsertFacility", a, NONE, set)
  \/ \E r \in Routines, to \in Places \cup Assets \cup {NONE} : Starts(q, "updateRoutine", r, to, {})

Next ==
  \E q \in Procs :
    \/ Request(q)
    \/ \E l \in Wanted(q) : Acquires(q, l)
    \/ NextStage(q) \/ Commits(q) \/ RollsBack(q)

Spec == Init /\ [][Next]_vars
-----------------------------------------------------------------------------
(* The tree stays a tree no deeper than the cap, although every check reads it *)
(* before it is written ("Two concurrent reparents each pass their check ...   *)
(* and together make a cycle neither could make alone").                       *)
TreeSound ==
  \A p \in PlaceRows :
    /\ NONE \in {Up(p)[n] : n \in DOMAIN Up(p)}
    /\ Cardinality(ancestorIds(p)) <= MAX_PLACE_DEPTH

(* No set of transactions waits only for one another: what the lock protocol of *)
(* places.ts is for ("NOT unit-testable").                                      *)
NoDeadlock ==
  ~ \E S \in (SUBSET {q \in Procs : Wanted(q) # {}}) \ {{}} :
      \A q \in S : \A l \in Wanted(q) : Blockers(q, l) \cap S # {}

(* An asset is a vehicle, a facility or neither, whichever way the two upserts *)
(* and the deletes interleave ("leaving an asset with two detail rows and no   *)
(* constraint to notice").                                                     *)
OneDetail == vehicles \cap facilities = {}
=============================================================================
