SPECIFICATION ServicesSpec
CONSTANTS
  NONE = NONE
  FirstYear = 2023
  MaxMonth = 40
  BillAnchors <- FirstDues
  LastAsked = 420
  p1 = p1
  p2 = p2
  p3 = p3
  boiler = boiler
  u1 = u1
  u2 = u2
  u3 = u3
  t1 = t1
  t2 = t2
  cash = cash
  food = food
  Places = {p1, p2, p3}
  Assets = {boiler}
  Routines = {chore}
  Procs = {u1, u2, u3}
  MAX_PLACE_DEPTH = 2
  Ops = {"createPlace", "updatePlace", "deletePlace", "createAsset", "updateAsset", "deleteAsset", "upsertVehicle", "deleteVehicle", "upsertFacility", "deleteFacility", "updateRoutine"}
SYMMETRY Sym
INVARIANTS ServicesTypeOK FiguresRight TreeSound OneDetail NoDeadlock
PROPERTIES ReconcileSquares
CHECK_DEADLOCK FALSE
