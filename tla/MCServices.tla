------------------------------- MODULE MCServices -------------------------------
(* The calendar computations, the places and things of the house and the parts of *)
(* its money, side by side: each behaviour is of the one named by focus, the       *)
(* others do not move.                                                            *)
EXTENDS EthelPlaces, FeohCadence, TLC

\* The instances never meet: p1, p2 and p3 are places, members or rows, each in its
\* own instance, which leaves TLC fewer symmetries to try.
CONSTANTS p1, p2, p3, u1, u2, u3, t1, t2, boiler, cash, food

VARIABLES focus,
          spec, last, day,                                 \* WeorcRecurrence
          accounts, envelopes, created, today, calm,       \* FeohLedger
          txns, job,                                       \* FeohLedger, FeohItemCosts
          retired, size, links, paid                       \* FeohItemCosts

ledger == <<accounts, envelopes, created, today, calm>>
costs  == <<retired, size, links, paid>>
money  == <<ledger, costs, txns, job>>
dates  == <<spec, last, day, cadenceVars>>
-----------------------------------------------------------------------------
(* Routines around a leap day, created on 30 December 2023: anchors on   *)
(* the 29th and 31st of a month, before, on and after that day.              *)
Anchors == {<<9, 31>>, <<11, 29>>, <<11, 31>>, <<12, 31>>}

RoutineSpecs ==
  LET Of(units, counts) == [mode : {"fixed", "from_completion"}, unit : units,
                            count : counts, anchor : Anchors]
  IN  Of({"month", "week"}, {1, 2}) \cup Of({"day"}, {3})

Recurrence == INSTANCE WeorcRecurrence
  WITH Specs <- RoutineSpecs, Start <- <<11, 30>>, Horizon <- 100

(* Bills due at month ends, around a leap day. *)
FirstDues == {<<0, 31>>, <<1, 28>>, <<7, 30>>, <<13, 29>>}
-----------------------------------------------------------------------------
(* The requests of EthelPlaces that are in flight, and the places they have to do with. *)
InFlight == {q \in Procs : tx[q] # NoTx}
Asked    == Places \cap UNION {{tx[q].id, tx[q].to} \cup tx[q].set : q \in InFlight}

(* Two members reorganise three places; three members on one place, its asset and the *)
(* asset's details; two members there, and a routine anchored to either.             *)
Scenario ==
  /\ focus = "tree" =>
       /\ Cardinality(InFlight) <= 2
       /\ \A q \in InFlight : tx[q].op \in {"createPlace", "updatePlace", "deletePlace"}
  /\ focus = "locks" =>
       /\ PlaceRows \cup Asked \subseteq {p3}
       /\ \A q \in InFlight : tx[q].op # "updateRoutine"
  /\ focus = "anchored" => Cardinality(InFlight) <= 2 /\ PlaceRows \cup Asked \subseteq {p3}
-----------------------------------------------------------------------------
Posts(a, e, n) == << [account |-> a, envelope |-> NONE, net |-> n],
                     [account |-> NONE, envelope |-> e, net |-> -n] >>

(* Purchases out of a cash account, and a count of what is in it. *)
Purchases == { [date |-> d, posts |-> Posts(cash, food, -1)] : d \in 1..2 }

Wallet == INSTANCE FeohLedger
  WITH Accounts <- {cash}, Envelopes <- {food}, MaxTxns <- 2, Entries <- Purchases, Files <- {},
       Openings <- {0}, Counts <- {0, 1}, LastDay <- 2, Procs <- {u1},
       Ops <- {"reconcile", "deleteTransaction"}

(* A file with a good row, a row that names no account, and one in no envelope. *)
CsvRow(e, a) == [valid |-> TRUE, date |-> 1, envelope |-> e, account |-> a, amount |-> 1]

Csv == INSTANCE FeohLedger
  WITH Accounts <- {cash}, Envelopes <- {food}, MaxTxns <- 2, Entries <- Purchases,
       Files <- {<<CsvRow(food, cash), CsvRow(food, NONE)>>, <<CsvRow(NONE, cash)>>},
       Openings <- {0}, Counts <- {}, LastDay <- 2, Procs <- {u1},
       Ops <- {"import", "deleteEnvelope", "deleteAccount"}

(* One asset, two transactions, a request, and connections to spare. *)
Costs == INSTANCE FeohItemCosts
  WITH Assets <- {boiler}, Txns <- {t1, t2}, Sizes <- {0, 2}, PoolMax <- 3, Procs <- {u1}

Sym == Permutations({p1, p2}) \cup Permutations({u1, u2, u3}) \cup Permutations({t1, t2})
-----------------------------------------------------------------------------
NoRoutine == spec = NONE /\ last = NONE
NoCadence == nextDue = NONE /\ cadence = NONE /\ asked = NONE
NoDates   == NoRoutine /\ NoCadence /\ day = NONE
NoLedger  == accounts = NONE /\ envelopes = NONE /\ created = NONE /\ today = NONE /\ calm = NONE
NoCosts   == retired = NONE /\ size = NONE /\ links = NONE /\ paid = NONE
NoMoney   == NoLedger /\ NoCosts /\ txns = NONE /\ job = NONE

(* The house is empty, outside its own behaviours. *)
ServicesInit ==
  /\ Init
  /\ \/ focus = "recurrence" /\ Recurrence!Init  /\ NoCadence /\ NoMoney
     \/ focus = "cadence"    /\ CadenceInit      /\ NoRoutine /\ day = NONE /\ NoMoney
     \/ focus \in {"tree", "locks", "anchored"} /\ NoDates /\ NoMoney
     \/ focus = "wallet"     /\ Wallet!Init      /\ NoDates /\ NoCosts
     \/ focus = "csv"        /\ Csv!Init         /\ NoDates /\ NoCosts
     \/ focus = "costs"      /\ Costs!Init       /\ NoDates /\ NoLedger /\ txns = NONE

ServicesNext ==
  /\ UNCHANGED focus
  /\ \/ focus = "recurrence" /\ Recurrence!Next /\ UNCHANGED <<cadenceVars, vars, money>>
     \/ focus = "cadence"    /\ AskNextDay      /\ UNCHANGED <<spec, last, day, vars, money>>
     \/ focus \in {"tree", "locks", "anchored"} /\ Next /\ Scenario' /\ UNCHANGED <<dates, money>>
     \/ focus = "wallet"     /\ Wallet!Next     /\ UNCHANGED <<dates, vars, costs>>
     \/ focus = "csv"        /\ Csv!Next        /\ UNCHANGED <<dates, vars, costs>>
     \/ focus = "costs"      /\ Costs!Next      /\ UNCHANGED <<dates, vars, ledger, txns>>

allVars == <<focus, dates, vars, money>>

ServicesSpec == ServicesInit /\ [][ServicesNext]_allVars
-----------------------------------------------------------------------------
(* The type invariants of the components. *)
ServicesTypeOK == /\ focus = "recurrence" => Recurrence!TypeOK
                  /\ focus = "cadence"    => CadenceTypeOK
                  /\ focus \in {"tree", "locks", "anchored"} => TypeOK
                  /\ focus = "wallet"     => Wallet!TypeOK
                  /\ focus = "csv"        => Csv!TypeOK
                  /\ focus = "costs"      => Costs!TypeOK

(* WeorcRecurrence: nextDueOn finds the one right slot of a fixed grid, and in   *)
(* either mode one that lies after the last finished occurrence. FeohCadence: the  *)
(* projected due dates are the right ones (isProjectedDate). FeohLedger: every page *)
(* of an account's ledger agrees with the full listing (ledger.ts). FeohItemCosts: *)
(* a transaction counts into an asset's costs once (item-costs.ts).               *)
FiguresRight ==
  /\ focus = "recurrence" => Recurrence!FixedIsRightSlot /\ Recurrence!DueAfterLast
  /\ focus = "cadence" => ProjectionRight
  /\ focus = "wallet" => Wallet!PagesAgree
  /\ focus = "csv"    => Csv!PagesAgree
  /\ focus = "costs"  => Costs!CountedOnce

(* FeohLedger: an undisturbed reconciliation leaves the ledger at the count.     *)
ReconcileSquares == [][focus = "wallet" => Wallet!SquaresStep]_allVars
-----------------------------------------------------------------------------
(* FeohLedger: an import that fails has written nothing (service.ts:283-286).   *)
ImportAllOrNothing == focus = "csv" => Csv!ImportAllOrNothing
=============================================================================
