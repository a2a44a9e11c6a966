------------------------------- MODULE FeohBills -------------------------------
(***************************************************************************)
(* Recurring bills and their occurrences: modules/feoh/occurrences.ts, the *)
(* bills of service.ts, and its deleteTransaction as far as it settles     *)
(* occurrences.                                                            *)
(*                                                                         *)
(* A row is kept only for an occurrence somebody touched: linked to a      *)
(* transaction, skipped, or given another amount.  Every call reads first  *)
(* and writes by the row's id later, with other calls in between.  A       *)
(* bill's schedule stands for its nextDue and cadence: it is the set of    *)
(* dates isProjectedDate accepts (FeohCadence).                            *)
(***************************************************************************)
EXTENDS Integers, FiniteSets

CONSTANTS Bills, DueDates, Schedules, Txns,
          Amounts,   \* override amounts
          RowIds,    \* bound: rows of recurring_occurrences
          Procs,     \* requests in flight
          NONE

VARIABLES schedule,  \* recurring_bills: the schedule of each bill there is
          txns,      \* transactions
          occ,       \* recurring_occurrences
          job        \* what each request is doing

vars == <<schedule, txns, occ, job>>
-----------------------------------------------------------------------------
NoJob == [op |-> NONE]

Calls == {"link", "skip", "unlink", "unskip", "override"}

BillRows == DOMAIN schedule
OccRows  == DOMAIN occ

TypeOK ==
  /\ BillRows \subseteq Bills /\ \A b \in BillRows : schedule[b] \in Schedules
  /\ txns \subseteq Txns
  /\ OccRows \subseteq RowIds
  /\ \A r \in OccRows :
       /\ occ[r].bill \in BillRows /\ occ[r].due \in DueDates
       /\ occ[r].txn \in txns \cup {NONE} /\ occ[r].override \in Amounts \cup {NONE}
       /\ ~ (occ[r].txn # NONE /\ occ[r].skipped)
  /\ \A r, s \in OccRows : occ[r].bill = occ[s].bill /\ occ[r].due = occ[s].due => r = s
  /\ \A p \in Procs :
       job[p] = NoJob \/ job[p].pc \in {"bill", "row", "txn", "write", "prune", "drop", "remove"}

Init == /\ schedule = <<>> /\ txns = {} /\ occ = <<>>
        /\ job = [p \in Procs |-> NoJob]
-----------------------------------------------------------------------------
Becomes(p, j) == job' = [job EXCEPT ![p] = j]
Answers(p)    == Becomes(p, NoJob)
GoesTo(p, pc) == Becomes(p, [job[p] EXCEPT !.pc = pc])

At(p, pc) == job[p] # NoJob /\ job[p].pc = pc

RowAt(b, d) == {r \in OccRows : occ[r].bill = b /\ occ[r].due = d}

Untouched(row) == row.txn = NONE /\ ~row.skipped /\ row.override = NONE

Without(ids) == [r \in OccRows \ ids |-> occ[r]]
-----------------------------------------------------------------------------
Request(p, op, b, d, t, a) ==
  /\ job[p] = NoJob
  /\ Becomes(p, [op |-> op, pc |-> "bill", bill |-> b, due |-> d, txn |-> t, amount |-> a,
                 row |-> NONE, settled |-> FALSE, dates |-> {}])
  /\ UNCHANGED <<schedule, txns, occ>>

(* resolveTarget: the bill, then its row. *)
ReadBill(p) ==
  /\ At(p, "bill")
  /\ IF job[p].bill \in BillRows
     THEN Becomes(p, [job[p] EXCEPT !.pc = "row", !.dates = schedule[job[p].bill]])
     ELSE Answers(p)
  /\ UNCHANGED <<schedule, txns, occ>>

(* What the call goes on to once it knows the row, or that there is none. *)
Onward(j, row, settled) ==
  CASE j.op = "link"                              -> "txn"
    [] j.op = "skip" /\ ~settled                  -> "write"
    [] j.op \in {"unlink", "unskip"} /\ row # NONE -> "write"
    [] j.op = "override" /\ (row # NONE \/ j.amount # NONE) -> "write"
    [] OTHER                                      -> "answer"

ReadRow(p) ==
  /\ At(p, "row")
  /\ LET j       == job[p]
         found   == RowAt(j.bill, j.due)
         row     == IF found = {} THEN NONE ELSE CHOOSE r \in found : TRUE
         settled == found # {} /\ (occ[row].txn # NONE \/ occ[row].skipped)
         next    == Onward(j, row, settled)
     IN  IF (found = {} /\ j.due \notin j.dates) \/ next = "answer" THEN Answers(p)
         ELSE Becomes(p, [j EXCEPT !.pc = next, !.row = row, !.settled = settled, !.dates = {}])
  /\ UNCHANGED <<schedule, txns, occ>>

(* linkOccurrence looks the transaction up, then judges the row it read before. *)
ReadTransaction(p) ==
  /\ At(p, "txn")
  /\ IF job[p].txn \in txns /\ ~job[p].settled THEN GoesTo(p, "write") ELSE Answers(p)
  /\ UNCHANGED <<schedule, txns, occ>>

(* The column each call writes; the others keep what they hold by now. *)
Touched(j, row) ==
  CASE j.op = "link"     -> [row EXCEPT !.txn = j.txn]
    [] j.op = "skip"     -> [row EXCEPT !.skipped = TRUE]
    [] j.op = "unlink"   -> [row EXCEPT !.txn = NONE]
    [] j.op = "unskip"   -> [row EXCEPT !.skipped = FALSE]
    [] j.op = "override" -> [row EXCEPT !.override = j.amount]

(* Seeded fault: paid and skipped at once. *)
AcceptedUnchecked(row) == row.txn \in txns \cup {NONE}

(* occurrence_paid_xor_skipped and the foreign key on the transaction. *)
Accepted(row) == ~ (row.txn # NONE /\ row.skipped) /\ row.txn \in txns \cup {NONE}

(* UPDATE by id: nothing happens to a row that is gone, and nobody notices. *)
Update(p) ==
  /\ At(p, "write") /\ job[p].row # NONE
  /\ LET j   == job[p]
         new == Touched(j, occ[j.row])
     IN  IF j.row \in OccRows /\ ~Accepted(new)
         THEN Answers(p) /\ UNCHANGED occ
         ELSE /\ occ' = IF j.row \in OccRows THEN [occ EXCEPT ![j.row] = new] ELSE occ
              /\ IF j.op \in {"link", "skip"} THEN Answers(p) ELSE GoesTo(p, "prune")
  /\ UNCHANGED <<schedule, txns>>

(* INSERT: occurrence_bill_due_unique or a foreign key may object. *)
Insert(p) ==
  /\ At(p, "write") /\ job[p].row = NONE
  /\ LET j   == job[p]
         new == Touched(j, [bill |-> j.bill, due |-> j.due, txn |-> NONE, skipped |-> FALSE,
                            override |-> NONE])
     IN  IF RowAt(j.bill, j.due) # {} \/ j.bill \notin BillRows \/ ~Accepted(new)
         THEN UNCHANGED occ
         ELSE \E r \in RowIds \ OccRows :
                /\ \A q \in Procs : job[q] # NoJob => job[q].row # r
                /\ occ' = [s \in OccRows \cup {r} |-> IF s = r THEN new ELSE occ[s]]
  /\ Answers(p)
  /\ UNCHANGED <<schedule, txns>>

(* Seeded fault: the row goes if it was neither paid nor skipped when it was read. *)
pruneStale(p) == IF job[p].settled THEN {} ELSE {job[p].row}

pruneIfUntouched(p) ==
  LET r == job[p].row IN IF r \in OccRows /\ Untouched(occ[r]) THEN {r} ELSE {}

Prune(p) ==
  /\ At(p, "prune")
  /\ occ' = Without(pruneIfUntouched(p))
  /\ Answers(p)
  /\ UNCHANGED <<schedule, txns>>
-----------------------------------------------------------------------------
RecordTransaction(t) ==
  /\ t \notin txns
  /\ txns' = txns \cup {t}
  /\ UNCHANGED <<schedule, occ, job>>

(* deleteTransaction: the rows it settles are selected, then it is deleted (the *)
(* foreign key empties them) and those rows are pruned, in one transaction.      *)
StartDelete(p, t) ==
  /\ job[p] = NoJob /\ t \in txns
  /\ Becomes(p, [op |-> "deleteTransaction", pc |-> "remove", txn |-> t, row |-> NONE,
                 touched |-> {r \in OccRows : occ[r].txn = t}])
  /\ UNCHANGED <<schedule, txns, occ>>

SetNull(t) == [r \in OccRows |-> IF occ[r].txn = t THEN [occ[r] EXCEPT !.txn = NONE] ELSE occ[r]]

deleteTransaction(p) ==
  /\ At(p, "remove")
  /\ LET t == job[p].txn
         left == SetNull(t)
     IN  IF t \notin txns THEN UNCHANGED <<txns, occ>>
         ELSE /\ txns' = txns \ {t}
              /\ occ' = [r \in OccRows \ {s \in job[p].touched \cap OccRows : Untouched(left[s])}
                          |-> left[r]]
  /\ Answers(p)
  /\ UNCHANGED schedule
-----------------------------------------------------------------------------
createBill(b, s) ==
  /\ b \notin BillRows
  /\ schedule' = [c \in BillRows \cup {b} |-> IF c = b THEN s ELSE schedule[c]]
  /\ UNCHANGED <<txns, occ, job>>

updateBill(b, s) ==
  /\ b \in BillRows
  /\ schedule' = [schedule EXCEPT ![b] = s]
  /\ UNCHANGED <<txns, occ, job>>

(* deleteBill counts the history, then deletes; ON DELETE RESTRICT looks again. *)
StartDeleteBill(p, b) ==
  /\ job[p] = NoJob /\ ~ \E r \in OccRows : occ[r].bill = b
  /\ Becomes(p, [op |-> "deleteBill", pc |-> "drop", bill |-> b, row |-> NONE])
  /\ UNCHANGED <<schedule, txns, occ>>

deleteBill(p) ==
  /\ At(p, "drop")
  /\ schedule' = IF \E r \in OccRows : occ[r].bill = job[p].bill THEN schedule
                 ELSE [c \in BillRows \ {job[p].bill} |-> schedule[c]]
  /\ Answers(p)
  /\ UNCHANGED <<txns, occ>>

(* The process stops: no call goes on, and open transactions roll back. *)
Crash ==
  /\ \E p \in Procs : job[p] # NoJob
  /\ job' = [p \in Procs |-> NoJob]
  /\ UNCHANGED <<schedule, txns, occ>>
-----------------------------------------------------------------------------
(* The calls of routes.ts, with the inputs each takes. *)
Asks(p) ==
  \E b \in Bills :
    \/ \E d \in DueDates :
         \/ \E t \in Txns : Request(p, "link", b, d, t, NONE)
         \/ \E op \in {"skip", "unlink", "unskip"} : Request(p, op, b, d, NONE, NONE)
         \/ \E a \in Amounts \cup {NONE} : Request(p, "override", b, d, NONE, a)
    \/ StartDeleteBill(p, b)

Works(p) ==
  \/ ReadBill(p) \/ ReadRow(p) \/ ReadTransaction(p) \/ Update(p) \/ Insert(p) \/ Prune(p)
  \/ deleteTransaction(p) \/ deleteBill(p)

Next ==
  \/ \E p \in Procs : Asks(p) \/ Works(p) \/ \E t \in Txns : StartDelete(p, t)
  \/ \E t \in Txns : RecordTransaction(t)
  \/ \E b \in Bills, s \in Schedules : createBill(b, s) \/ updateBill(b, s)
  \/ Crash

Spec == Init /\ [][Next]_vars
-----------------------------------------------------------------------------
(* By whom a row changes in a step. *)
By(op, r) == \E p \in Procs : At(p, "write") /\ job[p].op = op /\ job[p].row = r /\ job'[p] # job[p]

Now(r) == IF r \in DOMAIN occ' THEN occ'[r]
          ELSE [txn |-> NONE, skipped |-> FALSE, override |-> NONE]

(* What a member decided about an occurrence ends only by the call that undoes  *)
(* it: an amount by another override, a skip by unskip, a payment by unlink, by  *)
(* another link, or with its transaction -- never by the pruning at the end of   *)
(* another member's call, which writes by an id it read before.                  *)
TouchedStep ==
  \A r \in OccRows :
       /\ occ[r].override # NONE /\ Now(r).override # occ[r].override => By("override", r)
       /\ occ[r].skipped /\ ~Now(r).skipped => By("unskip", r)
       /\ occ[r].txn # NONE /\ Now(r).txn # occ[r].txn =>
            By("unlink", r) \/ By("link", r) \/ occ[r].txn \notin txns'

TouchedKept == [][TouchedStep]_vars
=============================================================================
