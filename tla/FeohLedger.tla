------------------------------ MODULE FeohLedger ------------------------------
(***************************************************************************)
(* Accounts, envelopes and the transactions between them: modules/feoh/    *)
(* service.ts (recordTransaction, deleteTransaction, the CSV import and    *)
(* export, the month's summary) and ledger.ts (an account's ledger, and    *)
(* its reconciliation with a counted balance).                             *)
(*                                                                         *)
(* A posting's net is its debit minus its credit.  A name stands for the   *)
(* row it names.  The import and the reconciliation are steps with other   *)
(* calls in between; every other call is one transaction.                  *)
(***************************************************************************)
EXTENDS Integers, SequencesExt

CONSTANTS Accounts, Envelopes,
          MaxTxns,      \* bound: transactions ever recorded
          Entries,      \* what members record: date and postings
          Files,        \* what members import: sequences of CSV rows
          Openings, Counts,    \* opening balances and counted ones
          LastDay,      \* bound: dates are 1..LastDay
          Procs,        \* requests in flight
          Ops,          \* the calls of an instance
          NONE

VARIABLES accounts, envelopes, txns,   \* the tables; a transaction carries its postings
          created,  \* transactions recorded so far; they are numbered in that order
          today,
          job,      \* what each request is doing
          calm      \* history: nobody else touched the account since the request looked

tables == <<accounts, envelopes, txns, created>>
vars   == <<tables, today, job, calm>>
-----------------------------------------------------------------------------
NoJob       == [op |-> NONE]
AccountRows == DOMAIN accounts
TxnRows     == DOMAIN txns

Posting(a, e, n) == [account |-> a, envelope |-> e, net |-> n]

TypeOK ==
  /\ AccountRows \subseteq Accounts /\ envelopes \subseteq Envelopes
  /\ \A a \in AccountRows : accounts[a].kind \in {"asset", "liability"} /\ accounts[a].opening \in Openings
  /\ created \in 0..MaxTxns /\ TxnRows \subseteq 1..created
  /\ \A t \in TxnRows :
       /\ txns[t].date \in 1..LastDay
       /\ \A i \in DOMAIN txns[t].posts :
            /\ txns[t].posts[i].account \in AccountRows \cup {NONE}
            /\ txns[t].posts[i].envelope \in envelopes \cup {NONE}
  /\ today \in 1..LastDay
  /\ \A p \in Procs :
       job[p] = NoJob \/ job[p].pc \in {"account", "later", "opening", "sum", "book",
                                        "envelopes", "accounts", "record", "failed"}
  /\ calm \in [Procs -> BOOLEAN]

Init ==
  /\ accounts = <<>> /\ envelopes = {} /\ txns = <<>> /\ created = 0
  /\ today = 1
  /\ job = [p \in Procs |-> NoJob] /\ calm = [p \in Procs |-> TRUE]
-----------------------------------------------------------------------------
(* Balances.  What a transaction moves on an account, and the sums over dates. *)
Nets(t, a) == MapThenSumSet(LAMBDA i : txns[t].posts[i].net,
                            {i \in DOMAIN txns[t].posts : txns[t].posts[i].account = a})

On(a) == {t \in TxnRows : \E i \in DOMAIN txns[t].posts : txns[t].posts[i].account = a}

SumThrough(a, d) == MapThenSumSet(LAMBDA t : Nets(t, a), {t \in On(a) : txns[t].date <= d})

Balance(a, d) == (IF a \in AccountRows THEN accounts[a].opening ELSE 0) + SumThrough(a, d)

Earlier(s, t) == txns[s].date < txns[t].date \/ (txns[s].date = txns[t].date /\ s < t)

(* Seeded fault: the running sum starts at the page's first date. *)
RunningFrom(a, t, from) ==
  accounts[a].opening
    + MapThenSumSet(LAMBDA s : Nets(s, a), {s \in On(a) : ~Earlier(t, s) /\ txns[s].date >= from})

(* The window function: over the account's whole history, whatever the page. *)
Running(a, t, from) ==
  accounts[a].opening + MapThenSumSet(LAMBDA s : Nets(s, a), {s \in On(a) : ~Earlier(t, s)})

(* getAccountLedger: the rows between two dates, one page of them, and the totals. *)
getAccountLedger(a, from, to, limit, offset) ==
  LET rows == SetToSortSeq({t \in On(a) : from <= txns[t].date /\ txns[t].date <= to}, Earlier)
      last == IF offset + limit < Len(rows) THEN offset + limit ELSE Len(rows)
      page == SubSeq(rows, offset + 1, last)
  IN  [entries    |-> [i \in DOMAIN page |-> [id |-> page[i], balance |-> Running(a, page[i], from)]],
       total      |-> Len(rows),
       endBalance |-> accounts[a].opening + SumThrough(a, to)]
-----------------------------------------------------------------------------
Becomes(p, j) == job' = [job EXCEPT ![p] = j]
Answers(p)    == Becomes(p, NoJob)
GoesTo(p, pc) == Becomes(p, [job[p] EXCEPT !.pc = pc])
At(p, pc)     == job[p] # NoJob /\ job[p].pc = pc

Balanced(posts) == MapThenSumSet(LAMBDA i : posts[i].net, DOMAIN posts) = 0
Orphaned(posts) == \E i \in DOMAIN posts : posts[i].account = NONE /\ posts[i].envelope = NONE

(* The foreign keys of postings. *)
Referable(posts) == \A i \in DOMAIN posts : /\ posts[i].account \in AccountRows \cup {NONE}
                                            /\ posts[i].envelope \in envelopes \cup {NONE}

Recordable(posts) == Balanced(posts) /\ ~Orphaned(posts) /\ Referable(posts)

recordTransaction(date, posts) ==
  /\ created < MaxTxns
  /\ created' = created + 1
  /\ txns' = [t \in TxnRows \cup {created'} |->
                IF t = created' THEN [date |-> date, posts |-> posts] ELSE txns[t]]

Record(e) ==
  /\ Recordable(e.posts)
  /\ recordTransaction(e.date, e.posts)
  /\ UNCHANGED <<accounts, envelopes, today, job>>

deleteTransaction(t) ==
  /\ t \in TxnRows
  /\ txns' = [s \in TxnRows \ {t} |-> txns[s]]
  /\ UNCHANGED <<accounts, envelopes, created, today, job>>

createAccount(a, kind, opening) ==
  /\ a \notin AccountRows
  /\ accounts' = [b \in AccountRows \cup {a} |->
                    IF b = a THEN [kind |-> kind, opening |-> opening] ELSE accounts[b]]
  /\ UNCHANGED <<envelopes, txns, created, today, job>>

updateAccount(a, kind, opening) ==
  /\ a \in AccountRows
  /\ accounts' = [accounts EXCEPT ![a] = [kind |-> kind, opening |-> opening]]
  /\ UNCHANGED <<envelopes, txns, created, today, job>>

(* ON DELETE SET NULL: the postings stay, and name nothing any more. *)
Forget(id) ==
  [t \in TxnRows |->
    [txns[t] EXCEPT !.posts =
      [i \in DOMAIN txns[t].posts |->
        LET q == txns[t].posts[i]
        IN  Posting(IF q.account = id THEN NONE ELSE q.account,
                    IF q.envelope = id THEN NONE ELSE q.envelope, q.net)]]]

deleteAccount(a) ==
  /\ a \in AccountRows
  /\ accounts' = [b \in AccountRows \ {a} |-> accounts[b]]
  /\ txns' = Forget(a)
  /\ UNCHANGED <<envelopes, created, today, job>>

createEnvelope(e) ==
  /\ envelopes' = envelopes \cup {e}
  /\ UNCHANGED <<accounts, txns, created, today, job>>

deleteEnvelope(e) ==
  /\ e \in envelopes
  /\ envelopes' = envelopes \ {e}
  /\ txns' = Forget(e)
  /\ UNCHANGED <<accounts, created, today, job>>
-----------------------------------------------------------------------------
(* reconcileAccount, a query at a time. *)
StartReconcile(p, a, counted, date, e) ==
  /\ job[p] = NoJob
  /\ Becomes(p, [op |-> "reconcile", pc |-> "account", account |-> a, counted |-> counted,
                 date |-> date, envelope |-> e, today |-> NONE, balance |-> 0])
  /\ UNCHANGED <<tables, today>>

ReadAccount(p) ==
  /\ At(p, "account")
  /\ LET a == job[p].account
     IN  IF a \in AccountRows /\ accounts[a].kind = "asset" /\ job[p].date <= today
         THEN Becomes(p, [job[p] EXCEPT !.pc = "later", !.today = today])
         ELSE Answers(p)
  /\ UNCHANGED <<tables, today>>

(* Seeded fault: what was booked today does not count as later. *)
LaterBeforeToday(j) == \E t \in On(j.account) : j.date < txns[t].date /\ txns[t].date < j.today

LaterExist(j) == \E t \in On(j.account) : j.date < txns[t].date /\ txns[t].date <= j.today

CheckLater(p) ==
  /\ At(p, "later")
  /\ IF LaterExist(job[p]) THEN Answers(p) ELSE GoesTo(p, "opening")
  /\ UNCHANGED <<tables, today>>

(* ledgerBalanceCents reads the account once more, then the sum. *)
ReadOpening(p) ==
  /\ At(p, "opening")
  /\ IF job[p].account \in AccountRows
     THEN Becomes(p, [job[p] EXCEPT !.pc = "sum", !.balance = accounts[job[p].account].opening])
     ELSE Answers(p)
  /\ UNCHANGED <<tables, today>>

ReadSum(p) ==
  /\ At(p, "sum")
  /\ Becomes(p, [job[p] EXCEPT !.pc = "book", !.balance = @ + SumThrough(job[p].account, job[p].date)])
  /\ UNCHANGED <<tables, today>>

Difference(j) == j.counted - j.balance

Adjustment(j) == << Posting(j.account, NONE, Difference(j)), Posting(NONE, j.envelope, -Difference(j)) >>

BookDifference(p) ==
  /\ At(p, "book")
  /\ IF Difference(job[p]) # 0 /\ Recordable(Adjustment(job[p]))
     THEN recordTransaction(job[p].date, Adjustment(job[p])) ELSE UNCHANGED <<txns, created>>
  /\ Answers(p)
  /\ UNCHANGED <<accounts, envelopes, today>>
-----------------------------------------------------------------------------
(* exportTransactionsCsv: a row for each envelope posting, else one for the *)
(* transaction, with the first account it names.                            *)
Row(d, e, a, n) == [valid |-> TRUE, date |-> d, envelope |-> e, account |-> a, amount |-> n]

FirstOf(S, none) == IF S = {} THEN none ELSE CHOOSE i \in S : \A k \in S : i <= k

RowsOf(t) ==
  LET posts   == txns[t].posts
      toEnv   == {i \in DOMAIN posts : posts[i].envelope # NONE}
      first   == FirstOf({i \in DOMAIN posts : posts[i].account # NONE}, 0)
      account == IF first = 0 THEN NONE ELSE posts[first].account
      debit(i) == IF posts[i].net > 0 THEN posts[i].net ELSE 0
  IN  IF toEnv = {} THEN << Row(txns[t].date, NONE, account, txns[t].posts[1].net) >>
      ELSE [k \in 1..Cardinality(toEnv) |->
              LET i == SetToSortSeq(toEnv, <)[k]
              IN  Row(txns[t].date, posts[i].envelope, account, debit(i))]

exportTransactionsCsv == FlattenSeq([k \in 1..Cardinality(TxnRows) |-> RowsOf(SetToSortSeq(TxnRows, Earlier)[k])])

(* importTransactionsCsv: the names are read, every row is validated, and then *)
(* each row is recorded in a transaction of its own.                           *)
StartImport(p, file) ==
  /\ job[p] = NoJob /\ file # <<>>
  /\ Becomes(p, [op |-> "import", pc |-> "envelopes", rows |-> file, imported |-> 0, known |-> {}])
  /\ UNCHANGED <<tables, today>>

ReadEnvelopes(p) ==
  /\ At(p, "envelopes")
  /\ Becomes(p, [job[p] EXCEPT !.pc = "accounts", !.known = envelopes])
  /\ UNCHANGED <<tables, today>>

ValidRow(r, envs) ==
  /\ r.valid                               \* a real date, a finite amount
  /\ r.envelope \in envs \cup {NONE}
  /\ r.account \in AccountRows \cup {NONE}
  /\ r.envelope # NONE \/ r.account # NONE

Validate(p) ==
  /\ At(p, "accounts")
  /\ IF \A i \in DOMAIN job[p].rows : ValidRow(job[p].rows[i], job[p].known)
     THEN Becomes(p, [job[p] EXCEPT !.pc = "record", !.known = {}]) ELSE Answers(p)
  /\ UNCHANGED <<tables, today>>

PostingsOf(r) == << Posting(NONE, r.envelope, r.amount), Posting(r.account, NONE, -r.amount) >>

ImportRow(p) ==
  /\ At(p, "record") /\ job[p].imported < Len(job[p].rows)
  /\ LET r == job[p].rows[job[p].imported + 1]
     IN  IF Recordable(PostingsOf(r))
         THEN /\ recordTransaction(r.date, PostingsOf(r))
              /\ Becomes(p, [job[p] EXCEPT !.imported = @ + 1])
         ELSE GoesTo(p, "failed") /\ UNCHANGED <<txns, created>>
  /\ UNCHANGED <<accounts, envelopes, today>>

ImportEnds(p) ==
  /\ At(p, "failed") \/ (At(p, "record") /\ job[p].imported = Len(job[p].rows))
  /\ Answers(p)
  /\ UNCHANGED <<tables, today>>
-----------------------------------------------------------------------------
DayPasses == today < LastDay /\ today' = today + 1 /\ UNCHANGED <<tables, job>>

Crash == /\ \E p \in Procs : job[p] # NoJob
         /\ job' = [p \in Procs |-> NoJob]
         /\ UNCHANGED <<tables, today>>

Reconcile(p) ==
  \/ \E a \in Accounts, n \in Counts, d \in 1..LastDay, e \in Envelopes : StartReconcile(p, a, n, d, e)
  \/ ReadAccount(p) \/ CheckLater(p) \/ ReadOpening(p) \/ ReadSum(p) \/ BookDifference(p)

Import(p) ==
  \/ \E f \in Files \cup {exportTransactionsCsv} : StartImport(p, f)
  \/ ReadEnvelopes(p) \/ Validate(p) \/ ImportRow(p) \/ ImportEnds(p)

EditAccounts(a) ==
  \/ "deleteAccount" \in Ops /\ deleteAccount(a)
  \/ \E kind \in {"asset", "liability"}, o \in Openings : createAccount(a, kind, o) \/ updateAccount(a, kind, o)

Steps ==
  \/ \E p \in Procs : \/ "reconcile" \in Ops /\ Reconcile(p)
                      \/ "import" \in Ops /\ Import(p)
  \/ \E e \in Entries : Record(e)
  \/ \E t \in 1..MaxTxns : "deleteTransaction" \in Ops /\ deleteTransaction(t)
  \/ \E a \in Accounts : EditAccounts(a)
  \/ \E e \in Envelopes : createEnvelope(e) \/ ("deleteEnvelope" \in Ops /\ deleteEnvelope(e))
  \/ DayPasses
  \/ Crash

(* The wallet as a reconciliation sees it: through its date, and through its today. *)
Wallet(j) == << j.account \in AccountRows, Balance(j.account, j.date), Balance(j.account, j.today) >>

Looking(j) == j # NoJob /\ j.op = "reconcile" /\ j.pc \in {"opening", "sum", "book"}

Next ==
  /\ Steps
  /\ calm' = [p \in Procs |-> Looking(job'[p]) /\ Looking(job[p]) =>
                                calm[p] /\ Wallet(job[p])' = Wallet(job[p])]

Spec == Init /\ [][Next]_vars
-----------------------------------------------------------------------------
(* After a reconciliation that nobody disturbed, the ledger says what was       *)
(* counted: through the date of the count and through the day it was entered,    *)
(* shortage and surplus alike ("so a cash account can be squared to what's       *)
(* actually in the wallet").                                                     *)
SquaresStep ==
  \A p \in Procs : \A j \in {job[p]} :
       /\ At(p, "book") /\ job'[p] = NoJob /\ calm[p]
       /\ Difference(j) # 0 => txns' # txns
       => Balance(j.account, j.date)' = j.counted /\ Balance(j.account, j.today)' = j.counted

ReconcileSquares == [][SquaresStep]_vars

(* Whatever page and dates are asked for, each line's balance is the one the    *)
(* full listing shows for it, and a listing through a date ends in the balance   *)
(* that reconciliation reads ("so that page N's balances agree with what the     *)
(* full listing would have shown").                                              *)
PagesAgree ==
  \A a \in AccountRows :
    LET full == getAccountLedger(a, 1, LastDay, MaxTxns, 0).entries
    IN  \A from \in 1..LastDay, to \in 1..LastDay, offset \in 0..MaxTxns :
          LET page == getAccountLedger(a, from, to, 1, offset)
          IN  /\ \A i \in DOMAIN page.entries : page.entries[i] \in Range(full)
              /\ page.endBalance = Balance(a, to)
              /\ (offset = page.total - 1) => page.entries[1].balance = page.endBalance

(* An import that fails has written nothing ("throwing before writing anything, *)
(* so a bad row never leaves a partial import committed", service.ts:283-286).  *)
ImportAllOrNothing == \A p \in Procs : At(p, "failed") => job[p].imported = 0
=============================================================================
