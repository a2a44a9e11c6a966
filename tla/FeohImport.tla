------------------------------ MODULE FeohImport ------------------------------
(***************************************************************************)
(* Feoh's bank inbox: src/modules/feoh/import/service.ts with the matcher  *)
(* of rules.ts, and what feoh/service.ts takes away from under it:         *)
(* deleteTransaction, deleteEnvelope and deleteAccount.                    *)
(*                                                                         *)
(* Every piece of work that awaits between two database statements is a    *)
(* process: a page of a tick or a hand-typed line being ingested, a        *)
(* member's confirm, and the re-evaluation of the pending lines that a     *)
(* rule or mapping change starts.  A step of a process is what it does     *)
(* between two awaits; other processes run in between and find its earlier *)
(* statements committed, except inside bookRow, which is one database      *)
(* transaction holding the row's lock.                                     *)
(*                                                                         *)
(* Amounts, dates and memos are left out: a line is its source_id, and a   *)
(* ledger transaction remembers the line it books, the envelope and the    *)
(* account its two postings name.  Every envelope and account exists at    *)
(* the start: creating a fresh one changes no row here.                    *)
(***************************************************************************)
EXTENDS Naturals, FiniteSets

CONSTANTS Procs,        \* units of concurrent work: ticks and requests
          Lines,        \* bank lines, named by source_id
          Sources,      \* source accounts at the bank side
          Accounts,     \* Feoh accounts
          Envelopes,    \* Feoh envelopes
          Patterns,     \* payee patterns a rule can carry
          RuleIds,      \* rule identities, compared by matchRule
          Priorities,   \* rule priorities
          Txns,         \* ledger transaction identities
          SourceOf,     \* SourceOf[l]: the source account of line l
          Foreign,      \* the lines not in the household's currency
          Hits,         \* Hits[q]: the lines whose payee contains pattern q
          Ops,          \* the operations an instance allows (a bound)
          NONE          \* SQL NULL / no row

Row   == [status   : {"absent", "pending", "booked", "dismissed"},
          txn      : Txns \cup {NONE},
          rule     : RuleIds \cup {NONE},
          envelope : Envelopes \cup {NONE}]
Rule  == [pattern : Patterns, envelope : Envelopes, priority : Priorities, enabled : BOOLEAN]
Entry == [line : Lines, envelope : Envelopes \cup {NONE}, account : Accounts \cup {NONE}]

ASSUME ImportAssumption ==
  /\ SourceOf \in [Lines -> Sources]
  /\ Foreign \subseteq Lines
  /\ Hits \in [Patterns -> SUBSET Lines]
  /\ RuleIds \subseteq Nat
  /\ Priorities \subseteq Nat
  /\ NONE \notin Procs \cup Lines \cup Accounts \cup Envelopes \cup RuleIds \cup Txns
  /\ NONE \notin Rule \cup Entry

VARIABLES inbox,     \* feoh_imported_transactions, one row per source_id
          ledger,    \* the transactions bookRow wrote
          rules,     \* feoh_import_rules
          issued,    \* rule ids handed out so far: an id is never used again
          mapping,   \* feoh_import_accounts
          envelopes, \* feoh_envelopes
          accounts,  \* feoh_accounts
          rowLock,   \* rowLock[l]: the process holding l's row FOR UPDATE
          pc, job    \* where each process is, and what it has read so far

chart == <<envelopes, accounts>>
vars  == <<inbox, ledger, rules, issued, mapping, chart, rowLock, pc, job>>
-----------------------------------------------------------------------------
AbsentRow == [status |-> "absent", txn |-> NONE, rule |-> NONE, envelope |-> NONE]
NoRules   == [r \in RuleIds |-> NONE]
NoMapping == [s \in Sources |-> NONE]

Tables == {"pending", "mapping", "rules"}

Job == [kind     : {"none", "ingest", "reapply", "confirm"},
        items    : SUBSET Lines,
        todo     : SUBSET Lines,
        known    : SUBSET Lines,
        unread   : SUBSET Tables,
        mapping  : [Sources -> Accounts \cup {NONE}],
        rules    : [RuleIds -> Rule \cup {NONE}],
        line     : Lines \cup {NONE},
        envelope : Envelopes \cup {NONE},
        account  : Accounts \cup {NONE},
        rule     : RuleIds \cup {NONE}]

NoJob == [kind |-> "none", items |-> {}, todo |-> {}, known |-> {}, unread |-> {},
          mapping |-> NoMapping, rules |-> NoRules,
          line |-> NONE, envelope |-> NONE, account |-> NONE, rule |-> NONE]

Types ==
  /\ inbox   \in [Lines -> Row]
  /\ ledger  \in [Txns -> Entry \cup {NONE}]
  /\ rules   \in [RuleIds -> Rule \cup {NONE}]
  /\ issued  \subseteq RuleIds
  /\ mapping \in [Sources -> Accounts \cup {NONE}]
  /\ envelopes \subseteq Envelopes
  /\ accounts  \subseteq Accounts
  /\ rowLock \in [Lines -> Procs \cup {NONE}]
  /\ pc  \in [Procs -> {"idle", "known", "reading", "line", "mapped", "lock", "booking"}]
  /\ job \in [Procs -> Job]

(* What bookRow is called with: a line in the household's currency, an envelope *)
(* and, once it is looked up, an account, none of them missing.                 *)
TargetKnown ==
  \A p \in Procs :
     /\ pc[p] \in {"mapped", "lock", "booking"} =>
          job[p].line \in Lines \ Foreign /\ job[p].envelope \in Envelopes
     /\ pc[p] \in {"lock", "booking"} => job[p].account \in Accounts

TypeOK == Types /\ TargetKnown

Init ==
  /\ inbox   = [l \in Lines |-> AbsentRow]
  /\ ledger  = [t \in Txns |-> NONE]
  /\ rules   = NoRules
  /\ issued  = {}
  /\ mapping = NoMapping
  /\ envelopes = Envelopes
  /\ accounts  = Accounts
  /\ rowLock = [l \in Lines |-> NONE]
  /\ pc      = [p \in Procs |-> "idle"]
  /\ job     = [p \in Procs |-> NoJob]
-----------------------------------------------------------------------------
(* rules.ts: the first enabled hit in (priority, id) order, as a set of at most one. *)
Before(rs, r, s) == \/ rs[r].priority < rs[s].priority
                    \/ rs[r].priority = rs[s].priority /\ r <= s

Matching(rs, l) == {r \in RuleIds : rs[r] # NONE /\ rs[r].enabled /\ l \in Hits[rs[r].pattern]}

MatchRule(rs, l) == {r \in Matching(rs, l) : \A s \in Matching(rs, l) : Before(rs, r, s)}

(* The auto-booking test of ingest and reapplyRulesToPending: the rule that     *)
(* books line l, as a set that is empty when none does.                         *)
AutoRule(ms, rs, l) ==
  IF l \in Foreign \/ ms[SourceOf[l]] = NONE THEN {} ELSE MatchRule(rs, l)

Idle(p) == /\ pc'  = [pc EXCEPT ![p] = "idle"]
           /\ job' = [job EXCEPT ![p] = NoJob]

(* ingest / reapplyRulesToPending go on with line l: bookRow is called if the *)
(* process's own copy of the rules hits, the next line is taken if not.       *)
TryBook(p, l) ==
  LET hit == AutoRule(job[p].mapping, job[p].rules, l)
  IN  \/ /\ hit = {}
         /\ job' = [job EXCEPT ![p].todo = @ \ {l}]
         /\ UNCHANGED pc
      \/ \E r \in hit :
         /\ job' = [job EXCEPT ![p] = [job[p] EXCEPT !.todo = job[p].todo \ {l}, !.line = l, !.rule = r,
                       !.envelope = job[p].rules[r].envelope,
                       !.account = job[p].mapping[SourceOf[l]]]]
         /\ pc' = [pc EXCEPT ![p] = "lock"]
-----------------------------------------------------------------------------
(* ingest *)
StartIngest(p, items) ==
  /\ "ingest" \in Ops
  /\ pc[p] = "idle" /\ items # {}
  /\ pc'  = [pc EXCEPT ![p] = "known"]
  /\ job' = [job EXCEPT ![p] = [NoJob EXCEPT !.kind = "ingest", !.items = items, !.todo = items]]
  /\ UNCHANGED <<inbox, ledger, rules, issued, mapping, chart, rowLock>>

ReadKnown(p) ==
  /\ pc[p] = "known"
  /\ pc'  = [pc EXCEPT ![p] = "reading"]
  /\ job' = [job EXCEPT ![p] = [job[p] EXCEPT
                !.known = {l \in job[p].todo : inbox[l].status # "absent"},
                !.unread = {"mapping", "rules"}]]
  /\ UNCHANGED <<inbox, ledger, rules, issued, mapping, chart, rowLock>>

(* The queries of one Promise.all run on their own connections, in any order. *)
Read(p, t) ==
  /\ pc[p] = "reading" /\ t \in job[p].unread
  /\ job' = [job EXCEPT ![p] =
       [job[p] EXCEPT
          !.unread  = job[p].unread \ {t},
          !.todo    = IF t = "pending" THEN {l \in Lines : inbox[l].status = "pending"}
                                       ELSE job[p].todo,
          !.mapping = IF t = "mapping" THEN mapping ELSE job[p].mapping,
          !.rules   = IF t = "rules" THEN rules ELSE job[p].rules]]
  /\ pc' = [pc EXCEPT ![p] = IF job[p].unread = {t} THEN "line" ELSE "reading"]
  /\ UNCHANGED <<inbox, ledger, rules, issued, mapping, chart, rowLock>>

IngestSkip(p, l) ==
  /\ pc[p] = "line" /\ job[p].kind = "ingest" /\ l \in job[p].todo
  /\ l \in job[p].known \/ inbox[l].status # "absent"
  /\ job' = [job EXCEPT ![p].todo = @ \ {l}]
  /\ UNCHANGED <<inbox, ledger, rules, issued, mapping, chart, rowLock, pc>>

IngestInsert(p, l) ==
  /\ pc[p] = "line" /\ job[p].kind = "ingest" /\ l \in job[p].todo
  /\ l \notin job[p].known /\ inbox[l].status = "absent"
  /\ inbox' = [inbox EXCEPT ![l] = [AbsentRow EXCEPT !.status = "pending"]]
  /\ TryBook(p, l)
  /\ UNCHANGED <<ledger, rules, issued, mapping, chart, rowLock>>

(* reapplyRulesToPending *)
StartReapply(p) ==
  /\ pc'  = [pc EXCEPT ![p] = "reading"]
  /\ job' = [job EXCEPT ![p] = [NoJob EXCEPT !.kind = "reapply", !.unread = Tables]]

ReapplyLine(p, l) ==
  /\ pc[p] = "line" /\ job[p].kind = "reapply" /\ l \in job[p].todo
  /\ TryBook(p, l)
  /\ UNCHANGED <<inbox, ledger, rules, issued, mapping, chart, rowLock>>

LoopDone(p) ==
  /\ pc[p] = "line" /\ job[p].todo = {}
  /\ Idle(p)
  /\ UNCHANGED <<inbox, ledger, rules, issued, mapping, chart, rowLock>>
-----------------------------------------------------------------------------
LiveRules == {r \in RuleIds : rules[r] # NONE}

(* bookRow: SELECT .. FOR UPDATE, re-check, write the ledger, mark, commit. *)
Resume(p) ==
  IF job[p].kind = "confirm"
  THEN Idle(p)
  ELSE /\ pc'  = [pc EXCEPT ![p] = "line"]
       /\ job' = [job EXCEPT ![p] = [job[p] EXCEPT !.line = NONE, !.rule = NONE,
                                              !.envelope = NONE, !.account = NONE]]

(* Seeded fault: no re-check of the status under the row lock. *)
BookLockUnchecked(p) ==
  /\ pc[p] = "lock" /\ rowLock[job[p].line] = NONE
  /\ rowLock' = [rowLock EXCEPT ![job[p].line] = p]
  /\ pc' = [pc EXCEPT ![p] = "booking"]
  /\ UNCHANGED <<inbox, ledger, rules, issued, mapping, chart, job>>

BookLock(p) ==
  /\ pc[p] = "lock" /\ rowLock[job[p].line] = NONE
  /\ inbox[job[p].line].status = "pending"
  /\ rowLock' = [rowLock EXCEPT ![job[p].line] = p]
  /\ pc' = [pc EXCEPT ![p] = "booking"]
  /\ UNCHANGED <<inbox, ledger, rules, issued, mapping, chart, job>>

BookLost(p) ==
  /\ pc[p] = "lock" /\ rowLock[job[p].line] = NONE
  /\ inbox[job[p].line].status # "pending"
  /\ Resume(p)
  /\ UNCHANGED <<inbox, ledger, rules, issued, mapping, chart, rowLock>>

(* The foreign keys of the rows a booking writes: NULL, or a row that exists. *)
ReferencesLive(j) == /\ j.rule     \in LiveRules \cup {NONE}
                     /\ j.envelope \in envelopes \cup {NONE}
                     /\ j.account  \in accounts \cup {NONE}

BookCommit(p, t) ==
  LET l == job[p].line
  IN  /\ pc[p] = "booking" /\ ledger[t] = NONE
      /\ ReferencesLive(job[p])
      /\ ledger' = [ledger EXCEPT ![t] =
                      [line |-> l, envelope |-> job[p].envelope, account |-> job[p].account]]
      /\ inbox'  = [inbox EXCEPT ![l] = [status |-> "booked", txn |-> t,
                      rule |-> job[p].rule, envelope |-> job[p].envelope]]
      /\ rowLock' = [rowLock EXCEPT ![l] = NONE]
      /\ Resume(p)
      /\ UNCHANGED <<rules, issued, mapping, chart>>

(* The rule, the envelope or the account was deleted since the process read    *)
(* it: a foreign key refuses the row, the transaction rolls back, and the      *)
(* error ends the request or the whole loop it was called from.                *)
BookAbort(p) ==
  /\ pc[p] = "booking"
  /\ ~ReferencesLive(job[p])
  /\ rowLock' = [rowLock EXCEPT ![job[p].line] = NONE]
  /\ Idle(p)
  /\ UNCHANGED <<inbox, ledger, rules, issued, mapping, chart>>
-----------------------------------------------------------------------------
(* A member's requests *)
(* Seeded fault: a confirm does not look at the line's currency. *)
ConfirmAnyCurrency(p, l, e, a) ==
  /\ "confirm" \in Ops
  /\ pc[p] = "idle" /\ inbox[l].status = "pending"
  /\ pc'  = [pc EXCEPT ![p] = IF a = NONE THEN "mapped" ELSE "lock"]
  /\ job' = [job EXCEPT ![p] = [NoJob EXCEPT !.kind = "confirm", !.line = l,
                                             !.envelope = e, !.account = a]]
  /\ UNCHANGED <<inbox, ledger, rules, issued, mapping, chart, rowLock>>

Confirm(p, l, e, a) ==
  /\ "confirm" \in Ops
  /\ pc[p] = "idle"
  /\ inbox[l].status = "pending" /\ l \notin Foreign
  /\ pc'  = [pc EXCEPT ![p] = IF a = NONE THEN "mapped" ELSE "lock"]
  /\ job' = [job EXCEPT ![p] = [NoJob EXCEPT !.kind = "confirm", !.line = l,
                                             !.envelope = e, !.account = a]]
  /\ UNCHANGED <<inbox, ledger, rules, issued, mapping, chart, rowLock>>

(* Seeded fault: an unmapped source account is taken for a mapped one. *)
ConfirmUnmapped(p) ==
  /\ pc[p] = "mapped"
  /\ pc'  = [pc EXCEPT ![p] = "lock"]
  /\ job' = [job EXCEPT ![p].account = mapping[SourceOf[job[p].line]]]
  /\ UNCHANGED <<inbox, ledger, rules, issued, mapping, chart, rowLock>>

ConfirmMapped(p) ==
  LET a == mapping[SourceOf[job[p].line]]
  IN  /\ pc[p] = "mapped"
      /\ IF a = NONE
         THEN Idle(p)
         ELSE /\ pc'  = [pc EXCEPT ![p] = "lock"]
              /\ job' = [job EXCEPT ![p].account = a]
      /\ UNCHANGED <<inbox, ledger, rules, issued, mapping, chart, rowLock>>

(* Seeded fault: a dismissal by id alone, without the status condition. *)
DismissById(l) ==
  /\ "dismiss" \in Ops
  /\ rowLock[l] = NONE
  /\ inbox[l].status # "absent"
  /\ inbox' = [inbox EXCEPT ![l].status = "dismissed"]
  /\ UNCHANGED <<ledger, rules, issued, mapping, chart, rowLock, pc, job>>

(* Seeded fault: a dismissal that does not wait for the row lock. *)
DismissUnlocked(l) ==
  /\ "dismiss" \in Ops
  /\ inbox[l].status = "pending"
  /\ inbox' = [inbox EXCEPT ![l].status = "dismissed"]
  /\ UNCHANGED <<ledger, rules, issued, mapping, chart, rowLock, pc, job>>

Dismiss(l) ==
  /\ "dismiss" \in Ops
  /\ rowLock[l] = NONE
  /\ inbox[l].status = "pending"
  /\ inbox' = [inbox EXCEPT ![l].status = "dismissed"]
  /\ UNCHANGED <<ledger, rules, issued, mapping, chart, rowLock, pc, job>>

(* Seeded fault: the ledger row goes and its inbox row stays booked. *)
DeleteTransactionOnly(t) ==
  /\ "deleteTransaction" \in Ops
  /\ ledger[t] # NONE
  /\ ledger' = [ledger EXCEPT ![t] = NONE]
  /\ UNCHANGED <<inbox, rules, issued, mapping, chart, rowLock, pc, job>>

(* deleteTransaction: revertBookedRows and the DELETE commit together. *)
DeleteTransaction(t) ==
  LET reverted == {l \in Lines : inbox[l].txn = t /\ inbox[l].status = "booked"}
  IN  /\ "deleteTransaction" \in Ops
      /\ ledger[t] # NONE
      /\ \A l \in reverted : rowLock[l] = NONE
      /\ inbox'  = [l \in Lines |-> IF l \in reverted
                                    THEN [AbsentRow EXCEPT !.status = "pending"] ELSE inbox[l]]
      /\ ledger' = [ledger EXCEPT ![t] = NONE]
      /\ UNCHANGED <<rules, issued, mapping, chart, rowLock, pc, job>>

CreateRule(p, r, rule) ==
  /\ "createRule" \in Ops
  /\ pc[p] = "idle" /\ r \notin issued /\ rule.envelope \in envelopes
  /\ rules'  = [rules EXCEPT ![r] = rule]
  /\ issued' = issued \cup {r}
  /\ StartReapply(p)
  /\ UNCHANGED <<inbox, ledger, mapping, chart, rowLock>>

UpdateRule(p, r, rule) ==
  /\ "updateRule" \in Ops
  /\ pc[p] = "idle" /\ rules[r] # NONE /\ rule.envelope \in envelopes
  /\ rules' = [rules EXCEPT ![r] = rule]
  /\ StartReapply(p)
  /\ UNCHANGED <<inbox, ledger, issued, mapping, chart, rowLock>>

DeleteRule(r) ==
  /\ "deleteRule" \in Ops
  /\ rules[r] # NONE
  /\ rules' = [rules EXCEPT ![r] = NONE]
  /\ inbox' = [l \in Lines |-> IF inbox[l].rule = r
                               THEN [inbox[l] EXCEPT !.rule = NONE] ELSE inbox[l]]
  /\ UNCHANGED <<ledger, issued, mapping, chart, rowLock, pc, job>>

UpsertMapping(p, s, a) ==
  /\ "upsertMapping" \in Ops
  /\ pc[p] = "idle" /\ a \in accounts
  /\ mapping' = [mapping EXCEPT ![s] = a]
  /\ StartReapply(p)
  /\ UNCHANGED <<inbox, ledger, rules, issued, chart, rowLock>>

DeleteMapping(s) ==
  /\ "deleteMapping" \in Ops
  /\ mapping[s] # NONE
  /\ mapping' = [mapping EXCEPT ![s] = NONE]
  /\ UNCHANGED <<inbox, ledger, rules, issued, chart, rowLock, pc, job>>

(* ON DELETE SET NULL on the inbox and on the postings, RESTRICT on the rules:  *)
(* a booked line keeps its transaction and loses the envelope it names.        *)
DeleteEnvelope(e) ==
  /\ "deleteEnvelope" \in Ops
  /\ e \in envelopes /\ \A r \in LiveRules : rules[r].envelope # e
  /\ envelopes' = envelopes \ {e}
  /\ inbox'  = [l \in Lines |-> IF inbox[l].envelope = e
                                THEN [inbox[l] EXCEPT !.envelope = NONE] ELSE inbox[l]]
  /\ ledger' = [t \in Txns |-> IF ledger[t] # NONE /\ ledger[t].envelope = e
                               THEN [ledger[t] EXCEPT !.envelope = NONE] ELSE ledger[t]]
  /\ UNCHANGED <<rules, issued, mapping, accounts, rowLock, pc, job>>

(* SET NULL on the postings, RESTRICT on the account mappings. *)
DeleteAccount(a) ==
  /\ "deleteAccount" \in Ops
  /\ a \in accounts /\ \A s \in Sources : mapping[s] # a
  /\ accounts' = accounts \ {a}
  /\ ledger' = [t \in Txns |-> IF ledger[t] # NONE /\ ledger[t].account = a
                               THEN [ledger[t] EXCEPT !.account = NONE] ELSE ledger[t]]
  /\ UNCHANGED <<inbox, rules, issued, mapping, envelopes, rowLock, pc, job>>

(* The process stops: open transactions roll back, nothing in memory survives. *)
Crash ==
  /\ "crash" \in Ops
  /\ \E p \in Procs : pc[p] # "idle"
  /\ pc'  = [p \in Procs |-> "idle"]
  /\ job' = [p \in Procs |-> NoJob]
  /\ rowLock' = [l \in Lines |-> NONE]
  /\ UNCHANGED <<inbox, ledger, rules, issued, mapping, chart>>
-----------------------------------------------------------------------------
(* What a process does once started, and what may be asked of the system. *)
Work(p) ==
  \/ ReadKnown(p)
  \/ \E t \in Tables : Read(p, t)
  \/ \E l \in Lines : IngestSkip(p, l) \/ IngestInsert(p, l) \/ ReapplyLine(p, l)
  \/ LoopDone(p)
  \/ BookLock(p) \/ BookLost(p) \/ BookAbort(p)
  \/ \E t \in Txns : BookCommit(p, t)
  \/ ConfirmMapped(p)

Ask(p) ==
  \/ \E items \in SUBSET Lines : StartIngest(p, items)
  \/ \E l \in Lines, e \in Envelopes, a \in Accounts \cup {NONE} : Confirm(p, l, e, a)
  \/ \E r \in RuleIds, rule \in Rule : CreateRule(p, r, rule) \/ UpdateRule(p, r, rule)
  \/ \E s \in Sources, a \in Accounts : UpsertMapping(p, s, a)

Immediate ==
  \/ \E l \in Lines : Dismiss(l)
  \/ \E t \in Txns : DeleteTransaction(t)
  \/ \E r \in RuleIds : DeleteRule(r)
  \/ \E s \in Sources : DeleteMapping(s)
  \/ \E e \in Envelopes : DeleteEnvelope(e)
  \/ \E a \in Accounts : DeleteAccount(a)

Next == \/ \E p \in Procs : Work(p) \/ Ask(p)
        \/ Immediate
        \/ Crash

Spec == Init /\ [][Next]_vars
-----------------------------------------------------------------------------
(* The live ledger transactions that book line l. *)
TxnsOf(l) == {t \in Txns : ledger[t] # NONE /\ ledger[t].line = l}

(* Exactly once: a booked line is in the ledger by exactly the transaction its *)
(* row names, both with the same envelope or both with none, and a line that   *)
(* is not booked is not in the ledger at all -- under any interleaving of      *)
(* ticks, confirms, dismissals, deletions, rule changes and crashes (bookRow's *)
(* one transaction, revertBookedRows, the foreign keys' SET NULL).             *)
ExactlyOnce ==
  \A l \in Lines :
    IF inbox[l].status = "booked"
    THEN /\ TxnsOf(l) = {inbox[l].txn}
         /\ ledger[inbox[l].txn].envelope = inbox[l].envelope
    ELSE TxnsOf(l) = {} /\ inbox[l].txn = NONE

(* A line that is not in the household's currency never reaches the ledger,    *)
(* by a tick, by a rule change or by a member (README, "never booked").        *)
NeverForeign == \A t \in Txns : ledger[t] # NONE => ledger[t].line \notin Foreign

(* Between bookRow's re-check and its commit the line is nobody else's: two     *)
(* processes never book one line at once, and the row is still pending when it  *)
(* is marked.                                                                   *)
BookingIsExclusive ==
  \A p \in Procs : pc[p] = "booking" =>
     /\ rowLock[job[p].line] = p
     /\ inbox[job[p].line].status = "pending"

(* The inductive invariant behind ExactlyOnce and NeverForeign. *)
IInv == Types /\ TargetKnown /\ BookingIsExclusive /\ ExactlyOnce /\ NeverForeign

(* A dismissed line stays exactly as it is: no concurrent tick, confirm or     *)
(* rule change that read it as pending books it afterwards.                    *)
DismissedForGood ==
  [][\A l \in Lines : inbox[l].status = "dismissed" => inbox'[l] = inbox[l]]_vars

(* A booking is undone only together with its ledger transaction: rule and     *)
(* mapping changes, replays and late dismissals leave a booked row's           *)
(* transaction alone, and its envelope too unless the envelope itself is       *)
(* deleted ("Booked rows are never touched").                                  *)
BookedKept(l) ==
  /\ inbox'[l].status = "booked" /\ inbox'[l].txn = inbox[l].txn
  /\ \/ inbox'[l].envelope = inbox[l].envelope
     \/ inbox'[l].envelope = NONE /\ inbox[l].envelope \in envelopes \ envelopes'

BookedUntouched ==
  [][\A l \in Lines : inbox[l].status = "booked" =>
       \/ BookedKept(l)
       \/ inbox'[l].status = "pending" /\ ledger'[inbox[l].txn] = NONE]_vars

(* What is settled stays as it was settled, by either of the two above. *)
SettledKept == DismissedForGood /\ BookedUntouched

(* README, Bank import: a line is skipped, left pending for a stated reason,   *)
(* "otherwise booked", and "a tick that dies mid-page replays harmlessly": once*)
(* a page has been worked through, none of its lines that the rules it was     *)
(* read with would book is still pending.                                      *)
PageWorkedThrough ==
  \A p \in Procs : pc[p] = "line" /\ job[p].kind = "ingest" /\ job[p].todo = {} =>
    \A l \in job[p].items :
      AutoRule(job[p].mapping, job[p].rules, l) # {} => inbox[l].status # "pending"
-----------------------------------------------------------------------------
(* The inbox implements its abstract specification. *)
Charges(l) == {<<t, ledger[t].envelope>> : t \in TxnsOf(l)}

Abstract == INSTANCE FeohInbox WITH
              open    <- envelopes,
              status  <- [l \in Lines |-> inbox[l].status],
              charges <- [l \in Lines |-> Charges(l)]

InboxSpec == Abstract!Spec
=============================================================================
