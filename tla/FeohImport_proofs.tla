--------------------------- MODULE FeohImport_proofs ---------------------------
(* Proofs about FeohImport: its inductive invariant, that it implements        *)
(* FeohInbox, and what a step may never do to a row, for any number of         *)
(* processes, lines, rules and transactions.                                   *)
EXTENDS FeohImport, TLAPS

USE ImportAssumption DEF chart

(* ---------------------------------------------------------------- types *)
LEMMA NoJobType == NoJob \in Job
BY DEF NoJob, Job, NoMapping, NoRules

LEMMA AutoRuleType ==
  ASSUME NEW ms, NEW rs, NEW l \in Lines, NEW r \in AutoRule(ms, rs, l)
  PROVE  /\ l \notin Foreign /\ ms[SourceOf[l]] # NONE
         /\ r \in RuleIds /\ rs[r] # NONE
BY DEF AutoRule, MatchRule, Matching

(* matchRule never coin-flips: at most one rule answers. *)
THEOREM MatchIsDeterministic ==
  ASSUME NEW rs \in [RuleIds -> Rule \cup {NONE}], NEW l \in Lines,
         NEW r \in MatchRule(rs, l), NEW s \in MatchRule(rs, l)
  PROVE  r = s
BY DEF MatchRule, Matching, Before, Rule

LEMMA InitInv == Init => IInv
<1> SUFFICES ASSUME Init PROVE IInv
  OBVIOUS
<1> USE DEF Init
<1>1. Types
  BY NoJobType DEF Types, AbsentRow, Row, NoRules, NoMapping
<1>2. TargetKnown /\ BookingIsExclusive
  BY DEF TargetKnown, BookingIsExclusive
<1>3. ExactlyOnce /\ NeverForeign
  BY DEF ExactlyOnce, NeverForeign, TxnsOf, AbsentRow
<1> QED BY <1>1, <1>2, <1>3 DEF IInv

(* ------------------------------------------------- steps that only prepare *)
(* A step that leaves the inbox, the ledger and the row locks alone and takes *)
(* no process into a booking keeps the invariant if it keeps the types and    *)
(* the booking targets.                                                       *)
LEMMA QuietStep ==
  ASSUME IInv, Types', TargetKnown',
         UNCHANGED <<inbox, ledger, rowLock>>,
         \A p \in Procs : pc'[p] = "booking" => pc[p] = "booking" /\ job'[p].line = job[p].line
  PROVE  IInv'
<1>1. BookingIsExclusive'
  BY DEF IInv, BookingIsExclusive
<1>2. ExactlyOnce' /\ NeverForeign'
  BY DEF IInv, ExactlyOnce, NeverForeign, TxnsOf
<1> QED BY <1>1, <1>2 DEF IInv

LEMMA IdleStep ==
  ASSUME IInv, NEW p \in Procs, Idle(p),
         UNCHANGED <<inbox, ledger, rules, issued, mapping, chart, rowLock>>
  PROVE  IInv'
<1>1. Types'
  BY NoJobType DEF IInv, Types, Idle
<1>2. TargetKnown'
  BY DEF IInv, Types, TargetKnown, Idle
<1> QED BY <1>1, <1>2, QuietStep DEF IInv, Types, Idle

LEMMA StartReapplyStep ==
  ASSUME IInv, NEW p \in Procs, pc[p] = "idle", StartReapply(p),
         rules' \in [RuleIds -> Rule \cup {NONE}], issued' \subseteq RuleIds,
         mapping' \in [Sources -> Accounts \cup {NONE}],
         UNCHANGED <<inbox, ledger, chart, rowLock>>
  PROVE  IInv'
<1> USE DEF StartReapply
<1>1. [NoJob EXCEPT !.kind = "reapply", !.unread = Tables] \in Job
  BY NoJobType DEF Job, NoJob, Tables
<1>2. Types'
  BY <1>1 DEF IInv, Types
<1>3. TargetKnown'
  BY DEF IInv, Types, TargetKnown
<1> QED BY <1>2, <1>3, QuietStep DEF IInv, Types

LEMMA TryBookStep ==
  ASSUME IInv, NEW p \in Procs, NEW l \in Lines, pc[p] = "line", TryBook(p, l)
  PROVE  /\ pc' \in [Procs -> {"idle", "known", "reading", "line", "mapped", "lock", "booking"}]
         /\ job' \in [Procs -> Job]
         /\ TargetKnown'
         /\ \A q \in Procs : pc'[q] = "booking" => pc[q] = "booking" /\ job'[q].line = job[q].line
<1> DEFINE hit == AutoRule(job[p].mapping, job[p].rules, l)
<1>0. Types /\ job[p] \in Job /\ TargetKnown
  BY DEF IInv, Types
<1>1. CASE /\ job' = [job EXCEPT ![p].todo = @ \ {l}]
           /\ UNCHANGED pc
  <2>1. [job[p] EXCEPT !.todo = @ \ {l}] \in Job
    BY <1>0 DEF Job
  <2>2. job' \in [Procs -> Job]
    BY <1>1, <2>1, <1>0 DEF Types
  <2> QED BY <1>0, <1>1, <2>2 DEF Types, TargetKnown
<1>2. ASSUME NEW r \in hit,
             job' = [job EXCEPT ![p] = [job[p] EXCEPT !.todo = job[p].todo \ {l}, !.line = l, !.rule = r,
                       !.envelope = job[p].rules[r].envelope,
                       !.account = job[p].mapping[SourceOf[l]]]],
             pc' = [pc EXCEPT ![p] = "lock"]
      PROVE  /\ job' \in [Procs -> Job]
             /\ TargetKnown'
             /\ \A q \in Procs : pc'[q] = "booking" =>
                    pc[q] = "booking" /\ job'[q].line = job[q].line
  <2>0. /\ l \notin Foreign /\ job[p].mapping[SourceOf[l]] # NONE
        /\ r \in RuleIds /\ job[p].rules[r] # NONE
    BY <1>2, AutoRuleType
  <2>1. /\ job[p].rules[r].envelope \in Envelopes
        /\ job[p].mapping[SourceOf[l]] \in Accounts
    BY <1>0, <2>0 DEF Job, Rule
  <2>2. job'[p] \in Job
    BY <1>0, <1>2, <2>0, <2>1 DEF Job, Types
  <2>3. job' \in [Procs -> Job]
    BY <1>0, <1>2, <2>2 DEF Types
  <2>4. /\ job'[p].line = l /\ job'[p].envelope = job[p].rules[r].envelope
        /\ job'[p].account = job[p].mapping[SourceOf[l]]
    BY <1>0, <1>2 DEF Types, Job
  <2>5. TargetKnown'
    BY <1>0, <1>2, <2>0, <2>1, <2>4 DEF Types, TargetKnown
  <2> QED BY <1>0, <1>2, <2>3, <2>5 DEF Types
<1>3. \/ /\ job' = [job EXCEPT ![p].todo = @ \ {l}]
         /\ UNCHANGED pc
      \/ \E r \in hit :
         /\ job' = [job EXCEPT ![p] = [job[p] EXCEPT !.todo = job[p].todo \ {l}, !.line = l,
                       !.rule = r, !.envelope = job[p].rules[r].envelope,
                       !.account = job[p].mapping[SourceOf[l]]]]
         /\ pc' = [pc EXCEPT ![p] = "lock"]
  BY DEF TryBook
<1>4. pc' \in [Procs -> {"idle", "known", "reading", "line", "mapped", "lock", "booking"}]
  BY <1>0, <1>3 DEF Types
<1> HIDE DEF hit
<1> QED BY <1>1, <1>2, <1>3, <1>4

LEMMA ResumeStep ==
  ASSUME IInv, NEW p \in Procs, Resume(p)
  PROVE  /\ pc' \in [Procs -> {"idle", "known", "reading", "line", "mapped", "lock", "booking"}]
         /\ job' \in [Procs -> Job]
         /\ TargetKnown'
         /\ pc'[p] # "booking"
         /\ \A q \in Procs \ {p} : pc'[q] = pc[q] /\ job'[q] = job[q]
<1>0. Types /\ job[p] \in Job /\ TargetKnown
  BY DEF IInv, Types
<1>1. CASE Idle(p)
  BY <1>0, <1>1, NoJobType DEF Idle, Types, TargetKnown
<1>2. CASE /\ pc'  = [pc EXCEPT ![p] = "line"]
           /\ job' = [job EXCEPT ![p] = [job[p] EXCEPT !.line = NONE, !.rule = NONE,
                                              !.envelope = NONE, !.account = NONE]]
  <2>1. [job[p] EXCEPT !.line = NONE, !.rule = NONE, !.envelope = NONE, !.account = NONE] \in Job
    BY <1>0 DEF Job
  <2>2. job' \in [Procs -> Job]
    BY <1>0, <1>2, <2>1 DEF Types
  <2> QED BY <1>0, <1>2, <2>2 DEF Types, TargetKnown
<1> QED BY <1>1, <1>2 DEF Resume

(* ------------------------------------------------------ steps of a process *)
LEMMA PrepareSteps ==
  ASSUME IInv, NEW p \in Procs
  PROVE  /\ ReadKnown(p) => IInv'
         /\ \A t \in Tables : Read(p, t) => IInv'
         /\ \A l \in Lines : IngestSkip(p, l) => IInv'
         /\ ConfirmMapped(p) => IInv'
         /\ LoopDone(p) => IInv'
<1>0. Types /\ job[p] \in Job /\ TargetKnown
  BY DEF IInv, Types
<1>1. ASSUME ReadKnown(p) PROVE IInv'
  <2>1. job'[p] \in Job
    BY <1>0, <1>1 DEF ReadKnown, Types, Job, Tables
  <2>2. Types'
    BY <1>0, <1>1, <2>1 DEF ReadKnown, Types
  <2>3. TargetKnown'
    BY <1>0, <1>1 DEF ReadKnown, Types, TargetKnown
  <2> QED BY <1>0, <1>1, <2>2, <2>3, QuietStep DEF ReadKnown, Types
<1>2. ASSUME NEW t \in Tables, Read(p, t) PROVE IInv'
  <2>1. job'[p] \in Job
    BY <1>0, <1>2 DEF Read, Types, Job, Tables
  <2>2. Types'
    BY <1>0, <1>2, <2>1 DEF Read, Types
  <2>3. TargetKnown'
    BY <1>0, <1>2 DEF Read, Types, TargetKnown
  <2> QED BY <1>0, <1>2, <2>2, <2>3, QuietStep DEF Read, Types
<1>3. ASSUME NEW l \in Lines, IngestSkip(p, l) PROVE IInv'
  <2>1. job'[p] \in Job
    BY <1>0, <1>3 DEF IngestSkip, Types, Job
  <2>2. Types'
    BY <1>0, <1>3, <2>1 DEF IngestSkip, Types
  <2>3. TargetKnown'
    BY <1>0, <1>3 DEF IngestSkip, Types, TargetKnown
  <2> QED BY <1>0, <1>3, <2>2, <2>3, QuietStep DEF IngestSkip, Types
<1>4. ASSUME ConfirmMapped(p) PROVE IInv'
  <2> DEFINE a == mapping[SourceOf[job[p].line]]
  <2>0. job[p].line \in Lines
    BY <1>0, <1>4 DEF ConfirmMapped, TargetKnown
  <2>1. CASE a = NONE
    BY <1>4, <2>1, IdleStep DEF ConfirmMapped
  <2>2. CASE a # NONE
    <3>1. a \in Accounts
      BY <1>0, <2>0, <2>2 DEF Types
    <3>2. /\ pc' = [pc EXCEPT ![p] = "lock"] /\ job' = [job EXCEPT ![p].account = a]
          /\ UNCHANGED <<inbox, ledger, rules, issued, mapping, chart, rowLock>> /\ pc[p] = "mapped"
      BY <1>4, <2>2 DEF ConfirmMapped
    <3>3. job'[p] \in Job /\ job'[p].account = a
          /\ job'[p].line = job[p].line /\ job'[p].envelope = job[p].envelope
      BY <1>0, <3>1, <3>2 DEF Types, Job
    <3>4. Types'
      BY <1>0, <3>2, <3>3 DEF Types
    <3>5. TargetKnown'
      BY <1>0, <3>1, <3>2, <3>3 DEF Types, TargetKnown
    <3> QED BY <1>0, <3>2, <3>4, <3>5, QuietStep DEF Types
  <2> QED BY <2>1, <2>2
<1>5. ASSUME LoopDone(p) PROVE IInv'
  BY <1>5, IdleStep DEF LoopDone
<1> QED BY <1>1, <1>2, <1>3, <1>4, <1>5

LEMMA ReapplyLineStep ==
  ASSUME IInv, NEW p \in Procs, NEW l \in Lines, ReapplyLine(p, l)
  PROVE  IInv'
<1>1. TryBook(p, l) /\ pc[p] = "line" /\ UNCHANGED <<inbox, ledger, rules, issued, mapping, chart, rowLock>>
  BY DEF ReapplyLine
<1>2. Types'
  BY <1>1, TryBookStep DEF IInv, Types
<1> QED BY <1>1, <1>2, TryBookStep, QuietStep

LEMMA IngestInsertStep ==
  ASSUME IInv, NEW p \in Procs, NEW l \in Lines, IngestInsert(p, l)
  PROVE  IInv'
<1>1. /\ TryBook(p, l) /\ pc[p] = "line" /\ UNCHANGED <<ledger, rules, issued, mapping, chart, rowLock>>
      /\ inbox[l].status = "absent"
      /\ inbox' = [inbox EXCEPT ![l] = [AbsentRow EXCEPT !.status = "pending"]]
  BY DEF IngestInsert
<1>2. inbox' \in [Lines -> Row] /\ inbox'[l].status = "pending" /\ inbox'[l].txn = NONE
  BY <1>1 DEF IInv, Types, Row, AbsentRow
<1>3. Types'
  BY <1>1, <1>2, TryBookStep DEF IInv, Types
<1>4. BookingIsExclusive'
  <2> SUFFICES ASSUME NEW q \in Procs, pc'[q] = "booking"
               PROVE  rowLock'[job'[q].line] = q /\ inbox'[job'[q].line].status = "pending"
    BY DEF BookingIsExclusive
  <2>1. pc[q] = "booking" /\ job'[q].line = job[q].line
    BY <1>1, TryBookStep
  <2>2. job[q].line \in Lines
    BY <2>1 DEF IInv, TargetKnown
  <2> QED BY <1>1, <1>2, <2>1, <2>2 DEF IInv, BookingIsExclusive, Types
<1>5. ExactlyOnce'
  <2>1. ASSUME NEW m \in Lines PROVE TxnsOf(m)' = TxnsOf(m)
    BY <1>1 DEF TxnsOf
  <2> QED BY <1>1, <1>2, <2>1 DEF IInv, ExactlyOnce, Types
<1>6. NeverForeign'
  BY <1>1 DEF IInv, NeverForeign
<1> QED BY <1>1, <1>3, <1>4, <1>5, <1>6, TryBookStep DEF IInv

(* -------------------------------------------------------------- bookRow *)
LEMMA BookLockStep ==
  ASSUME IInv, NEW p \in Procs, BookLock(p)
  PROVE  IInv'
<1> USE DEF BookLock
<1>0. Types /\ job[p].line \in Lines
  BY DEF IInv, TargetKnown
<1>1. Types'
  BY <1>0 DEF Types
<1>2. TargetKnown'
  BY <1>0 DEF IInv, Types, TargetKnown
<1>3. BookingIsExclusive'
  <2> SUFFICES ASSUME NEW q \in Procs, pc'[q] = "booking"
               PROVE  rowLock'[job[q].line] = q /\ inbox[job[q].line].status = "pending"
    BY DEF BookingIsExclusive
  <2>1. CASE q = p
    BY <1>0, <2>1 DEF Types
  <2>2. CASE q # p
    <3>1. pc[q] = "booking" /\ rowLock[job[q].line] = q
      BY <1>0, <2>2 DEF Types, IInv, BookingIsExclusive
    <3>2. job[q].line # job[p].line
      BY <3>1
    <3> QED BY <1>0, <3>1, <3>2 DEF IInv, TargetKnown, BookingIsExclusive, Types
  <2> QED BY <2>1, <2>2
<1>4. ExactlyOnce' /\ NeverForeign'
  BY DEF IInv, ExactlyOnce, NeverForeign, TxnsOf
<1> QED BY <1>1, <1>2, <1>3, <1>4 DEF IInv

LEMMA BookLostStep ==
  ASSUME IInv, NEW p \in Procs, BookLost(p)
  PROVE  IInv'
<1>1. Resume(p) /\ UNCHANGED <<inbox, ledger, rules, issued, mapping, chart, rowLock>>
  BY DEF BookLost
<1>2. Types'
  BY <1>1, ResumeStep DEF IInv, Types
<1> QED BY <1>1, <1>2, ResumeStep, QuietStep

(* No process but p is booking the line p holds the lock of. *)
LEMMA OtherBookings ==
  ASSUME IInv, NEW p \in Procs, pc[p] = "booking",
         NEW q \in Procs \ {p}, pc[q] = "booking"
  PROVE  job[q].line \in Lines /\ job[q].line # job[p].line
BY DEF IInv, TargetKnown, BookingIsExclusive

LEMMA BookCommitStep ==
  ASSUME IInv, NEW p \in Procs, NEW t \in Txns, BookCommit(p, t)
  PROVE  IInv'
<1>l. PICK l \in Lines : l = job[p].line
  BY DEF BookCommit, IInv, TargetKnown
<1> DEFINE entry == [line |-> l, envelope |-> job[p].envelope, account |-> job[p].account]
           row == [status |-> "booked", txn |-> t, rule |-> job[p].rule,
                   envelope |-> job[p].envelope]
<1>0. /\ Types /\ pc[p] = "booking" /\ ledger[t] = NONE
      /\ ledger' = [ledger EXCEPT ![t] = entry] /\ inbox' = [inbox EXCEPT ![l] = row]
      /\ rowLock' = [rowLock EXCEPT ![l] = NONE]
      /\ Resume(p) /\ UNCHANGED <<rules, issued, mapping, chart>>
  BY <1>l DEF BookCommit, IInv
<1>1. /\ l \notin Foreign /\ job[p].envelope \in Envelopes /\ job[p].account \in Accounts
      /\ inbox[l].status = "pending"
  BY <1>l, <1>0 DEF IInv, TargetKnown, BookingIsExclusive
<1>2. entry \in Entry /\ row \in Row
  BY <1>0, <1>1 DEF Types, Entry, Row, Job
<1>3. Types'
  BY <1>0, <1>1, <1>2, ResumeStep DEF Types
<1>4. BookingIsExclusive'
  <2> SUFFICES ASSUME NEW q \in Procs, pc'[q] = "booking"
               PROVE  /\ rowLock'[job'[q].line] = q
                      /\ inbox'[job'[q].line].status = "pending"
    BY DEF BookingIsExclusive
  <2>1. q # p /\ pc[q] = "booking" /\ job'[q] = job[q]
    BY <1>0, ResumeStep
  <2>2. job[q].line \in Lines /\ job[q].line # l
    BY <1>l, <1>0, <2>1, OtherBookings
  <2>3. rowLock'[job[q].line] = rowLock[job[q].line] /\ inbox'[job[q].line] = inbox[job[q].line]
    BY <1>0, <2>2 DEF Types
  <2> QED BY <2>1, <2>3 DEF IInv, BookingIsExclusive
<1>5. TxnsOf(l)' = {t}
  <2>1. TxnsOf(l) = {}
    BY <1>1 DEF IInv, ExactlyOnce
  <2>2. entry # NONE /\ entry.line = l
    BY <1>2
  <2>3. ASSUME NEW u \in Txns PROVE ledger'[u] = IF u = t THEN entry ELSE ledger[u]
    BY <1>0, <2>3 DEF Types
  <2> HIDE DEF entry
  <2> QED BY <2>1, <2>2, <2>3 DEF TxnsOf
<1>6. ASSUME NEW m \in Lines, m # l PROVE TxnsOf(m)' = TxnsOf(m)
  BY <1>0, <1>1, <1>6 DEF TxnsOf, Types
<1>7. ExactlyOnce'
  <2>1. /\ inbox'[l].status = "booked" /\ inbox'[l].txn = t
        /\ ledger'[t].envelope = inbox'[l].envelope
    BY <1>0, <1>1 DEF Types
  <2>2. ASSUME NEW m \in Lines, m # l, inbox'[m].status = "booked"
        PROVE  ledger'[inbox'[m].txn].envelope = inbox'[m].envelope
    BY <1>0, <2>2 DEF IInv, ExactlyOnce, TxnsOf, Types
  <2> QED BY <1>0, <1>5, <1>6, <2>1, <2>2 DEF IInv, ExactlyOnce, Types
<1>8. NeverForeign'
  BY <1>0, <1>1 DEF IInv, NeverForeign, Types
<1> QED BY <1>0, <1>3, <1>4, <1>7, <1>8, ResumeStep DEF IInv

LEMMA BookAbortStep ==
  ASSUME IInv, NEW p \in Procs, BookAbort(p)
  PROVE  IInv'
<1>0. /\ Types /\ pc[p] = "booking" /\ Idle(p) /\ job[p].line \in Lines
      /\ rowLock' = [rowLock EXCEPT ![job[p].line] = NONE]
      /\ UNCHANGED <<inbox, ledger, rules, issued, mapping, chart>>
  BY DEF BookAbort, IInv, TargetKnown
<1>1. Types' /\ TargetKnown'
  BY <1>0, NoJobType DEF IInv, Idle, Types, TargetKnown
<1>2. BookingIsExclusive'
  <2> SUFFICES ASSUME NEW q \in Procs, pc'[q] = "booking"
               PROVE  rowLock'[job'[q].line] = q /\ inbox[job'[q].line].status = "pending"
    BY <1>0 DEF BookingIsExclusive
  <2>1. q # p /\ pc[q] = "booking" /\ job'[q] = job[q]
    BY <1>0 DEF Idle, Types
  <2>2. job[q].line \in Lines /\ job[q].line # job[p].line
    BY <1>0, <2>1, OtherBookings
  <2> QED BY <1>0, <2>1, <2>2 DEF IInv, BookingIsExclusive, Types
<1>3. ExactlyOnce' /\ NeverForeign'
  BY <1>0 DEF IInv, ExactlyOnce, NeverForeign, TxnsOf
<1> QED BY <1>1, <1>2, <1>3 DEF IInv

(* ------------------------------------------------------------- requests *)
LEMMA AskSteps ==
  ASSUME IInv, NEW p \in Procs, Ask(p)
  PROVE  IInv'
<1>0. Types /\ TargetKnown
  BY DEF IInv
<1>1. ASSUME NEW items \in SUBSET Lines, StartIngest(p, items) PROVE IInv'
  <2>1. [NoJob EXCEPT !.kind = "ingest", !.items = items, !.todo = items] \in Job
    BY NoJobType DEF Job, NoJob
  <2>2. Types'
    BY <1>0, <1>1, <2>1 DEF StartIngest, Types
  <2>3. TargetKnown'
    BY <1>0, <1>1 DEF StartIngest, Types, TargetKnown
  <2> QED BY <1>0, <1>1, <2>2, <2>3, QuietStep DEF StartIngest, Types
<1>2. ASSUME NEW l \in Lines, NEW e \in Envelopes, NEW a \in Accounts \cup {NONE},
             Confirm(p, l, e, a)
      PROVE  IInv'
  <2> DEFINE j == [NoJob EXCEPT !.kind = "confirm", !.line = l, !.envelope = e, !.account = a]
  <2>1. j \in Job /\ j.line = l /\ j.envelope = e /\ j.account = a
    BY NoJobType DEF Job, NoJob
  <2>2. /\ pc' = [pc EXCEPT ![p] = IF a = NONE THEN "mapped" ELSE "lock"]
        /\ job' = [job EXCEPT ![p] = j] /\ l \notin Foreign
        /\ UNCHANGED <<inbox, ledger, rules, issued, mapping, chart, rowLock>>
    BY <1>2 DEF Confirm
  <2> HIDE DEF j
  <2>3. Types'
    BY <1>0, <2>1, <2>2 DEF Types
  <2>4. TargetKnown'
    BY <1>0, <2>1, <2>2 DEF Types, TargetKnown
  <2> QED BY <1>0, <2>2, <2>3, <2>4, QuietStep DEF Types
<1>3. ASSUME NEW r \in RuleIds, NEW rule \in Rule, CreateRule(p, r, rule) PROVE IInv'
  BY <1>0, <1>3, StartReapplyStep DEF CreateRule, Types
<1>4. ASSUME NEW r \in RuleIds, NEW rule \in Rule, UpdateRule(p, r, rule) PROVE IInv'
  BY <1>0, <1>4, StartReapplyStep DEF UpdateRule, Types
<1>5. ASSUME NEW s \in Sources, NEW a \in Accounts, UpsertMapping(p, s, a) PROVE IInv'
  BY <1>0, <1>5, StartReapplyStep DEF UpsertMapping, Types
<1> QED BY <1>1, <1>2, <1>3, <1>4, <1>5 DEF Ask

LEMMA DismissStep ==
  ASSUME IInv, NEW l \in Lines, Dismiss(l)
  PROVE  IInv'
<1> USE DEF Dismiss
<1>0. Types /\ TargetKnown
  BY DEF IInv
<1>1. Types' /\ TargetKnown'
  <2>1. inbox' \in [Lines -> Row]
    BY <1>0 DEF Types, Row
  <2> QED BY <1>0, <2>1 DEF Types, TargetKnown
<1>2. BookingIsExclusive'
  BY <1>0 DEF IInv, BookingIsExclusive, Types, TargetKnown
<1>3. ASSUME NEW m \in Lines PROVE TxnsOf(m)' = TxnsOf(m)
  BY DEF TxnsOf
<1>4. /\ inbox'[l].status = "dismissed" /\ inbox'[l].txn = inbox[l].txn
      /\ \A m \in Lines \ {l} : inbox'[m] = inbox[m]
  BY <1>0 DEF Types, Row
<1>5. ExactlyOnce'
  BY <1>3, <1>4 DEF IInv, ExactlyOnce
<1>6. NeverForeign'
  BY DEF IInv, NeverForeign
<1> QED BY <1>1, <1>2, <1>5, <1>6 DEF IInv

LEMMA DeleteTransactionStep ==
  ASSUME IInv, NEW t \in Txns, DeleteTransaction(t)
  PROVE  IInv'
<1> DEFINE reverted == {l \in Lines : inbox[l].txn = t /\ inbox[l].status = "booked"}
<1>0. /\ Types /\ TargetKnown /\ ledger[t] # NONE
      /\ \A l \in reverted : rowLock[l] = NONE
      /\ inbox' = [l \in Lines |-> IF l \in reverted
                                   THEN [AbsentRow EXCEPT !.status = "pending"] ELSE inbox[l]]
      /\ ledger' = [ledger EXCEPT ![t] = NONE]
      /\ UNCHANGED <<rules, issued, mapping, chart, rowLock, pc, job>>
  BY DEF DeleteTransaction, IInv
<1>1. /\ \A l \in reverted : inbox'[l].status = "pending" /\ inbox'[l].txn = NONE
                                /\ inbox'[l] \in Row
      /\ \A l \in Lines \ reverted : inbox'[l] = inbox[l]
  BY <1>0 DEF AbsentRow, Row
<1>2. inbox' \in [Lines -> Row]
  BY <1>0, <1>1 DEF Types
<1>3. Types' /\ TargetKnown'
  BY <1>0, <1>2 DEF Types, TargetKnown
<1>4. BookingIsExclusive'
  <2> SUFFICES ASSUME NEW q \in Procs, pc[q] = "booking"
               PROVE  rowLock[job[q].line] = q /\ inbox'[job[q].line].status = "pending"
    BY <1>0 DEF BookingIsExclusive
  <2>1. job[q].line \in Lines /\ rowLock[job[q].line] = q /\ inbox[job[q].line].status = "pending"
    BY DEF IInv, TargetKnown, BookingIsExclusive
  <2> QED BY <1>1, <2>1
<1>5. ExactlyOnce'
  <2>1. ASSUME NEW m \in reverted PROVE TxnsOf(m)' = {} /\ inbox'[m].status = "pending"
                                         /\ inbox'[m].txn = NONE
    <3>1. TxnsOf(m) = {t}
      BY DEF IInv, ExactlyOnce
    <3> QED BY <1>0, <1>1, <3>1 DEF TxnsOf, Types
  <2>2. ASSUME NEW m \in Lines \ reverted PROVE TxnsOf(m)' = TxnsOf(m)
    <3>1. t \notin TxnsOf(m)
      BY DEF IInv, ExactlyOnce
    <3> QED BY <1>0, <3>1 DEF TxnsOf, Types
  <2>3. ASSUME NEW m \in Lines \ reverted, inbox[m].status = "booked"
        PROVE  inbox[m].txn # t /\ ledger'[inbox[m].txn] = ledger[inbox[m].txn]
    <3>1. inbox[m].txn # t
      BY <2>3
    <3>2. inbox[m].txn \in Txns
      BY <2>3 DEF IInv, ExactlyOnce, TxnsOf
    <3> QED BY <1>0, <3>1, <3>2 DEF Types
  <2> HIDE DEF reverted
  <2>4. ASSUME NEW m \in Lines \ reverted
        PROVE  IF inbox'[m].status = "booked"
               THEN /\ TxnsOf(m)' = {inbox'[m].txn}
                    /\ ledger'[inbox'[m].txn].envelope = inbox'[m].envelope
               ELSE TxnsOf(m)' = {} /\ inbox'[m].txn = NONE
    BY <1>1, <2>2, <2>3 DEF IInv, ExactlyOnce
  <2> QED BY <2>1, <2>4 DEF ExactlyOnce
<1>6. NeverForeign'
  BY <1>0 DEF IInv, NeverForeign, Types
<1> QED BY <1>3, <1>4, <1>5, <1>6 DEF IInv

LEMMA DeleteRuleStep ==
  ASSUME IInv, NEW r \in RuleIds, DeleteRule(r)
  PROVE  IInv'
<1> DEFINE cleared(l) == IF inbox[l].rule = r THEN [inbox[l] EXCEPT !.rule = NONE] ELSE inbox[l]
<1>0. /\ Types /\ TargetKnown
      /\ rules' = [rules EXCEPT ![r] = NONE]
      /\ inbox' = [l \in Lines |-> cleared(l)]
      /\ UNCHANGED <<ledger, issued, mapping, chart, rowLock, pc, job>>
  BY DEF DeleteRule, IInv
<1>1. ASSUME NEW l \in Lines
      PROVE  /\ inbox'[l] \in Row /\ inbox'[l].status = inbox[l].status
             /\ inbox'[l].txn = inbox[l].txn /\ inbox'[l].envelope = inbox[l].envelope
  <2>1. inbox[l] \in Row /\ inbox'[l] = cleared(l)
    BY <1>0 DEF Types
  <2>2. CASE inbox[l].rule = r
    <3>1. inbox'[l] = [inbox[l] EXCEPT !.rule = NONE]
      BY <2>1, <2>2
    <3> HIDE DEF cleared
    <3> QED BY <2>1, <3>1 DEF Row
  <2>3. CASE inbox[l].rule # r
    BY <2>1, <2>3
  <2> QED BY <2>2, <2>3
<1>2. inbox' \in [Lines -> Row]
  <2>1. \A l \in Lines : cleared(l) \in Row
    BY <1>0, <1>1
  <2> HIDE DEF cleared
  <2> QED BY <1>0, <2>1
<1>3. Types' /\ TargetKnown'
  BY <1>0, <1>2 DEF Types, TargetKnown
<1>4. BookingIsExclusive'
  BY <1>0, <1>1 DEF IInv, BookingIsExclusive, TargetKnown
<1>5. ASSUME NEW m \in Lines PROVE TxnsOf(m)' = TxnsOf(m)
  BY <1>0 DEF TxnsOf
<1>6. ExactlyOnce' /\ NeverForeign'
  BY <1>0, <1>1, <1>5 DEF IInv, ExactlyOnce, NeverForeign
<1> QED BY <1>3, <1>4, <1>6 DEF IInv

(* A deleted envelope is taken off the rows and off the ledger at once.         *)
LEMMA EnvelopeGone ==
  ASSUME IInv, NEW e \in Envelopes, DeleteEnvelope(e)
  PROVE  /\ \A l \in Lines :
              /\ inbox'[l] \in Row /\ inbox'[l].status = inbox[l].status
              /\ inbox'[l].txn = inbox[l].txn
              /\ inbox'[l].envelope = IF inbox[l].envelope = e THEN NONE ELSE inbox[l].envelope
         /\ \A t \in Txns :
              /\ ledger'[t] \in Entry \cup {NONE} /\ (ledger'[t] = NONE <=> ledger[t] = NONE)
              /\ ledger[t] # NONE =>
                   /\ ledger'[t].line = ledger[t].line
                   /\ ledger'[t].envelope =
                        IF ledger[t].envelope = e THEN NONE ELSE ledger[t].envelope
<1>0. Types /\ NONE \notin Entry
  BY DEF IInv
<1>1. ASSUME NEW l \in Lines
      PROVE  /\ inbox'[l] \in Row /\ inbox'[l].status = inbox[l].status
             /\ inbox'[l].txn = inbox[l].txn
             /\ inbox'[l].envelope = IF inbox[l].envelope = e THEN NONE ELSE inbox[l].envelope
  <2>1. inbox[l] \in Row
    BY <1>0 DEF Types
  <2>2. inbox'[l] = IF inbox[l].envelope = e
                    THEN [inbox[l] EXCEPT !.envelope = NONE] ELSE inbox[l]
    BY DEF DeleteEnvelope
  <2> QED BY <2>1, <2>2 DEF Row
<1>2. ASSUME NEW t \in Txns
      PROVE  /\ ledger'[t] \in Entry \cup {NONE} /\ (ledger'[t] = NONE <=> ledger[t] = NONE)
             /\ ledger[t] # NONE =>
                  /\ ledger'[t].line = ledger[t].line
                  /\ ledger'[t].envelope =
                       IF ledger[t].envelope = e THEN NONE ELSE ledger[t].envelope
  <2>1. ledger[t] \in Entry \cup {NONE}
    BY <1>0 DEF Types
  <2>2. ledger'[t] = IF ledger[t] # NONE /\ ledger[t].envelope = e
                     THEN [ledger[t] EXCEPT !.envelope = NONE] ELSE ledger[t]
    BY DEF DeleteEnvelope
  <2>3. CASE ledger[t] # NONE /\ ledger[t].envelope = e
    <3>1. ledger[t] \in Entry /\ ledger'[t] = [ledger[t] EXCEPT !.envelope = NONE]
      BY <2>1, <2>2, <2>3
    <3>2. /\ ledger'[t] \in Entry /\ ledger'[t].line = ledger[t].line
          /\ ledger'[t].envelope = NONE
      BY <3>1 DEF Entry
    <3> QED BY <1>0, <2>3, <3>2
  <2>4. CASE ~(ledger[t] # NONE /\ ledger[t].envelope = e)
    BY <2>1, <2>2, <2>4
  <2> QED BY <2>3, <2>4
<1> QED BY <1>1, <1>2

LEMMA DeleteEnvelopeStep ==
  ASSUME IInv, NEW e \in Envelopes, DeleteEnvelope(e)
  PROVE  IInv'
<1>0. /\ Types /\ TargetKnown /\ NONE \notin Entry /\ e # NONE
      /\ envelopes' = envelopes \ {e}
      /\ UNCHANGED <<rules, issued, mapping, accounts, rowLock, pc, job>>
  BY DEF DeleteEnvelope, IInv
<1>1. ASSUME NEW l \in Lines
      PROVE  /\ inbox'[l] \in Row /\ inbox'[l].status = inbox[l].status
             /\ inbox'[l].txn = inbox[l].txn
             /\ inbox'[l].envelope = IF inbox[l].envelope = e THEN NONE ELSE inbox[l].envelope
  BY EnvelopeGone
<1>2. ASSUME NEW t \in Txns
      PROVE  /\ ledger'[t] \in Entry \cup {NONE} /\ (ledger'[t] = NONE <=> ledger[t] = NONE)
             /\ ledger[t] # NONE =>
                  /\ ledger'[t].line = ledger[t].line
                  /\ ledger'[t].envelope =
                       IF ledger[t].envelope = e THEN NONE ELSE ledger[t].envelope
  BY EnvelopeGone
<1>3. Types' /\ TargetKnown'
  <2>1. inbox' \in [Lines -> Row] /\ ledger' \in [Txns -> Entry \cup {NONE}]
    <3>1. DOMAIN inbox' = Lines /\ DOMAIN ledger' = Txns
          /\ inbox' = [l \in Lines |-> inbox'[l]] /\ ledger' = [t \in Txns |-> ledger'[t]]
      BY DEF DeleteEnvelope
    <3> QED BY <1>1, <1>2, <3>1
  <2> QED BY <1>0, <2>1 DEF Types, TargetKnown
<1>4. BookingIsExclusive'
  BY <1>0, <1>1 DEF IInv, BookingIsExclusive, TargetKnown
<1>5. ASSUME NEW l \in Lines PROVE TxnsOf(l)' = TxnsOf(l)
  BY <1>2 DEF TxnsOf
<1>6. ExactlyOnce'
  <2> SUFFICES ASSUME NEW l \in Lines
               PROVE  IF inbox'[l].status = "booked"
                      THEN /\ TxnsOf(l)' = {inbox'[l].txn}
                           /\ ledger'[inbox'[l].txn].envelope = inbox'[l].envelope
                      ELSE TxnsOf(l)' = {} /\ inbox'[l].txn = NONE
    BY DEF ExactlyOnce
  <2>1. CASE inbox[l].status = "booked"
    <3>1. /\ TxnsOf(l) = {inbox[l].txn} /\ ledger[inbox[l].txn].envelope = inbox[l].envelope
          /\ inbox[l].txn \in Txns /\ ledger[inbox[l].txn] # NONE
      BY <2>1 DEF IInv, ExactlyOnce, TxnsOf
    <3> QED BY <1>1, <1>2, <1>5, <2>1, <3>1
  <2>2. CASE inbox[l].status # "booked"
    BY <1>1, <1>5, <2>2 DEF IInv, ExactlyOnce
  <2> QED BY <2>1, <2>2
<1>7. NeverForeign'
  BY <1>2 DEF IInv, NeverForeign
<1> QED BY <1>3, <1>4, <1>6, <1>7 DEF IInv

(* A deleted account leaves every transaction where it is, line and envelope. *)
LEMMA AccountGone ==
  ASSUME IInv, NEW a \in Accounts, DeleteAccount(a), NEW t \in Txns
  PROVE  /\ ledger'[t] \in Entry \cup {NONE} /\ (ledger'[t] = NONE <=> ledger[t] = NONE)
         /\ ledger[t] # NONE => /\ ledger'[t].line = ledger[t].line
                                /\ ledger'[t].envelope = ledger[t].envelope
<1>1. ledger[t] \in Entry \cup {NONE} /\ NONE \notin Entry
  BY DEF IInv, Types
<1>2. ledger'[t] = IF ledger[t] # NONE /\ ledger[t].account = a
                   THEN [ledger[t] EXCEPT !.account = NONE] ELSE ledger[t]
  BY DEF DeleteAccount
<1>3. CASE ledger[t] # NONE /\ ledger[t].account = a
  <2>1. ledger[t] \in Entry /\ ledger'[t] = [ledger[t] EXCEPT !.account = NONE]
    BY <1>1, <1>2, <1>3
  <2>2. /\ ledger'[t] \in Entry /\ ledger'[t].line = ledger[t].line
        /\ ledger'[t].envelope = ledger[t].envelope
    BY <2>1 DEF Entry
  <2> QED BY <1>1, <1>3, <2>2
<1>4. CASE ~(ledger[t] # NONE /\ ledger[t].account = a)
  BY <1>1, <1>2, <1>4
<1> QED BY <1>3, <1>4

LEMMA DeleteAccountStep ==
  ASSUME IInv, NEW a \in Accounts, DeleteAccount(a)
  PROVE  IInv'
<1>0. /\ Types /\ TargetKnown /\ NONE \notin Entry
      /\ accounts' = accounts \ {a}
      /\ UNCHANGED <<inbox, rules, issued, mapping, envelopes, rowLock, pc, job>>
  BY DEF DeleteAccount, IInv
<1>1. ASSUME NEW t \in Txns
      PROVE  /\ ledger'[t] \in Entry \cup {NONE} /\ (ledger'[t] = NONE <=> ledger[t] = NONE)
             /\ ledger[t] # NONE => /\ ledger'[t].line = ledger[t].line
                                    /\ ledger'[t].envelope = ledger[t].envelope
  BY AccountGone
<1>2. Types' /\ TargetKnown'
  <2>1. ledger' \in [Txns -> Entry \cup {NONE}]
    <3>1. DOMAIN ledger' = Txns /\ ledger' = [t \in Txns |-> ledger'[t]]
      BY DEF DeleteAccount
    <3> QED BY <1>1, <3>1
  <2> QED BY <1>0, <2>1 DEF Types, TargetKnown
<1>3. BookingIsExclusive'
  BY <1>0 DEF IInv, BookingIsExclusive
<1>4. ASSUME NEW l \in Lines PROVE TxnsOf(l)' = TxnsOf(l)
  BY <1>1 DEF TxnsOf
<1>5. ExactlyOnce'
  <2> SUFFICES ASSUME NEW l \in Lines
               PROVE  IF inbox[l].status = "booked"
                      THEN /\ TxnsOf(l)' = {inbox[l].txn}
                           /\ ledger'[inbox[l].txn].envelope = inbox[l].envelope
                      ELSE TxnsOf(l)' = {} /\ inbox[l].txn = NONE
    BY <1>0 DEF ExactlyOnce
  <2>1. CASE inbox[l].status = "booked"
    <3>1. /\ TxnsOf(l) = {inbox[l].txn} /\ ledger[inbox[l].txn].envelope = inbox[l].envelope
          /\ inbox[l].txn \in Txns /\ ledger[inbox[l].txn] # NONE
      BY <2>1 DEF IInv, ExactlyOnce, TxnsOf
    <3> QED BY <1>1, <1>4, <2>1, <3>1
  <2>2. CASE inbox[l].status # "booked"
    BY <1>4, <2>2 DEF IInv, ExactlyOnce
  <2> QED BY <2>1, <2>2
<1>6. NeverForeign'
  BY <1>1 DEF IInv, NeverForeign
<1> QED BY <1>2, <1>3, <1>5, <1>6 DEF IInv

LEMMA CrashStep ==
  ASSUME IInv, Crash
  PROVE  IInv'
<1> USE DEF Crash
<1>1. Types' /\ TargetKnown' /\ BookingIsExclusive'
  BY NoJobType DEF IInv, Types, TargetKnown, BookingIsExclusive
<1>2. ExactlyOnce' /\ NeverForeign'
  BY DEF IInv, ExactlyOnce, NeverForeign, TxnsOf
<1> QED BY <1>1, <1>2 DEF IInv

LEMMA ImmediateSteps ==
  ASSUME IInv, Immediate
  PROVE  IInv'
<1>1. ASSUME NEW s \in Sources, DeleteMapping(s) PROVE IInv'
  <2>1. Types' /\ TargetKnown'
    <3>1. mapping' \in [Sources -> Accounts \cup {NONE}]
      BY <1>1 DEF IInv, DeleteMapping, Types
    <3> QED BY <1>1, <3>1 DEF IInv, DeleteMapping, Types, TargetKnown
  <2> QED BY <1>1, <2>1, QuietStep DEF DeleteMapping
<1> QED BY <1>1, DismissStep, DeleteTransactionStep, DeleteRuleStep, DeleteEnvelopeStep,
           DeleteAccountStep DEF Immediate

LEMMA WorkSteps ==
  ASSUME IInv, NEW p \in Procs, Work(p)
  PROVE  IInv'
BY PrepareSteps, ReapplyLineStep, IngestInsertStep, BookLockStep, BookLostStep, BookAbortStep,
   BookCommitStep DEF Work

(* ------------------------------------------------------------- theorems *)
LEMMA StutterStep == IInv /\ UNCHANGED vars => IInv'
<1> SUFFICES ASSUME IInv, UNCHANGED vars PROVE IInv'
  OBVIOUS
<1>1. Types' /\ TargetKnown'
  BY DEF vars, IInv, Types, TargetKnown
<1> QED BY <1>1, QuietStep DEF vars

LEMMA NextInv == IInv /\ [Next]_vars => IInv'
BY WorkSteps, AskSteps, ImmediateSteps, CrashStep, StutterStep DEF Next

(* The inductive invariant holds in every reachable state. *)
THEOREM Invariance == Spec => []IInv
BY InitInv, NextInv, PTL DEF Spec

(* Every variable keeps its type, and bookRow is never called with a part of   *)
(* its target missing (TypeOK).                                                *)
THEOREM TypeCorrect == Spec => []TypeOK
<1>1. IInv => TypeOK
  BY DEF IInv, TypeOK
<1> QED BY <1>1, Invariance, PTL

(* A bank line is in the ledger exactly once while booked and not at all otherwise, *)
(* however ticks, requests, rule changes and crashes interleave (bookRow,          *)
(* revertBookedRows).                                                               *)
THEOREM BookedExactlyOnce == Spec => []ExactlyOnce
<1>1. IInv => ExactlyOnce
  BY DEF IInv
<1> QED BY <1>1, Invariance, PTL

(* No line in another currency is ever booked, by whichever path. *)
THEOREM ForeignNeverBooked == Spec => []NeverForeign
<1>1. IInv => NeverForeign
  BY DEF IInv
<1> QED BY <1>1, Invariance, PTL

(* ------------------------------------- the steps that touch inbox or ledger *)
LEMMA StepCases ==
  ASSUME [Next]_vars
  PROVE  \/ UNCHANGED <<inbox, ledger, envelopes>>
         \/ \E p \in Procs, l \in Lines : IngestInsert(p, l)
         \/ \E p \in Procs, t \in Txns : BookCommit(p, t)
         \/ \E l \in Lines : Dismiss(l)
         \/ \E t \in Txns : DeleteTransaction(t)
         \/ \E r \in RuleIds : DeleteRule(r)
         \/ \E e \in Envelopes : DeleteEnvelope(e)
         \/ \E a \in Accounts : DeleteAccount(a)
<1>1. ASSUME NEW p \in Procs, Work(p)
      PROVE  \/ UNCHANGED <<inbox, ledger, envelopes>>
             \/ \E l \in Lines : IngestInsert(p, l)
             \/ \E t \in Txns : BookCommit(p, t)
  BY <1>1 DEF Work, ReadKnown, Read, IngestSkip, ReapplyLine, LoopDone, BookLock, BookLost,
              BookAbort, ConfirmMapped
<1>2. ASSUME NEW p \in Procs, Ask(p) PROVE UNCHANGED <<inbox, ledger, envelopes>>
  BY <1>2 DEF Ask, StartIngest, Confirm, CreateRule, UpdateRule, UpsertMapping
<1>3. ASSUME Crash PROVE UNCHANGED <<inbox, ledger, envelopes>>
  BY <1>3 DEF Crash
<1>4. CASE UNCHANGED vars
  BY <1>4 DEF vars
<1>5. CASE Immediate
  BY <1>5 DEF Immediate, DeleteMapping
<1>6. CASE Next
  BY <1>1, <1>2, <1>3, <1>5, <1>6 DEF Next
<1> QED BY <1>4, <1>6

(* What a booking writes: the row was pending and in no ledger transaction.    *)
LEMMA BookCommitWrites ==
  ASSUME IInv, NEW p \in Procs, NEW t \in Txns, BookCommit(p, t)
  PROVE  \E l \in Lines, e \in Envelopes, a \in Accounts, r \in RuleIds \cup {NONE} :
           /\ inbox[l].status = "pending" /\ ledger[t] = NONE
           /\ e \in envelopes /\ UNCHANGED envelopes
           /\ inbox'  = [inbox EXCEPT ![l] =
                           [status |-> "booked", txn |-> t, rule |-> r, envelope |-> e]]
           /\ ledger' = [ledger EXCEPT ![t] = [line |-> l, envelope |-> e, account |-> a]]
<1>1. /\ job[p].line \in Lines /\ job[p].envelope \in Envelopes /\ job[p].account \in Accounts
      /\ job[p].rule \in RuleIds \cup {NONE} /\ inbox[job[p].line].status = "pending"
  BY DEF BookCommit, IInv, Types, Job, TargetKnown, BookingIsExclusive
<1> QED BY <1>1 DEF BookCommit, ReferencesLive

(* deleteTransaction reverts exactly one row, the one the transaction books.   *)
LEMMA DeleteTransactionWrites ==
  ASSUME IInv, NEW t \in Txns, DeleteTransaction(t)
  PROVE  \E l \in Lines :
           /\ inbox[l].status = "booked" /\ inbox[l].txn = t /\ TxnsOf(l) = {t}
           /\ inbox'  = [inbox EXCEPT ![l] = [AbsentRow EXCEPT !.status = "pending"]]
           /\ ledger' = [ledger EXCEPT ![t] = NONE] /\ UNCHANGED envelopes
<1> DEFINE reverted == {l \in Lines : inbox[l].txn = t /\ inbox[l].status = "booked"}
<1>0. Types /\ ExactlyOnce /\ ledger[t] # NONE
  BY DEF IInv, DeleteTransaction
<1>1. PICK l \in Lines : ledger[t].line = l
  BY <1>0 DEF Types, Entry
<1>2. t \in TxnsOf(l)
  BY <1>0, <1>1 DEF TxnsOf
<1>3. inbox[l].status = "booked" /\ inbox[l].txn = t /\ TxnsOf(l) = {t}
  BY <1>0, <1>2 DEF ExactlyOnce
<1>4. ASSUME NEW m \in reverted PROVE m = l
  <2>1. t \in TxnsOf(m)
    BY <1>0, <1>4 DEF ExactlyOnce
  <2> QED BY <1>1, <2>1 DEF TxnsOf
<1>5. reverted = {l}
  BY <1>3, <1>4
<1>6. inbox' = [m \in Lines |-> IF m \in reverted
                               THEN [AbsentRow EXCEPT !.status = "pending"] ELSE inbox[m]]
  BY DEF DeleteTransaction
<1> HIDE DEF reverted
<1>7. inbox' = [inbox EXCEPT ![l] = [AbsentRow EXCEPT !.status = "pending"]]
  BY <1>0, <1>5, <1>6 DEF Types
<1> QED BY <1>3, <1>7 DEF DeleteTransaction

(* --------------------------------------------------- what a step may never do *)
(* Only a booked row names a rule or an envelope, so deleting one of them       *)
(* changes no other row.                                                       *)
RuleOnBooked ==
  \A l \in Lines : inbox[l].status # "booked" => inbox[l].rule = NONE /\ inbox[l].envelope = NONE

LEMMA RuleOnBookedStep ==
  ASSUME IInv, RuleOnBooked, [Next]_vars
  PROVE  RuleOnBooked'
<1>0. Types
  BY DEF IInv
<1>1. CASE UNCHANGED <<inbox, ledger, envelopes>>
  BY <1>1 DEF RuleOnBooked
<1>2. ASSUME NEW p \in Procs, NEW l \in Lines, IngestInsert(p, l) PROVE RuleOnBooked'
  BY <1>0, <1>2 DEF IngestInsert, AbsentRow, Types, RuleOnBooked
<1>3. ASSUME NEW p \in Procs, NEW t \in Txns, BookCommit(p, t) PROVE RuleOnBooked'
  BY <1>0, <1>3, BookCommitWrites DEF Types, RuleOnBooked
<1>4. ASSUME NEW l \in Lines, Dismiss(l) PROVE RuleOnBooked'
  BY <1>0, <1>4 DEF Dismiss, Types, Row, RuleOnBooked
<1>5. ASSUME NEW t \in Txns, DeleteTransaction(t) PROVE RuleOnBooked'
  BY <1>0, <1>5, DeleteTransactionWrites DEF AbsentRow, Types, RuleOnBooked
<1>6. ASSUME NEW r \in RuleIds, DeleteRule(r) PROVE RuleOnBooked'
  BY <1>0, <1>6 DEF DeleteRule, Types, Row, RuleOnBooked
<1>7. ASSUME NEW e \in Envelopes, DeleteEnvelope(e) PROVE RuleOnBooked'
  BY <1>0, <1>7 DEF DeleteEnvelope, Types, Row, RuleOnBooked
<1>8. ASSUME NEW a \in Accounts, DeleteAccount(a) PROVE RuleOnBooked'
  BY <1>8 DEF DeleteAccount, RuleOnBooked
<1> QED BY <1>1, <1>2, <1>3, <1>4, <1>5, <1>6, <1>7, <1>8, StepCases

LEMMA RuleOnBookedInvariance == Spec => []RuleOnBooked
<1>1. Init => RuleOnBooked
  BY DEF Init, AbsentRow, RuleOnBooked
<1>2. IInv /\ RuleOnBooked /\ [Next]_vars => RuleOnBooked'
  BY RuleOnBookedStep
<1> QED BY <1>1, <1>2, Invariance, PTL DEF Spec

LEMMA ParkedStays ==
  ASSUME IInv, RuleOnBooked, [Next]_vars, NEW l \in Lines, inbox[l].status = "dismissed"
  PROVE  inbox'[l] = inbox[l]
<1>0. Types
  BY DEF IInv
<1>1. CASE UNCHANGED <<inbox, ledger, envelopes>>
  BY <1>1
<1>2. ASSUME NEW p \in Procs, NEW m \in Lines, IngestInsert(p, m) PROVE inbox'[l] = inbox[l]
  BY <1>0, <1>2 DEF IngestInsert, Types
<1>3. ASSUME NEW p \in Procs, NEW t \in Txns, BookCommit(p, t) PROVE inbox'[l] = inbox[l]
  BY <1>0, <1>3, BookCommitWrites DEF Types
<1>4. ASSUME NEW m \in Lines, Dismiss(m) PROVE inbox'[l] = inbox[l]
  BY <1>0, <1>4 DEF Dismiss, Types
<1>5. ASSUME NEW t \in Txns, DeleteTransaction(t) PROVE inbox'[l] = inbox[l]
  <2>1. PICK m \in Lines : /\ inbox[m].status = "booked"
                           /\ inbox' = [inbox EXCEPT ![m] = [AbsentRow EXCEPT !.status = "pending"]]
    BY <1>5, DeleteTransactionWrites
  <2> QED BY <1>0, <2>1 DEF Types
<1>6. ASSUME NEW r \in RuleIds, DeleteRule(r) PROVE inbox'[l] = inbox[l]
  <2>1. inbox[l].rule = NONE /\ r # NONE
    BY <1>6, ImportAssumption DEF RuleOnBooked
  <2> QED BY <1>6, <2>1 DEF DeleteRule
<1>7. ASSUME NEW e \in Envelopes, DeleteEnvelope(e) PROVE inbox'[l] = inbox[l]
  <2>1. inbox[l].envelope = NONE /\ e # NONE
    BY <1>7, ImportAssumption DEF RuleOnBooked
  <2> QED BY <1>7, <2>1 DEF DeleteEnvelope
<1>8. ASSUME NEW a \in Accounts, DeleteAccount(a) PROVE inbox'[l] = inbox[l]
  BY <1>8 DEF DeleteAccount
<1> QED BY <1>1, <1>2, <1>3, <1>4, <1>5, <1>6, <1>7, <1>8, StepCases

LEMMA BookedStays ==
  ASSUME IInv, [Next]_vars, NEW l \in Lines, inbox[l].status = "booked"
  PROVE  \/ BookedKept(l)
         \/ inbox'[l].status = "pending" /\ ledger'[inbox[l].txn] = NONE
<1> DEFINE Kept == /\ inbox'[l].status = "booked"
                   /\ inbox'[l].txn = inbox[l].txn /\ inbox'[l].envelope = inbox[l].envelope
           Undone == inbox'[l].status = "pending" /\ ledger'[inbox[l].txn] = NONE
<1>0. Types
  BY DEF IInv
<1>1. ASSUME UNCHANGED <<inbox, ledger, envelopes>> PROVE Kept
  BY <1>1
<1>2. ASSUME NEW p \in Procs, NEW m \in Lines, IngestInsert(p, m) PROVE Kept
  BY <1>0, <1>2 DEF IngestInsert, Types
<1>3. ASSUME NEW p \in Procs, NEW t \in Txns, BookCommit(p, t) PROVE Kept
  BY <1>0, <1>3, BookCommitWrites DEF Types
<1>4. ASSUME NEW m \in Lines, Dismiss(m) PROVE Kept
  BY <1>0, <1>4 DEF Dismiss, Types
<1>5. ASSUME NEW t \in Txns, DeleteTransaction(t) PROVE Kept \/ Undone
  <2>1. PICK m \in Lines : /\ inbox[m].txn = t
                           /\ inbox' = [inbox EXCEPT ![m] = [AbsentRow EXCEPT !.status = "pending"]]
                           /\ ledger' = [ledger EXCEPT ![t] = NONE]
    BY <1>5, DeleteTransactionWrites
  <2>2. CASE m = l
    BY <1>0, <2>1, <2>2 DEF Types, AbsentRow
  <2>3. CASE m # l
    BY <1>0, <2>1, <2>3 DEF Types
  <2> QED BY <2>2, <2>3
<1>6. ASSUME NEW r \in RuleIds, DeleteRule(r) PROVE Kept
  BY <1>0, <1>6 DEF DeleteRule, Types, Row
<1>7. ASSUME NEW e \in Envelopes, DeleteEnvelope(e) PROVE BookedKept(l)
  <2>1. inbox[l] \in Row /\ e \in envelopes \ envelopes'
    BY <1>0, <1>7 DEF Types, DeleteEnvelope
  <2>2. inbox'[l] = IF inbox[l].envelope = e
                    THEN [inbox[l] EXCEPT !.envelope = NONE] ELSE inbox[l]
    BY <1>7 DEF DeleteEnvelope
  <2> QED BY <2>1, <2>2 DEF Row, BookedKept
<1>8. ASSUME NEW a \in Accounts, DeleteAccount(a) PROVE Kept
  BY <1>8 DEF DeleteAccount
<1> QED BY <1>1, <1>2, <1>3, <1>4, <1>5, <1>6, <1>7, <1>8, StepCases DEF BookedKept

(* A dismissed line stays exactly as it is, whatever a concurrent tick, confirm*)
(* or rule change had read before the dismissal (bookRow's re-check).          *)
THEOREM ParkedForGood == Spec => DismissedForGood
<1>1. IInv /\ RuleOnBooked /\ [Next]_vars =>
        [\A l \in Lines : inbox[l].status = "dismissed" => inbox'[l] = inbox[l]]_vars
  BY ParkedStays
<1> QED BY <1>1, Invariance, RuleOnBookedInvariance, PTL DEF Spec, DismissedForGood

(* A booked row keeps its transaction until deleteTransaction takes that away  *)
(* and returns the row to pending in the same step, and its envelope until     *)
(* then or until deleteEnvelope deletes the envelope itself.                   *)
THEOREM BookingsAreKept == Spec => BookedUntouched
<1>1. IInv /\ [Next]_vars =>
        [\A l \in Lines : inbox[l].status = "booked" =>
           \/ BookedKept(l)
           \/ inbox'[l].status = "pending" /\ ledger'[inbox[l].txn] = NONE]_vars
  BY BookedStays
<1> QED BY <1>1, Invariance, PTL DEF Spec, BookedUntouched

(* What a member or the rules settled stays settled: both of the above.         *)
THEOREM SettledForGood == Spec => SettledKept
BY ParkedForGood, BookingsAreKept DEF SettledKept

(* Between bookRow's re-check and its commit the line is nobody else's: what   *)
(* two concurrent bookRow calls for one line rely on.                          *)
THEOREM BookingExcludesOthers == Spec => []BookingIsExclusive
<1>1. IInv => BookingIsExclusive
  BY DEF IInv
<1> QED BY <1>1, Invariance, PTL

(* ------------------------------------------------ the inbox implements FeohInbox *)
LEMMA AbstractInit == Init => Abstract!Init
<1> SUFFICES ASSUME Init PROVE Abstract!Init
  OBVIOUS
<1>1. ASSUME NEW l \in Lines PROVE inbox[l].status = "absent" /\ TxnsOf(l) = {}
  BY DEF Init, AbsentRow, TxnsOf
<1> QED BY <1>1 DEF Init, Abstract!Init, Charges

(* What a line is charged by follows the ledger's transactions for it.         *)
LEMMA ChargesKept ==
  ASSUME NEW l \in Lines, TxnsOf(l)' = TxnsOf(l),
         \A t \in TxnsOf(l) : ledger'[t].envelope = ledger[t].envelope
  PROVE  Charges(l)' = Charges(l)
BY DEF Charges

LEMMA AbstractQuiet ==
  ASSUME UNCHANGED <<ledger, envelopes>>, \A l \in Lines : inbox'[l].status = inbox[l].status
  PROVE  UNCHANGED Abstract!vars
<1>1. ASSUME NEW l \in Lines PROVE Charges(l)' = Charges(l)
  BY DEF Charges, TxnsOf
<1> QED BY <1>1 DEF Abstract!vars

(* A step that moves one row's status and leaves the ledger alone.             *)
LEMMA AbstractMove ==
  ASSUME NEW l \in Lines, NEW s, UNCHANGED <<ledger, envelopes>>,
         \A m \in Lines : inbox'[m].status = IF m = l THEN s ELSE inbox[m].status
  PROVE  /\ [m \in Lines |-> inbox'[m].status]
              = [[m \in Lines |-> inbox[m].status] EXCEPT ![l] = s]
         /\ [m \in Lines |-> Charges(m)'] = [m \in Lines |-> Charges(m)]
<1>1. ASSUME NEW m \in Lines PROVE Charges(m)' = Charges(m)
  BY DEF Charges, TxnsOf
<1> QED BY <1>1

LEMMA AbstractBook ==
  ASSUME IInv, NEW p \in Procs, NEW t \in Txns, BookCommit(p, t)
  PROVE  \E l \in Lines : Abstract!Book(l)
<1>0. Types /\ ExactlyOnce
  BY DEF IInv
<1>1. PICK l \in Lines, e \in Envelopes, a \in Accounts, r \in RuleIds \cup {NONE} :
         /\ inbox[l].status = "pending" /\ ledger[t] = NONE
         /\ e \in envelopes /\ UNCHANGED envelopes
         /\ inbox'  = [inbox EXCEPT ![l] =
                         [status |-> "booked", txn |-> t, rule |-> r, envelope |-> e]]
         /\ ledger' = [ledger EXCEPT ![t] = [line |-> l, envelope |-> e, account |-> a]]
  BY BookCommitWrites
<1>2. /\ ledger'[t].line = l /\ ledger'[t].envelope = e /\ ledger'[t] # NONE
      /\ \A u \in Txns \ {t} : ledger'[u] = ledger[u]
  <2>1. [line |-> l, envelope |-> e, account |-> a] # NONE
    BY ImportAssumption DEF Entry
  <2> QED BY <1>0, <1>1, <2>1 DEF Types
<1>3. TxnsOf(l) = {} /\ Charges(l) = {}
  BY <1>0, <1>1 DEF ExactlyOnce, Charges
<1>4. Charges(l)' = {<<t, e>>}
  <2>1. TxnsOf(l)' = {t}
    BY <1>2, <1>3 DEF TxnsOf
  <2> QED BY <1>2, <2>1 DEF Charges
<1>5. ASSUME NEW m \in Lines, m # l PROVE Charges(m)' = Charges(m)
  <2>1. TxnsOf(m)' = TxnsOf(m) /\ t \notin TxnsOf(m)
    BY <1>1, <1>2, <1>5 DEF TxnsOf
  <2> QED BY <1>2, <2>1, ChargesKept DEF TxnsOf
<1>6. ASSUME NEW m \in Lines
      PROVE  inbox'[m].status = IF m = l THEN "booked" ELSE inbox[m].status
  BY <1>0, <1>1 DEF Types
<1>7. [m \in Lines |-> inbox'[m].status]
        = [[m \in Lines |-> inbox[m].status] EXCEPT ![l] = "booked"]
  BY <1>6
<1>8. [m \in Lines |-> Charges(m)']
        = [[m \in Lines |-> Charges(m)] EXCEPT ![l] = {<<t, e>>}]
  <2>1. ASSUME NEW m \in Lines
        PROVE  Charges(m)' = IF m = l THEN {<<t, e>>} ELSE Charges(m)
    BY <1>4, <1>5
  <2> QED BY <2>1
<1>9. Abstract!Book(l)
  BY <1>1, <1>3, <1>7, <1>8 DEF Abstract!Book
<1> QED BY <1>9

LEMMA AbstractReturn ==
  ASSUME IInv, NEW t \in Txns, DeleteTransaction(t)
  PROVE  \E l \in Lines : Abstract!Return(l)
<1>0. Types
  BY DEF IInv
<1>1. PICK l \in Lines :
         /\ inbox[l].status = "booked" /\ TxnsOf(l) = {t}
         /\ inbox'  = [inbox EXCEPT ![l] = [AbsentRow EXCEPT !.status = "pending"]]
         /\ ledger' = [ledger EXCEPT ![t] = NONE] /\ UNCHANGED envelopes
  BY DeleteTransactionWrites
<1>2. ledger'[t] = NONE /\ \A u \in Txns \ {t} : ledger'[u] = ledger[u]
  BY <1>0, <1>1 DEF Types
<1>3. Charges(l)' = {}
  BY <1>1, <1>2 DEF Charges, TxnsOf
<1>4. ASSUME NEW m \in Lines, m # l PROVE Charges(m)' = Charges(m)
  <2>1. t \notin TxnsOf(m)
    BY <1>1, <1>4 DEF TxnsOf
  <2>2. TxnsOf(m)' = TxnsOf(m)
    BY <1>2, <2>1 DEF TxnsOf
  <2> QED BY <1>2, <2>1, <2>2, ChargesKept DEF TxnsOf
<1>5. ASSUME NEW m \in Lines
      PROVE  inbox'[m].status = IF m = l THEN "pending" ELSE inbox[m].status
  BY <1>0, <1>1 DEF Types, AbsentRow
<1> QED BY <1>1, <1>3, <1>4, <1>5 DEF Abstract!Return

(* A closed envelope leaves the charges made to it, each without an envelope. *)
LEMMA AbstractClose ==
  ASSUME IInv, NEW e \in Envelopes, DeleteEnvelope(e)
  PROVE  Abstract!Close(e)
<1> DEFINE emptied(c) == <<c[1], IF c[2] = e THEN NONE ELSE c[2]>>
<1>0. Types /\ e \in envelopes /\ envelopes' = envelopes \ {e}
  BY DEF IInv, DeleteEnvelope
<1>1. ASSUME NEW l \in Lines
      PROVE  inbox'[l].status = inbox[l].status /\ TxnsOf(l)' = TxnsOf(l)
  BY <1>1, EnvelopeGone DEF TxnsOf
<1>2. ASSUME NEW l \in Lines PROVE Charges(l)' = {emptied(c) : c \in Charges(l)}
  <2>1. ASSUME NEW t \in TxnsOf(l)
        PROVE  <<t, ledger'[t].envelope>> = emptied(<<t, ledger[t].envelope>>)
    BY <1>2, EnvelopeGone DEF TxnsOf
  <2>2. Charges(l)' = {<<t, ledger'[t].envelope>> : t \in TxnsOf(l)}
    BY <1>1 DEF Charges
  <2> HIDE DEF emptied
  <2>3. ASSUME NEW c \in Charges(l) PROVE emptied(c) \in Charges(l)'
    <3>1. PICK t \in TxnsOf(l) : c = <<t, ledger[t].envelope>>
      BY DEF Charges
    <3>2. emptied(c) = <<t, ledger'[t].envelope>>
      BY <2>1, <3>1
    <3> QED BY <2>2, <3>2
  <2>4. ASSUME NEW d \in Charges(l)' PROVE \E c \in Charges(l) : d = emptied(c)
    <3>1. PICK t \in TxnsOf(l) : d = <<t, ledger'[t].envelope>>
      BY <2>2, <2>4
    <3>2. <<t, ledger[t].envelope>> \in Charges(l)
      BY DEF Charges
    <3> QED BY <2>1, <3>1, <3>2
  <2> QED BY <2>3, <2>4
<1>3. UNCHANGED [l \in Lines |-> inbox[l].status]
  BY <1>1
<1>4. [l \in Lines |-> Charges(l)']
        = [l \in Lines |-> {emptied(c) : c \in [m \in Lines |-> Charges(m)][l]}]
  <2> HIDE DEF emptied
  <2> QED BY <1>2
<1> QED BY <1>0, <1>3, <1>4 DEF Abstract!Close

LEMMA AbstractStep ==
  ASSUME IInv, [Next]_vars
  PROVE  [Abstract!Next]_(Abstract!vars)
<1>0. Types
  BY DEF IInv
<1>1. CASE UNCHANGED <<inbox, ledger, envelopes>>
  BY <1>1, AbstractQuiet
<1>2. ASSUME NEW p \in Procs, NEW l \in Lines, IngestInsert(p, l) PROVE Abstract!Arrive(l)
  <2>1. \A m \in Lines : inbox'[m].status = IF m = l THEN "pending" ELSE inbox[m].status
    BY <1>0, <1>2 DEF IngestInsert, Types, AbsentRow
  <2>2. inbox[l].status = "absent" /\ UNCHANGED <<ledger, envelopes>>
    BY <1>2 DEF IngestInsert
  <2> QED BY <2>1, <2>2, AbstractMove DEF Abstract!Arrive
<1>3. ASSUME NEW p \in Procs, NEW t \in Txns, BookCommit(p, t)
      PROVE  \E l \in Lines : Abstract!Book(l)
  BY <1>3, AbstractBook
<1>4. ASSUME NEW l \in Lines, Dismiss(l) PROVE Abstract!Park(l)
  <2>1. \A m \in Lines : inbox'[m].status = IF m = l THEN "dismissed" ELSE inbox[m].status
    BY <1>0, <1>4 DEF Dismiss, Types, Row
  <2>2. inbox[l].status = "pending" /\ UNCHANGED <<ledger, envelopes>>
    BY <1>4 DEF Dismiss
  <2> QED BY <2>1, <2>2, AbstractMove DEF Abstract!Park
<1>5. ASSUME NEW t \in Txns, DeleteTransaction(t) PROVE \E l \in Lines : Abstract!Return(l)
  BY <1>5, AbstractReturn
<1>6. ASSUME NEW r \in RuleIds, DeleteRule(r) PROVE UNCHANGED Abstract!vars
  <2>1. \A m \in Lines : inbox'[m].status = inbox[m].status
    BY <1>0, <1>6 DEF DeleteRule, Types, Row
  <2> QED BY <1>6, <2>1, AbstractQuiet DEF DeleteRule
<1>7. ASSUME NEW e \in Envelopes, DeleteEnvelope(e) PROVE Abstract!Close(e)
  BY <1>7, AbstractClose
<1>8. ASSUME NEW a \in Accounts, DeleteAccount(a) PROVE UNCHANGED Abstract!vars
  <2>1. ASSUME NEW l \in Lines PROVE Charges(l)' = Charges(l)
    <3>1. TxnsOf(l)' = TxnsOf(l)
      BY <1>8, AccountGone DEF TxnsOf
    <3>2. \A t \in TxnsOf(l) : ledger'[t].envelope = ledger[t].envelope
      BY <1>8, AccountGone DEF TxnsOf
    <3> QED BY <3>1, <3>2, ChargesKept
  <2> QED BY <1>8, <2>1 DEF DeleteAccount, Abstract!vars
<1> QED BY <1>1, <1>2, <1>3, <1>4, <1>5, <1>6, <1>7, <1>8, StepCases DEF Abstract!Next

(* The inbox keeps its promise: every behaviour of the import service, whatever*)
(* ticks, members, rule changes and crashes interleave, is one of FeohInbox.   *)
THEOREM ImplementsInbox == Spec => InboxSpec
<1>1. Init => Abstract!Init
  BY AbstractInit
<1>2. IInv /\ [Next]_vars => [Abstract!Next]_(Abstract!vars)
  BY AbstractStep
<1> QED BY <1>1, <1>2, Invariance, PTL DEF Spec, InboxSpec, Abstract!Spec
=============================================================================
