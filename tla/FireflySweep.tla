----------------------------- MODULE FireflySweep -----------------------------
(***************************************************************************)
(* The pull of bank lines from Firefly III: src/modules/feoh/import/sync.ts *)
(* and the cursor, the window and the cache of providers/firefly.ts.        *)
(*                                                                         *)
(* A line is a number, given out by Firefly in the order lines arrive      *)
(* there; bank[i] is its calendar date, which the bank may backdate by up  *)
(* to Late days and date ahead by up to Ahead.  Dates are day numbers.     *)
(* What ingest does with a line is FeohImport's subject: here a line is in *)
(* the inbox or it is not.                                                 *)
(***************************************************************************)
EXTENDS Integers, Sequences, FiniteSets

CONSTANTS Callers,      \* who starts a tick: the poll loop, the manual trigger
          Overlap,      \* overlapDays
          Limit,        \* PAGE_LIMIT
          PageSize,     \* of Firefly's pages
          MaxPages,     \* MAX_PAGES_PER_TICK
          Late, Ahead,  \* how far a line's date may lie behind or before its arrival
          Faults,       \* what may go wrong in an instance (a bound): see below
          MaxLines, MaxDay, \* bounds of an instance
          NONE

ASSUME SweepAssumption ==
  /\ Overlap \in Nat /\ Late \in Nat /\ Ahead \in Nat /\ Late + Ahead <= Overlap
  /\ Limit \in Nat \ {0} /\ PageSize \in Nat \ {0} /\ MaxPages \in Nat \ {0}
  /\ MaxLines \in Nat /\ MaxDay \in Nat
  /\ Faults \subseteq {"fetch", "ingest", "restart", "restartMidSweep", "remove", "removeMidFetch"}
  /\ NONE \notin Int

VARIABLES today,
          bank,      \* bank[i]: the date of Firefly's i-th line
          removed,   \* lines deleted in Firefly since
          inbox,     \* lines ingested: rows of feoh_imported_transactions
          cursor,    \* feoh_import_state.cursor: since (NONE: no bound) and after (0: null)
          failing,   \* feoh_import_state.last_error is set
          cache,     \* the provider's fetched window, in memory
          running,   \* sync.ts's in-process flag
          tick       \* what each caller is doing

vars == <<today, bank, removed, inbox, cursor, failing, cache, running, tick>>
feed == <<inbox, cursor, failing, cache, running, tick>>
firefly == <<today, bank, removed>>
-----------------------------------------------------------------------------
AllLines == 1..Len(bank)
Cursors  == [since : Int \cup {NONE}, after : Nat]
NoCache  == [since |-> NONE, lines |-> {}, full |-> FALSE]
NoTick   == [pc |-> "idle", cursor |-> [since |-> NONE, after |-> 0], todo |-> {},
             next |-> 0, checkpoint |-> NONE, pages |-> 0, read |-> 0, got |-> {}, end |-> 0]

TypeOK ==
  /\ today \in Nat
  /\ bank \in Seq(Int)
  /\ removed \subseteq AllLines /\ inbox \subseteq AllLines
  /\ cursor \in Cursors /\ cursor.after \in {0} \cup AllLines
  /\ failing \in BOOLEAN /\ running \in BOOLEAN
  /\ cache \in [since : Int \cup {NONE}, lines : SUBSET AllLines, full : BOOLEAN]
  /\ tick \in [Callers -> [pc : {"idle", "list", "fetched", "page"}, cursor : Cursors,
                           todo : SUBSET AllLines, next : {0} \cup AllLines,
                           checkpoint : Int \cup {NONE}, pages : 0..(MaxPages - 1),
                           read : Nat, got : SUBSET AllLines, end : Int]]
  /\ \A v, w \in Callers : tick[v].pc # "idle" /\ tick[w].pc # "idle" => v = w
  /\ running <=> \E w \in Callers : tick[w].pc # "idle"

Init ==
  /\ today = 0 /\ bank = <<>> /\ removed = {} /\ inbox = {}
  /\ cursor = [since |-> NONE, after |-> 0]
  /\ failing = FALSE /\ cache = NoCache /\ running = FALSE
  /\ tick = [w \in Callers |-> NoTick]
-----------------------------------------------------------------------------
(* compareKey: date, then Firefly's own numbering. *)
Earlier(i, j) == bank[i] < bank[j] \/ (bank[i] = bank[j] /\ i < j)

Least(S, i) == i \in S /\ \A j \in S \ {i} : Earlier(i, j)

(* With a start there is also an end, tomorrow. *)
Window(since, end) ==
  {i \in AllLines \ removed : since # NONE => since <= bank[i] /\ bank[i] <= end}

(* Firefly numbers its pages from the newest line. *)
OnPage(n, lines) ==
  {i \in lines : Cardinality({j \in lines : Earlier(i, j)}) \in ((n - 1) * PageSize)..(n * PageSize - 1)}

\* Seeded fault: the last page, counted from one, is not read.
LastButOne(n, lines) == (n + 1) * PageSize >= Cardinality(lines)

IsLastPage(n, lines) == n * PageSize >= Cardinality(lines)

After(lines, a) == {i \in lines : a # 0 => Earlier(a, i)}

(* A page is the first Limit lines; the next one starts after the last of them, *)
(* or there is none (0) if nothing is left.                                     *)
FirstOf(rest) == {i \in rest : Cardinality({j \in rest : Earlier(j, i)}) < Limit}

(* Seeded fault: the cursor is the next page's, not the one this page starts after. *)
NextAfterOffByOne(rest) ==
  IF Cardinality(rest) <= Limit THEN 0
  ELSE CHOOSE i \in rest \ FirstOf(rest) : \A j \in rest \ (FirstOf(rest) \cup {i}) : Earlier(i, j)

NextAfter(rest) == IF Cardinality(rest) <= Limit THEN 0
                   ELSE CHOOSE i \in FirstOf(rest) : \A j \in FirstOf(rest) \ {i} : Earlier(j, i)

LastDate(lines) == CHOOSE d \in {bank[i] : i \in lines} : \A i \in lines : bank[i] <= d

(* Seeded fault: the checkpoint is the last date seen, without the overlap. *)
CheckpointNoOverlap(lines, since) == IF lines = {} THEN since ELSE LastDate(lines)

Checkpoint(lines, since) == IF lines = {} THEN since ELSE LastDate(lines) - Overlap
-----------------------------------------------------------------------------
(* Seeded fault: a tick does not look at the flag. *)
StartTickAnyway(w) ==
  /\ tick[w].pc = "idle"
  /\ running' = TRUE
  /\ tick' = [tick EXCEPT ![w] = [NoTick EXCEPT !.pc = "list", !.cursor = cursor]]
  /\ UNCHANGED <<inbox, cursor, failing, cache>> /\ UNCHANGED firefly

(* runImportTick / runSweep *)
StartTick(w) ==
  /\ tick[w].pc = "idle" /\ ~running
  /\ running' = TRUE
  /\ tick' = [tick EXCEPT ![w] = [NoTick EXCEPT !.pc = "list", !.cursor = cursor]]
  /\ UNCHANGED <<inbox, cursor, failing, cache>> /\ UNCHANGED firefly

(* The first call of a sweep, and the first call of a process, fetch. *)
MustFetch(c) == c.after = 0 \/ ~cache.full \/ cache.since # c.since

(* fetchAllLines: the pages one by one, as they are when each is asked for. *)
FetchPage(w) ==
  LET c    == tick[w].cursor
      n    == tick[w].read + 1
      end  == IF n = 1 THEN today + 1 ELSE tick[w].end
      rows == Window(c.since, end)
      got  == tick[w].got \cup OnPage(n, rows)
  IN  /\ tick[w].pc = "list" /\ MustFetch(c)
      /\ IF IsLastPage(n, rows)
         THEN /\ cache' = [since |-> c.since, lines |-> got, full |-> TRUE]
              /\ tick' = [tick EXCEPT ![w] = [NoTick EXCEPT !.pc = "fetched", !.cursor = c, !.pages = tick[w].pages]]
         ELSE /\ tick' = [tick EXCEPT ![w].read = n, ![w].got = got, ![w].end = end]
              /\ UNCHANGED cache
      /\ UNCHANGED <<inbox, cursor, failing, running>> /\ UNCHANGED firefly

ListSince(w) ==
  LET c     == tick[w].cursor
      rest  == After(cache.lines, c.after)
  IN  /\ tick[w].pc = "fetched" \/ (tick[w].pc = "list" /\ ~MustFetch(c))
      /\ tick' = [tick EXCEPT ![w] = [NoTick EXCEPT !.pc = "page", !.cursor = c, !.todo = FirstOf(rest),
                     !.next = NextAfter(rest), !.checkpoint = Checkpoint(cache.lines, c.since),
                     !.pages = tick[w].pages]]
      /\ UNCHANGED <<inbox, cursor, failing, running, cache>> /\ UNCHANGED firefly

IngestLine(w, i) ==
  /\ tick[w].pc = "page" /\ Least(tick[w].todo, i)
  /\ inbox' = inbox \cup {i}
  /\ tick' = [tick EXCEPT ![w].todo = @ \ {i}]
  /\ UNCHANGED <<cursor, failing, cache, running>> /\ UNCHANGED firefly

TickEnds(w, failed) ==
  /\ failing' = failed
  /\ running' = FALSE
  /\ tick' = [tick EXCEPT ![w] = NoTick]

(* Seeded fault: no page cap. *)
SaveCursorNoCap(w) ==
  LET next == [since |-> tick[w].cursor.since, after |-> tick[w].next]
  IN  /\ tick[w].pc = "page" /\ tick[w].todo = {} /\ tick[w].next # 0
      /\ cursor' = next
      /\ tick' = [tick EXCEPT ![w] =
                    [NoTick EXCEPT !.pc = "list", !.cursor = next, !.pages = tick[w].pages + 1]]
      /\ UNCHANGED <<inbox, failing, running, cache>> /\ UNCHANGED firefly

(* saveCursor, and the throw at the page cap. *)
SaveCursor(w) ==
  LET next  == [since |-> tick[w].cursor.since, after |-> tick[w].next]
      pages == tick[w].pages + 1
  IN  /\ tick[w].pc = "page" /\ tick[w].todo = {} /\ tick[w].next # 0
      /\ cursor' = next
      /\ IF pages >= MaxPages
         THEN TickEnds(w, TRUE)
         ELSE /\ tick' = [tick EXCEPT ![w] =
                            [NoTick EXCEPT !.pc = "list", !.cursor = next, !.pages = pages]]
              /\ UNCHANGED <<failing, running>>
      /\ UNCHANGED <<inbox, cache>> /\ UNCHANGED firefly

SaveSuccess(w) ==
  /\ tick[w].pc = "page" /\ tick[w].todo = {} /\ tick[w].next = 0
  /\ cursor' = [since |-> tick[w].checkpoint, after |-> 0]
  /\ TickEnds(w, FALSE)
  /\ UNCHANGED <<inbox, cache>> /\ UNCHANGED firefly

(* A tick may fail on the fetch, or on some line of the page. *)
(* Seeded fault: a failed fetch leaves the flag set.          *)
FetchFailsRunning(w) ==
  /\ "fetch" \in Faults
  /\ tick[w].pc = "list" /\ MustFetch(tick[w].cursor)
  /\ failing' = TRUE
  /\ tick' = [tick EXCEPT ![w] = NoTick]
  /\ UNCHANGED <<inbox, cursor, cache, running>> /\ UNCHANGED firefly

FetchFails(w) ==
  /\ "fetch" \in Faults
  /\ tick[w].pc = "list" /\ MustFetch(tick[w].cursor)
  /\ TickEnds(w, TRUE)
  /\ UNCHANGED <<inbox, cursor, cache>> /\ UNCHANGED firefly

IngestFails(w) ==
  /\ "ingest" \in Faults
  /\ tick[w].pc = "page" /\ tick[w].todo # {}
  /\ TickEnds(w, TRUE)
  /\ UNCHANGED <<inbox, cursor, cache>> /\ UNCHANGED firefly

(* The process stops and starts again: what was in memory is gone. *)
Restart ==
  /\ IF cursor.after = 0 THEN "restart" \in Faults ELSE "restartMidSweep" \in Faults
  /\ cache.full \/ running
  /\ cache' = NoCache
  /\ running' = FALSE
  /\ tick' = [w \in Callers |-> NoTick]
  /\ UNCHANGED <<inbox, cursor, failing>> /\ UNCHANGED firefly
-----------------------------------------------------------------------------
(* Firefly and the calendar *)
LineArrives(d) ==
  /\ Len(bank) < MaxLines
  /\ bank' = Append(bank, d)
  /\ UNCHANGED <<today, removed>> /\ UNCHANGED feed

LineRemoved(i) ==
  /\ IF \E w \in Callers : tick[w].read > 0 THEN "removeMidFetch" \in Faults ELSE "remove" \in Faults
  /\ i \notin removed
  /\ removed' = removed \cup {i}
  /\ UNCHANGED <<today, bank>> /\ UNCHANGED feed

NextDay ==
  /\ today < MaxDay
  /\ today' = today + 1
  /\ UNCHANGED <<bank, removed>> /\ UNCHANGED feed

Sweep(w) ==
  \/ FetchPage(w) \/ ListSince(w) \/ SaveCursor(w) \/ SaveSuccess(w)
  \/ \E i \in AllLines : IngestLine(w, i)

Next ==
  \/ \E w \in Callers : StartTick(w) \/ Sweep(w) \/ FetchFails(w) \/ IngestFails(w)
  \/ Restart
  \/ \E d \in (today - Late)..(today + Ahead) : LineArrives(d)
  \/ \E i \in AllLines : LineRemoved(i)
  \/ NextDay

Spec == Init /\ [][Next]_vars

(* The poll loop goes on ticking, and no step of a sweep, nor any one request of  *)
(* a fetch, fails every time it is tried: Firefly and the database are not down  *)
(* for ever.                                                                    *)
Fairness ==
  /\ WF_vars(\E w \in Callers : StartTick(w))
  /\ \A n \in 0..(MaxLines \div PageSize) : SF_vars(\E w \in Callers : tick[w].read = n /\ FetchPage(w))
  /\ SF_vars(\E w \in Callers : ListSince(w))
  /\ SF_vars(\E w \in Callers : SaveCursor(w))
  /\ SF_vars(\E w \in Callers : SaveSuccess(w))
  /\ \A i \in 1..MaxLines : SF_vars(\E w \in Callers : IngestLine(w, i))

FairSpec == Spec /\ Fairness
-----------------------------------------------------------------------------
Missing == AllLines \ (inbox \cup removed)

(* No bank line is lost.  Whatever has not been ingested lies on or after the  *)
(* date the next sweep starts from, although `since` moves up with every sweep,*)
(* banks backdate, lines arrive between two pages or before a checkpoint, ticks *)
(* fail half way ("a date alone would ... lose the remainder forever").  And    *)
(* the persisted position inside a sweep never runs ahead of the inbox: every   *)
(* line of the window it was taken from, up to it, is written ("advance the     *)
(* cursor ONLY after the whole page is written").                              *)
NoLineLost ==
  /\ \A i \in Missing : cursor.since # NONE => cursor.since <= bank[i]
  /\ cursor.after # 0 /\ cache.full =>
       \A i \in cache.lines \ inbox : Earlier(cursor.after, i)

(* Every line Firefly holds reaches the inbox, through failing fetches and the *)
(* page cap.                                                                   *)
EveryLineArrives ==
  \A i \in 1..MaxLines : (i \in Missing) ~> (i \notin Missing)
=============================================================================
