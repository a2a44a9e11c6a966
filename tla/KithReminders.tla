----------------------------- MODULE KithReminders -----------------------------
(***************************************************************************)
(* The reminders on the wall: GET /kith/reminders follows the pages of     *)
(* another service, which may change between two of them, and windows what *)
(* it collected (modules/kith/client.ts, routes.ts).                       *)
(***************************************************************************)
EXTENDS Integers, Sequences, FiniteSets, SequencesExt, TLC

CONSTANTS Ids,          \* \subseteq Nat: the order of reminders that are due together
          Times,        \* when a reminder can be due
          Froms, Tos,   \* windows asked for
          PageLimit,    \* KITH_PAGE_LIMIT, 100 in the code
          MaxChanges,   \* bound: changes upstream
          NONE

VARIABLES reminders,  \* upstream, what the household key may see of it
          changes,    \* how often it changed
          listing     \* the request in progress, NONE before it

kithVars == <<reminders, changes, listing>>
-----------------------------------------------------------------------------
Statuses == {"pending", "snoozed", "done"}
Reminder == [due : Times, until : Times \cup {NONE}, status : Statuses]

(* A snooze ends after the reminder was due. *)
Sensible(r) == (r.until # NONE => r.until > r.due) /\ (r.until # NONE => r.status = "snoozed")

Possible == {r \in Reminder : Sensible(r)}

KithTypeOK ==
  /\ reminders \in [Ids -> Possible \cup {NONE}]
  /\ changes \in 0..MaxChanges
  /\ listing = NONE \/ /\ listing.pc \in {"page", "answered", "unavailable"}
                       /\ listing.all \in Seq([id : Ids, reminder : Possible])

KithInit == reminders \in [Ids -> Possible \cup {NONE}] /\ changes = 0 /\ listing = NONE
-----------------------------------------------------------------------------
(* The upstream query: pending and snoozed, due by the given time, by due date. *)
Upstream(to) ==
  LET found == {i \in Ids : reminders[i] # NONE /\ reminders[i].status # "done" /\ reminders[i].due <= to}
      Before(i, j) == reminders[i].due < reminders[j].due
                        \/ (reminders[i].due = reminders[j].due /\ i < j)
      order == SetToSortSeq(found, Before)
  IN  [k \in 1..Len(order) |-> [id |-> order[k], reminder |-> reminders[order[k]]]]

effectiveDueAt(r) == IF r.status = "snoozed" /\ r.until # NONE THEN r.until ELSE r.due

InWindow(r, from, to) == effectiveDueAt(r) \in from..to

Ask(from, to) ==
  /\ listing = NONE /\ from <= to
  /\ listing' = [pc |-> "page", from |-> from, to |-> to, all |-> <<>>, since |-> changes, answer |-> <<>>]
  /\ UNCHANGED <<reminders, changes>>

Windowed(all, from, to) ==
  LET Keep(e)      == InWindow(e.reminder, from, to)
      Before(e, f) == effectiveDueAt(e.reminder) < effectiveDueAt(f.reminder)
  IN  SortSeq(SelectSeq(all, Keep), Before)

(* Seeded fault: a page that is not full is taken for the last, and for nothing. *)
FullPages(page, all) == IF Len(page) < PageLimit THEN all ELSE all \o page

Collected(page, all) == all \o page

(* listAllReminders: a page at the offset collected so far; the last one reaches the total or is empty. *)
NextPage ==
  /\ listing # NONE /\ listing.pc = "page"
  /\ LET total == Upstream(listing.to)
         from  == Len(listing.all)
         page  == SubSeq(total, from + 1, IF from + PageLimit < Len(total) THEN from + PageLimit ELSE Len(total))
         all   == Collected(page, listing.all)
     IN  listing' = IF from + Len(page) >= Len(total) \/ page = <<>>
                    THEN [listing EXCEPT !.pc = "answered", !.all = all,
                                         !.answer = Windowed(all, listing.from, listing.to)]
                    ELSE [listing EXCEPT !.all = all]
  /\ UNCHANGED <<reminders, changes>>

(* Unreachable, timed out, not JSON, or the credential refused: 502. *)
PageFails ==
  /\ listing # NONE /\ listing.pc = "page"
  /\ listing' = [listing EXCEPT !.pc = "unavailable"]
  /\ UNCHANGED <<reminders, changes>>

(* Somebody adds, changes or removes a reminder over there. *)
Change(i, r) ==
  /\ listing # NONE /\ listing.pc = "page"
  /\ changes < MaxChanges /\ reminders[i] # r
  /\ reminders' = [reminders EXCEPT ![i] = r] /\ changes' = changes + 1
  /\ UNCHANGED listing

KithNext ==
  \/ \E from \in Froms, to \in Tos : Ask(from, to)
  \/ NextPage \/ PageFails
  \/ \E i \in Ids, r \in Possible \cup {NONE} : Change(i, r)

KithSpec == KithInit /\ [][KithNext]_kithVars
-----------------------------------------------------------------------------
(* A listing during which nothing changed upstream shows every open reminder     *)
(* whose effective due date is in the window, once, in that order (routes.ts:39-45).*)
WindowComplete ==
  listing # NONE /\ listing.pc = "answered" /\ listing.since = changes =>
    LET answer   == listing.answer
        Shown(i) == {k \in DOMAIN answer : answer[k].id = i}
        Due(r)   == IF r.until # NONE THEN r.until ELSE r.due
        open     == {i \in Ids : reminders[i] # NONE /\ reminders[i].status # "done"}
    IN  /\ \A i \in Ids :
             Cardinality(Shown(i)) =
               IF i \in open /\ Due(reminders[i]) \in listing.from..listing.to THEN 1 ELSE 0
        /\ \A j, k \in DOMAIN answer : j < k => Due(answer[j].reminder) <= Due(answer[k].reminder)
=============================================================================
