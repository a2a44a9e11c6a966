------------------------------ MODULE Selections ------------------------------
(***************************************************************************)
(* Which lists and calendars of which provider a member mirrors, and which *)
(* one is the household's: setAllowlist and setHouseholdList of            *)
(* modules/tasks, setCalendarAllowlistFor and designateHouseholdCalendar   *)
(* of modules/calendar, which are built alike.                             *)
(*                                                                         *)
(* A transaction that replaces a selection reads it first, without a lock, *)
(* and deletes rows by id: a row designated in between goes with its flag. *)
(***************************************************************************)
EXTENDS Integers, FiniteSets

CONSTANTS Adults, Children,
          Providers,
          Lists,      \* the lists of each provider's accounts
          Checked,    \* whether a designation that meets no row is undone: calendars, not tasks
          Procs,      \* requests in flight
          NONE

VARIABLES allowed,    \* the allowlist: [member, provider, list]
          household,  \* the row with is_household, or NONE
          offered,    \* what each member's account at each provider holds, {} without a connection
          request     \* what each request is doing

selectionVars == <<allowed, household, offered, request>>
-----------------------------------------------------------------------------
Members == Adults \cup Children
Entries == [provider : Providers, list : Lists]
AllRows == [member : Members, provider : Providers, list : Lists]

SelectionTypeOK ==
  /\ allowed \subseteq AllRows
  /\ household \in allowed \cup {NONE}
  /\ offered \in [Members \X Providers -> SUBSET Lists]
  /\ \A p \in Procs : request[p] = NONE \/ request[p].pc \in {"discover", "begin", "replace", "designate"}

SelectionInit ==
  /\ allowed = {} /\ household = NONE
  /\ offered = [x \in Members \X Providers |-> {}]
  /\ request = [p \in Procs |-> NONE]
-----------------------------------------------------------------------------
At(p, pc)  == request[p] # NONE /\ request[p].pc = pc
Does(p, r) == request' = [request EXCEPT ![p] = r]
Answers(p) == Does(p, NONE)

RowsOf(m, pr)      == {r \in allowed : r.member = m /\ r.provider = pr}
Chosen(p, pr)      == {e.list : e \in {x \in request[p].entries : x.provider = pr}}
AsRows(m, pr, ids) == [member : {m}, provider : {pr}, list : ids]
-----------------------------------------------------------------------------
StartSelect(p, m, entries) ==
  /\ request[p] = NONE
  /\ Does(p, [pc |-> "discover", member |-> m, entries |-> entries, todo |-> Providers])
  /\ UNCHANGED <<allowed, household, offered>>

(* What goes on to a provider's transaction. *)
Chose(p, pr, live) ==
  Does(p, [pc |-> "begin", member |-> request[p].member, entries |-> request[p].entries,
           todo |-> request[p].todo, at |-> pr, live |-> live])

(* Seeded fault: a provider that cannot be reached offers nothing. *)
OffersNothing(p, pr) == Chose(p, pr, {})

(* A provider the member is not connected to was not in the picker: its rows stay. *)
NotOffered(p, pr) == Does(p, [request[p] EXCEPT !.todo = @ \ {pr}])

(* Each provider in turn: not connected, in error, asked for a list it does not have, or fine. *)
Discover(p) ==
  /\ At(p, "discover")
  /\ \E pr \in request[p].todo :
       LET live == offered[<<request[p].member, pr>>]
       IN  \/ live = {} /\ NotOffered(p, pr)
           \/ Answers(p)
           \/ live # {} /\ Chosen(p, pr) \subseteq live /\ Chose(p, pr, live)
  /\ UNCHANGED <<allowed, household, offered>>

(* Seeded fault: the household's list goes like any other. *)
NeverInUse(rows) == FALSE

InUse(rows) == household \in rows

(* The transaction's first statement; it gives up when a row it would delete is *)
(* the household's.                                                             *)
BeginReplace(p) ==
  /\ At(p, "begin")
  /\ LET r    == request[p]
         gone == {x \in RowsOf(r.member, r.at) : x.list \notin Chosen(p, r.at)}
     IN  IF InUse(gone) THEN Answers(p)
         ELSE Does(p, [pc |-> "replace", member |-> r.member, entries |-> r.entries,
                       todo |-> r.todo, at |-> r.at, live |-> r.live, gone |-> gone,
                       flagged |-> household])
  /\ UNCHANGED <<allowed, household, offered>>

(* The rows a transaction deleted are no longer there by their ids for another one. *)
Replaced(p, next) ==
  request' = [q \in Procs |-> IF q = p THEN next
                              ELSE IF At(q, "replace") THEN [request[q] EXCEPT !.gone = @ \ request[p].gone]
                              ELSE request[q]]

(* The rest of it: deletes what it read, the household's row too when it was designated *)
(* since, and upserts what was chosen.                                                 *)
Replace(p) ==
  /\ At(p, "replace")
  /\ LET r == request[p]
     IN  /\ allowed' = (allowed \ r.gone) \cup AsRows(r.member, r.at, Chosen(p, r.at))
         /\ household' = IF household \in r.gone THEN NONE ELSE household
         /\ Replaced(p, IF r.todo = {r.at} THEN NONE
                        ELSE [pc |-> "discover", member |-> r.member, entries |-> r.entries,
                              todo |-> r.todo \ {r.at}])
  /\ UNCHANGED offered

FinishSelect(p) ==
  /\ At(p, "discover") /\ request[p].todo = {}
  /\ Answers(p)
  /\ UNCHANGED <<allowed, household, offered>>
-----------------------------------------------------------------------------
(* An adult designates one of their own lists, which is asked for first. *)
StartDesignate(p, m, row) ==
  /\ request[p] = NONE /\ m \in Adults
  /\ row.member = m /\ row \in allowed
  /\ Does(p, [pc |-> "designate", row |-> row])
  /\ UNCHANGED <<allowed, household, offered>>

(* Clears every flag and sets one, in a transaction.  A row that was de-selected since *)
(* it was asked for is not met: a calendar's transaction throws, a list's commits.     *)
Designated(row) ==
  IF row \in allowed THEN row ELSE IF Checked THEN household ELSE NONE

Designate(p) ==
  /\ At(p, "designate")
  /\ household' = Designated(request[p].row)
  /\ Answers(p)
  /\ UNCHANGED <<allowed, offered>>
-----------------------------------------------------------------------------
(* A member connects, disconnects, or makes and deletes lists. *)
AccountChanges(m, pr, lists) ==
  /\ offered[<<m, pr>>] # lists
  /\ offered' = [offered EXCEPT ![<<m, pr>>] = lists]
  /\ UNCHANGED <<allowed, household, request>>

(* The process stops: what was committed for some providers stays. *)
StopSelections ==
  /\ \E p \in Procs : request[p] # NONE
  /\ request' = [p \in Procs |-> NONE]
  /\ UNCHANGED <<allowed, household, offered>>

SelectionNext ==
  \/ \E p \in Procs, m \in Members :
       \/ \E entries \in SUBSET Entries : StartSelect(p, m, entries)
       \/ \E row \in allowed : StartDesignate(p, m, row)
  \/ \E p \in Procs : Discover(p) \/ BeginReplace(p) \/ Replace(p) \/ FinishSelect(p) \/ Designate(p)
  \/ \E m \in Members, pr \in Providers, lists \in SUBSET Lists : AccountChanges(m, pr, lists)
  \/ StopSelections

SelectionSpec == SelectionInit /\ [][SelectionNext]_selectionVars
-----------------------------------------------------------------------------
(* A selection never drops what its member could not have seen in the picker: a  *)
(* row goes only by a request of its own member that names other lists and found  *)
(* its provider connected (service.ts:82-90, calendar/service.ts:264-269).  A      *)
(* household that has a list or calendar loses it in two ways only: to a selection *)
(* that had read its row before it was designated (store.ts:214-229 looks at the   *)
(* flag it read), and, for lists, to a designation of a list de-selected meanwhile.*)
SelectionStep ==
  /\ \A row \in allowed \ allowed' :
       \E p \in Procs : /\ At(p, "replace") /\ request[p].live # {}
                        /\ request[p].at = row.provider /\ request[p].member = row.member
                        /\ [provider |-> row.provider, list |-> row.list] \notin request[p].entries
  /\ household # NONE /\ household' = NONE =>
       \/ \E p \in Procs : /\ At(p, "replace") /\ request[p].flagged # household
                          /\ household \in request[p].gone
       \/ \E p \in Procs : ~Checked /\ At(p, "designate") /\ request[p].row \notin allowed
=============================================================================
