---------------------------- MODULE CalendarEvents ----------------------------
(***************************************************************************)
(* The household's own events: modules/calendar/service.ts behind          *)
(* routes.ts, with recurrence.ts for the range view.                       *)
(*                                                                         *)
(* Time is counted in steps of the smallest recurrence.  Each statement is *)
(* a step of its own: nothing here runs in a transaction.                  *)
(***************************************************************************)
EXTENDS Integers, FiniteSets

CONSTANTS Adults, Children,
          EventIds,   \* bound: rows of events
          Starts, Lengths,
          Everies,    \* recurrences that advance, in steps
          MaxLength,  \* bound: no update makes an event longer, or end earlier than one before its start
          Mirrored,   \* rows of calendar_mirror_events: start, end and attributed member
          Windows,    \* range queries asked for, each a pair from, to
          MaxSteps,   \* expandEvent's guard (2000)
          Procs,      \* requests in flight
          NONE

VARIABLES events,     \* the rows there are
          attending,  \* event_attendees
          requests    \* what each request is doing

calendarVars == <<events, attending, requests>>
-----------------------------------------------------------------------------
Members == Adults \cup Children
Rows    == DOMAIN events

(* createEventSchema: an event ends no earlier than it starts. *)
Inputs == [start : Starts, length : Lengths, every : Everies \cup {NONE}]

EventTypeOK ==
  /\ Rows \subseteq EventIds
  /\ \A e \in Rows : /\ events[e].start \in Int /\ events[e].end \in Int
                     /\ events[e].every \in Everies \cup {NONE} /\ events[e].by \in Members
  /\ attending \subseteq Rows \X Members
  /\ \A p \in Procs : requests[p] = NONE \/ requests[p].pc \in {"write", "clear", "invite"}

EventInit == events = <<>> /\ attending = {} /\ requests = [p \in Procs |-> NONE]
-----------------------------------------------------------------------------
At(p, pc)   == requests[p] # NONE /\ requests[p].pc = pc
Does(p, r)  == requests' = [requests EXCEPT ![p] = r]
Answers(p)  == Does(p, NONE)

WithEvent(e, row) == [x \in Rows \cup {e} |-> IF x = e THEN row ELSE events[x]]

(* setAttendees: what is left of a request once its event is written. *)
Invites(p, e, who) == Does(p, [pc |-> "clear", event |-> e, who |-> who])

(* assertCanMutate: a child touches only what it created. *)
MayMutate(m, e) == e \in Rows /\ (m \in Children => events[e].by = m)
-----------------------------------------------------------------------------
createEvent(p, m, in, who) ==
  /\ requests[p] = NONE
  /\ \E e \in EventIds \ Rows :
       /\ \A q \in Procs : requests[q] # NONE => requests[q].event # e
       /\ events' = WithEvent(e, [start |-> in.start, end |-> in.start + in.length,
                                  every |-> in.every, by |-> m])
       /\ Invites(p, e, who)
  /\ UNCHANGED attending

(* PATCH, POST move and DELETE ask first, and read what the write goes by. *)
Admit(p, m, e, what) ==
  /\ requests[p] = NONE /\ MayMutate(m, e)
  /\ Does(p, [pc |-> "write", event |-> e, what |-> what,
              length |-> events[e].end - events[e].start])
  /\ UNCHANGED <<events, attending>>

(* updateEvent: start, end and recurrence as given, none of them compared. *)
updateEvent(p) ==
  /\ At(p, "write") /\ requests[p].what = "update"
  /\ LET e == requests[p].event
     IN  IF e \in Rows
         THEN /\ \E in \in Inputs, whole \in BOOLEAN :
                   LET end == IF whole THEN in.start + in.length ELSE events[e].end
                   IN  /\ end - in.start \in (-1)..MaxLength
                       /\ events' = WithEvent(e, [events[e] EXCEPT !.start = in.start,
                                                     !.every = in.every, !.end = end])
              /\ \/ Answers(p)
                 \/ \E who \in SUBSET Members : Invites(p, e, who)
         ELSE UNCHANGED events /\ Answers(p)
  /\ UNCHANGED attending

(* moveEvent: an event keeps the length it had when it was read. *)
moveEvent(p) ==
  /\ At(p, "write") /\ requests[p].what = "move"
  /\ LET e == requests[p].event
     IN  \E s \in Starts :
           events' = IF e \in Rows
                     THEN WithEvent(e, [events[e] EXCEPT !.start = s, !.end = s + requests[p].length])
                     ELSE events
  /\ Answers(p)
  /\ UNCHANGED attending

deleteEvent(p) ==
  /\ At(p, "write") /\ requests[p].what = "delete"
  /\ LET e == requests[p].event
     IN  /\ events' = [x \in Rows \ {e} |-> events[x]]
         /\ attending' = {a \in attending : a[1] # e}
  /\ Answers(p)

ClearAttendees(p) ==
  /\ At(p, "clear")
  /\ attending' = {a \in attending : a[1] # requests[p].event}
  /\ IF requests[p].who = {} THEN Answers(p) ELSE Does(p, [requests[p] EXCEPT !.pc = "invite"])
  /\ UNCHANGED events

(* The insert fails as a whole on a pair that is there, or without its event. *)
InviteAttendees(p) ==
  /\ At(p, "invite")
  /\ LET new == {requests[p].event} \X requests[p].who
     IN  attending' = IF requests[p].event \in Rows /\ new \cap attending = {}
                      THEN attending \cup new ELSE attending
  /\ Answers(p)
  /\ UNCHANGED events

(* A process that stops leaves its event written and its attendees not. *)
StopRequests == /\ \E p \in Procs : requests[p] # NONE
                /\ requests' = [p \in Procs |-> NONE]
                /\ UNCHANGED <<events, attending>>

EventNext ==
  \/ \E p \in Procs, m \in Members : \E in \in Inputs, who \in SUBSET Members : createEvent(p, m, in, who)
  \/ \E p \in Procs, m \in Members, e \in Rows :
       \E what \in {"update", "move", "delete"} : Admit(p, m, e, what)
  \/ \E p \in Procs : \/ updateEvent(p) \/ moveEvent(p) \/ deleteEvent(p)
                      \/ ClearAttendees(p) \/ InviteAttendees(p)
  \/ StopRequests

EventSpec == EventInit /\ [][EventNext]_calendarVars
-----------------------------------------------------------------------------
(* Seeded fault: recurring events are asked for like the others. *)
StillRunning(from, to) == {e \in Rows : events[e].end >= from /\ events[e].start <= to}

(* The rows a range query asks the database for. *)
Candidates(from, to) ==
  {e \in Rows : events[e].start <= to /\ (events[e].every = NONE => events[e].end >= from)}

(* expandEvent: the start of each occurrence that overlaps the window. *)
expandEvent(ev, from, to) ==
  LET length == ev.end - ev.start
      steps  == IF ev.every = NONE THEN {0} ELSE {k * ev.every : k \in 0..(MaxSteps - 1)}
  IN  {ev.start + s : s \in {t \in steps : ev.start + t <= to /\ ev.start + t + length >= from}}

Concerns(m, e) == events[e].by = m \/ <<e, m>> \in attending

(* listEvents: native occurrences and mirrored rows, for all or for one member. *)
listEvents(from, to, m) ==
  (UNION { {<<e, s>> : s \in expandEvent(events[e], from, to)} :
             e \in {c \in Candidates(from, to) : (m # NONE) => Concerns(m, c)} })
  \cup {<<NONE, x.start>> :
           x \in {y \in Mirrored : y.end >= from /\ y.start <= to /\ m \in {NONE, y.member}}}
-----------------------------------------------------------------------------
(* An occurrence overlaps a window when some moment is in both of them. *)
Overlaps(s, length, from, to) == \E t \in s..(s + length) : from <= t /\ t <= to

Horizon(to) == 0..to

Occurs(e, s) ==
  LET ev == events[e]
  IN  IF ev.every = NONE THEN s = ev.start
      ELSE s >= ev.start /\ (s - ev.start) % ev.every = 0

(* No event in range began more than MaxSteps of its recurrence before it: later  *)
(* occurrences are dropped without a word, which is a finding.                    *)
Near(to) == \A e \in Rows : events[e].every # NONE => events[e].start + MaxSteps * events[e].every > to

(* No event was updated to end before it starts: updateEvent lets it.             *)
Ordered == \A e \in Rows : events[e].end >= events[e].start

(* The range view shows every occurrence of every event that overlaps the window, *)
(* recurring ones that began long before it included, and no other; for a member  *)
(* it shows what the member created or attends (listEvents, service.ts:59-112).   *)
RangeViewRight ==
  Ordered =>
    \A w \in Windows : w[1] <= w[2] /\ Near(w[2]) =>
      \A m \in Members \cup {NONE} :
        listEvents(w[1], w[2], m)
          = {x \in Rows \X Horizon(w[2]) :
               /\ Occurs(x[1], x[2])
               /\ Overlaps(x[2], events[x[1]].end - events[x[1]].start, w[1], w[2])
               /\ (m # NONE => Concerns(m, x[1]))}
            \cup {<<NONE, x.start>> :
                    x \in {y \in Mirrored : /\ Overlaps(y.start, y.end - y.start, w[1], w[2])
                                            /\ m \in {NONE, y.member}}}
=============================================================================
