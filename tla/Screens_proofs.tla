---------------------------- MODULE Screens_proofs ----------------------------
(* Proofs of what the pages, the calendar and the wall of a household show, each  *)
(* for any number of members, events, suppers, tasks and days.                    *)
EXTENDS Records, Sequences, TLAPS

(* ----------------------------------------------------------- CalendarEvents *)

(* ------------------------------------------------------------------- arithmetic *)
LEMMA MultipleOver == \A k \in Nat, e \in Nat \ {0} : k * e >= 0 /\ (k >= 1 => k * e >= e)
<1> SUFFICES ASSUME NEW k \in Nat, NEW e \in Nat \ {0} PROVE k * e >= 0 /\ (k >= 1 => k * e >= e)
  OBVIOUS
<1>1. k * e >= 0
  BY Z3
<1>2. k >= 1 => (k - 1) * e >= 0
  BY Z3
<1>3. (k - 1) * e = k * e - e
  BY Z3
<1> QED BY <1>1, <1>2, <1>3, Z3

LEMMA MultipleLeaves == ASSUME NEW k \in Nat, NEW e \in Nat \ {0} PROVE (k * e) % e = 0
<1> DEFINE q == (k * e) \div e
           r == (k * e) % e
<1>1. q \in Int /\ r \in 0..(e - 1) /\ k * e = e * q + r
  BY Z3
<1>2. (k - q) * e = r
  BY <1>1, Z3
<1> HIDE DEF q, r
<1>3. CASE k - q >= 1
  BY <1>1, <1>2, <1>3, MultipleOver
<1>4. CASE q - k >= 1
  <2>1. (q - k) * e >= e
    BY <1>1, <1>4, MultipleOver
  <2>2. (q - k) * e = 0 - r
    BY <1>1, <1>2, Z3
  <2> QED BY <1>1, <2>1, <2>2
<1> QED BY <1>1, <1>2, <1>3, <1>4 DEF r

LEMMA WholeQuotient ==
  ASSUME NEW n \in Nat, NEW e \in Nat \ {0}, n % e = 0
  PROVE  n \div e \in Nat /\ n = (n \div e) * e
<1>1. n \div e \in Int /\ n = e * (n \div e)
  BY SMT
<1>2. n = (n \div e) * e
  BY <1>1, Z3
<1>3. CASE n \div e < 0
  <2>1. (0 - (n \div e)) * e >= e
    BY <1>1, <1>3, MultipleOver
  <2>2. (0 - (n \div e)) * e = 0 - n
    BY <1>1, <1>2, Z3
  <2> QED BY <2>1, <2>2
<1> QED BY <1>1, <1>2, <1>3

LEMMA FewerSteps ==
  ASSUME NEW k \in Nat, NEW n \in Nat, NEW e \in Nat \ {0}, k * e < n * e
  PROVE  k < n
<1>1. CASE k >= n
  <2>1. (k - n) * e >= 0
    BY <1>1, MultipleOver
  <2>2. (k - n) * e = k * e - n * e
    BY Z3
  <2>3. k * e \in Int /\ n * e \in Int
    BY Z3
  <2> QED BY <2>1, <2>2, <2>3
<1> QED BY <1>1

(* --------------------------------------------------------------- the range view *)
EventRecords == [start : Nat, end : Int, every : Everies \cup {NONE}, by : Calendar!Members]

EventRowsOK ==
  \A e \in Calendar!Rows : events[e] \in EventRecords

(* An occurrence of an event overlaps a window of time when it begins before the end of the *)
(* window and ends after its beginning.                                                   *)
LEMMA OverlapEnds ==
  ASSUME NEW s \in Int, NEW n \in Nat, NEW from \in Int, NEW to \in Int, from <= to
  PROVE  Calendar!Overlaps(s, n, from, to) <=> s <= to /\ s + n >= from
<1>1. CASE s <= to /\ s + n >= from
  <2> DEFINE t == IF s <= from THEN from ELSE s
  <2>1. t \in s..(s + n) /\ from <= t /\ t <= to
    BY <1>1
  <2> QED BY <1>1, <2>1 DEF Calendar!Overlaps
<1>2. CASE ~(s <= to /\ s + n >= from)
  BY <1>2 DEF Calendar!Overlaps
<1> QED BY <1>1, <1>2

(* What the range query and the expansion show of one event is what overlaps the window. *)
LEMMA OccurrencesShown ==
  ASSUME EventRowsOK, RecordsAssumption, Calendar!Ordered, NEW e \in Calendar!Rows,
         NEW from \in Int, NEW to \in Int, from <= to, Calendar!Near(to), NEW s
  PROVE  (e \in Calendar!Candidates(from, to) /\ s \in Calendar!expandEvent(events[e], from, to))
           <=> /\ s \in Calendar!Horizon(to) /\ Calendar!Occurs(e, s)
               /\ Calendar!Overlaps(s, events[e].end - events[e].start, from, to)
<1> DEFINE begin  == events[e].start
           every  == events[e].every
           n      == events[e].end - events[e].start
<1>1. begin \in Nat /\ events[e].end \in Int /\ n \in Nat /\ begin + n = events[e].end
  BY DEF EventRowsOK, EventRecords, Calendar!Ordered
<1>2. CASE every = NONE
  <2>1. s \in Calendar!expandEvent(events[e], from, to) <=> s = begin /\ begin <= to /\ begin + n >= from
    BY <1>1, <1>2 DEF Calendar!expandEvent
  <2>2. e \in Calendar!Candidates(from, to) <=> begin <= to /\ events[e].end >= from
    BY <1>2 DEF Calendar!Candidates
  <2>3. Calendar!Occurs(e, s) <=> s = begin
    BY <1>2 DEF Calendar!Occurs
  <2>4. Calendar!Overlaps(begin, n, from, to) <=> begin <= to /\ begin + n >= from
    BY <1>1, OverlapEnds
  <2>5. begin \in Calendar!Horizon(to) <=> begin <= to
    BY <1>1 DEF Calendar!Horizon
  <2> QED BY <1>1, <2>1, <2>2, <2>3, <2>4, <2>5
<1>3. CASE every # NONE
  <2>1. every \in Nat \ {0} /\ MaxSteps \in Nat \ {0} /\ begin + MaxSteps * every > to
    BY <1>3 DEF EventRowsOK, EventRecords, RecordsAssumption, Calendar!Near
  <2>2. e \in Calendar!Candidates(from, to) <=> begin <= to
    BY <1>3 DEF Calendar!Candidates
  <2>3. s \in Calendar!expandEvent(events[e], from, to)
          <=> \E k \in 0..(MaxSteps - 1) : /\ s = begin + k * every
                                          /\ begin + k * every <= to /\ begin + k * every + n >= from
    BY <1>3 DEF Calendar!expandEvent
  <2>4. Calendar!Occurs(e, s) <=> s >= begin /\ (s - begin) % every = 0
    BY <1>3 DEF Calendar!Occurs
  <2> HIDE DEF begin, every, n
  <2>5. ASSUME NEW k \in 0..(MaxSteps - 1), s = begin + k * every, begin + k * every <= to,
               begin + k * every + n >= from
        PROVE  /\ s \in Calendar!Horizon(to) /\ s >= begin /\ (s - begin) % every = 0
               /\ Calendar!Overlaps(s, n, from, to) /\ begin <= to
    <3>1. k \in Nat /\ k * every \in Nat
      BY <2>1, <2>5, MultipleOver
    <3>2. s \in Int /\ s >= begin /\ s - begin = k * every
      BY <1>1, <2>5, <3>1
    <3>3. (s - begin) % every = 0
      BY <2>1, <3>1, <3>2, MultipleLeaves
    <3>4. Calendar!Overlaps(s, n, from, to)
      BY <1>1, <2>5, <3>2, OverlapEnds
    <3>5. s \in Calendar!Horizon(to) /\ begin <= to
      BY <1>1, <2>5, <3>2 DEF Calendar!Horizon
    <3> QED BY <3>2, <3>3, <3>4, <3>5
  <2>6. ASSUME s \in Calendar!Horizon(to), s >= begin, (s - begin) % every = 0,
               Calendar!Overlaps(s, n, from, to)
        PROVE  /\ begin <= to
               /\ \E k \in 0..(MaxSteps - 1) : /\ s = begin + k * every
                                              /\ begin + k * every <= to /\ begin + k * every + n >= from
    <3> DEFINE k == (s - begin) \div every
    <3>1. s \in Nat /\ s <= to /\ s - begin \in Nat
      BY <1>1, <2>6 DEF Calendar!Horizon
    <3>2. k \in Nat /\ s - begin = k * every
      BY <2>1, <2>6, <3>1, WholeQuotient
    <3> HIDE DEF k
    <3>3. s = begin + k * every /\ k * every \in Nat
      BY <1>1, <3>1, <3>2
    <3>4. MaxSteps * every \in Nat
      BY <2>1, MultipleOver
    <3>5. k * every < MaxSteps * every
      BY <1>1, <2>1, <3>1, <3>3, <3>4
    <3>6. k < MaxSteps
      BY <2>1, <3>2, <3>5, FewerSteps
    <3>7. s + n >= from
      BY <1>1, <2>6, <3>1, OverlapEnds
    <3> QED BY <1>1, <2>1, <3>1, <3>2, <3>3, <3>6, <3>7
  <2> QED BY <2>2, <2>3, <2>4, <2>5, <2>6 DEF begin, every, n
<1> QED BY <1>2, <1>3

LEMMA MirrorShown ==
  ASSUME RecordsAssumption, NEW x \in Mirrored, NEW from \in Int, NEW to \in Int, from <= to
  PROVE  (x.end >= from /\ x.start <= to) <=> Calendar!Overlaps(x.start, x.end - x.start, from, to)
<1>1. x.start \in Int /\ x.end \in Int /\ x.end - x.start \in Nat /\ x.start + (x.end - x.start) = x.end
  BY DEF RecordsAssumption
<1> QED BY <1>1, OverlapEnds

(* The range view is made of the native occurrences and the mirrored rows. *)
NativeOf(from, to, m) ==
  UNION { {<<e, s>> : s \in Calendar!expandEvent(events[e], from, to)} :
            e \in {c \in Calendar!Candidates(from, to) : (m # NONE) => Calendar!Concerns(m, c)} }
MirroredOf(from, to, m) ==
  {<<NONE, x.start>> : x \in {y \in Mirrored : y.end >= from /\ y.start <= to /\ m \in {NONE, y.member}}}

LEMMA ListedParts ==
  ASSUME NEW from, NEW to, NEW m
  PROVE  Calendar!listEvents(from, to, m) = NativeOf(from, to, m) \cup MirroredOf(from, to, m)
BY Zenon DEF Calendar!listEvents, NativeOf, MirroredOf

LEMMA RangeShown ==
  ASSUME EventRowsOK, RecordsAssumption PROVE Calendar!RangeViewRight
<1> SUFFICES ASSUME Calendar!Ordered, NEW w \in Windows, w[1] <= w[2], Calendar!Near(w[2]),
                    NEW m \in Calendar!Members \cup {NONE}
             PROVE  Calendar!listEvents(w[1], w[2], m)
                      = {x \in Calendar!Rows \X Calendar!Horizon(w[2]) :
                           /\ Calendar!Occurs(x[1], x[2])
                           /\ Calendar!Overlaps(x[2], events[x[1]].end - events[x[1]].start, w[1], w[2])
                           /\ (m # NONE => Calendar!Concerns(m, x[1]))}
                        \cup {<<NONE, x.start>> :
                                x \in {y \in Mirrored : /\ Calendar!Overlaps(y.start, y.end - y.start, w[1], w[2])
                                                        /\ m \in {NONE, y.member}}}
  BY DEF Calendar!RangeViewRight
<1> DEFINE from == w[1]
           to == w[2]
           Mine(e) == m # NONE => Calendar!Concerns(m, e)
           Shown(e) == Calendar!expandEvent(events[e], from, to)
           Right(e, s) == /\ Calendar!Occurs(e, s)
                          /\ Calendar!Overlaps(s, events[e].end - events[e].start, from, to)
           native == NativeOf(from, to, m)
           right  == {x \in Calendar!Rows \X Calendar!Horizon(to) : Right(x[1], x[2]) /\ Mine(x[1])}
<1>1. from \in Int /\ to \in Int /\ from <= to
  BY DEF RecordsAssumption
<1>2. Calendar!Candidates(from, to) \subseteq Calendar!Rows
  BY DEF Calendar!Candidates
<1>3. \A e \in Calendar!Rows : \A s :
        (e \in Calendar!Candidates(from, to) /\ s \in Shown(e)) <=> s \in Calendar!Horizon(to) /\ Right(e, s)
  BY <1>1, OccurrencesShown
<1>4. MirroredOf(from, to, m)
        = {<<NONE, x.start>> :
             x \in {y \in Mirrored : /\ Calendar!Overlaps(y.start, y.end - y.start, from, to)
                                     /\ m \in {NONE, y.member}}}
  BY <1>1, MirrorShown DEF MirroredOf
<1>5. native = right
  <2>0. native = UNION {{<<e, s>> : s \in Shown(e)} : e \in {c \in Calendar!Candidates(from, to) : Mine(c)}}
    BY Zenon DEF NativeOf
  <2> HIDE DEF Mine, Shown, Right, from, to
  <2>1. ASSUME NEW x \in native PROVE x \in right
    <3>1. PICK e \in Calendar!Candidates(from, to) : Mine(e) /\ \E s \in Shown(e) : x = <<e, s>>
      BY <2>0
    <3>. PICK s \in Shown(e) : x = <<e, s>>
      BY <3>1
    <3>2. e \in Calendar!Rows /\ s \in Calendar!Horizon(to) /\ Right(e, s)
      BY <1>2, <1>3, <3>1
    <3> QED BY <3>1, <3>2
  <2>2. ASSUME NEW x \in right PROVE x \in native
    <3>1. PICK e \in Calendar!Rows, s \in Calendar!Horizon(to) : x = <<e, s>> /\ Right(e, s) /\ Mine(e)
      OBVIOUS
    <3>2. e \in Calendar!Candidates(from, to) /\ s \in Shown(e)
      BY <1>3, <3>1
    <3> QED BY <2>0, <3>1, <3>2
  <2> QED BY <2>1, <2>2
<1> DEFINE mirrored == {<<NONE, x.start>> :
                          x \in {y \in Mirrored : /\ Calendar!Overlaps(y.start, y.end - y.start, from, to)
                                                  /\ m \in {NONE, y.member}}}
<1>6. MirroredOf(from, to, m) = mirrored
  BY <1>4
<1>7. Calendar!listEvents(from, to, m) = native \cup MirroredOf(from, to, m)
  BY ListedParts
<1>8. right \cup mirrored
        = {x \in Calendar!Rows \X Calendar!Horizon(w[2]) :
             /\ Calendar!Occurs(x[1], x[2])
             /\ Calendar!Overlaps(x[2], events[x[1]].end - events[x[1]].start, w[1], w[2])
             /\ (m # NONE => Calendar!Concerns(m, x[1]))} \cup mirrored
  OBVIOUS
<1> HIDE DEF native, mirrored
<1>9. Calendar!listEvents(from, to, m) = right \cup mirrored
  BY <1>5, <1>6, <1>7
<1> QED BY <1>8, <1>9 DEF mirrored

(* What a request knows: a write goes by the length that was read. *)
ReadsOK(r) ==
  r # NONE => /\ r.pc = "write" => r.length \in Int
              /\ r.pc = "clear" => r = [pc |-> "clear", event |-> r.event, who |-> r.who]

(* An update or a move keeps what a row is made of; a move goes by the length it read. *)
EventInv ==
  /\ EventRowsOK
  /\ requests = [p \in Callers |-> requests[p]]
  /\ \A p \in Callers : ReadsOK(requests[p])

LEMMA EventsStart == ASSUME Calendar!EventInit PROVE EventInv
BY DEF Calendar!EventInit, EventInv, EventRowsOK, Calendar!Rows, ReadsOK

LEMMA RowPut ==
  ASSUME EventRowsOK, NEW e, NEW row \in EventRecords, events' = Calendar!WithEvent(e, row)
  PROVE  EventRowsOK'
BY DEF EventRowsOK, Calendar!Rows, Calendar!WithEvent, EventRecords, Calendar!Members

LEMMA EventWrites ==
  ASSUME EventInv, RecordsAssumption, NEW p \in Callers,
         \/ \E m \in Calendar!Members : \E in \in Calendar!Inputs, who \in SUBSET Calendar!Members :
              Calendar!createEvent(p, m, in, who)
         \/ Calendar!updateEvent(p) \/ Calendar!moveEvent(p) \/ Calendar!deleteEvent(p)
  PROVE  EventRowsOK'
<1>1. ASSUME NEW m \in Calendar!Members, NEW in \in Calendar!Inputs, NEW who, Calendar!createEvent(p, m, in, who)
      PROVE  EventRowsOK'
  <2> DEFINE row == [start |-> in.start, end |-> in.start + in.length, every |-> in.every, by |-> m]
  <2>1. PICK e : events' = Calendar!WithEvent(e, row)
    BY <1>1 DEF Calendar!createEvent
  <2>2. in.start \in Nat /\ in.length \in Nat /\ in.every \in Everies \cup {NONE}
    BY DEF Calendar!Inputs, RecordsAssumption
  <2>3. row \in EventRecords
    BY <2>2 DEF EventRecords
  <2> HIDE DEF row
  <2> QED BY <2>1, <2>3, RowPut DEF EventInv
<1>2. CASE Calendar!updateEvent(p)
  <2> DEFINE e == requests[p].event
  <2>1. CASE e \in Calendar!Rows
    <3>1. PICK in \in Calendar!Inputs, whole \in BOOLEAN :
            events' = Calendar!WithEvent(e, [events[e] EXCEPT !.start = in.start, !.every = in.every,
                                               !.end = IF whole THEN in.start + in.length ELSE events[e].end])
      BY <1>2, <2>1 DEF Calendar!updateEvent
    <3>2. in.start \in Nat /\ in.length \in Nat /\ in.every \in Everies \cup {NONE} /\ events[e] \in EventRecords
      BY <2>1 DEF Calendar!Inputs, RecordsAssumption, EventInv, EventRowsOK
    <3> DEFINE end == IF whole THEN in.start + in.length ELSE events[e].end
               row == [events[e] EXCEPT !.start = in.start, !.every = in.every, !.end = end]
    <3>3. end \in Int
      BY <3>2 DEF EventRecords
    <3> HIDE DEF end
    <3>4. row \in EventRecords
      BY <3>2, <3>3 DEF EventRecords
    <3>5. events' = Calendar!WithEvent(e, row)
      BY <3>1 DEF end
    <3> HIDE DEF row
    <3> QED BY <3>4, <3>5, RowPut DEF EventInv
  <2>2. CASE e \notin Calendar!Rows
    BY <1>2, <2>2 DEF Calendar!updateEvent, EventInv, EventRowsOK, Calendar!Rows, EventRecords, Calendar!Members
  <2> QED BY <2>1, <2>2
<1>3. CASE Calendar!moveEvent(p)
  <2> DEFINE e == requests[p].event
  <2>1. CASE e \in Calendar!Rows
    <3>1. PICK s \in Starts : events' = Calendar!WithEvent(e, [events[e] EXCEPT !.start = s, !.end = s + requests[p].length])
      BY <1>3, <2>1 DEF Calendar!moveEvent
    <3>2. s \in Nat /\ events[e] \in EventRecords /\ s + requests[p].length \in Int
      <4>1. requests[p].length \in Int
        BY <1>3 DEF EventInv, Calendar!moveEvent, Calendar!At, ReadsOK
      <4> QED BY <2>1, <4>1 DEF RecordsAssumption, EventInv, EventRowsOK
    <3> DEFINE row == [events[e] EXCEPT !.start = s, !.end = s + requests[p].length]
    <3>3. row \in EventRecords
      BY <3>2 DEF EventRecords
    <3> HIDE DEF row
    <3> QED BY <3>1, <3>3, RowPut DEF EventInv, row
  <2>2. CASE e \notin Calendar!Rows
    BY <1>3, <2>2 DEF Calendar!moveEvent, EventInv, EventRowsOK, Calendar!Rows, EventRecords, Calendar!Members
  <2> QED BY <2>1, <2>2
<1>4. CASE Calendar!deleteEvent(p)
  BY <1>4 DEF Calendar!deleteEvent, EventInv, EventRowsOK, Calendar!Rows, EventRecords, Calendar!Members
<1> QED BY <1>1, <1>2, <1>3, <1>4

(* A request that is admitted has read the length of a row that is there. *)
LEMMA RequestGoes ==
  ASSUME EventInv, NEW p \in Callers, NEW r, requests' = [requests EXCEPT ![p] = r], ReadsOK(r)
  PROVE  requests' = [q \in Callers |-> requests'[q]] /\ \A q \in Callers : ReadsOK(requests'[q])
BY DEF EventInv

LEMMA RequestsGo ==
  ASSUME EventInv, NEW p \in Callers,
         \/ \E m \in Calendar!Members : \E in \in Calendar!Inputs, who \in SUBSET Calendar!Members :
              Calendar!createEvent(p, m, in, who)
         \/ \E m \in Calendar!Members, e \in Calendar!Rows :
              \E what \in {"update", "move", "delete"} : Calendar!Admit(p, m, e, what)
         \/ Calendar!updateEvent(p) \/ Calendar!moveEvent(p) \/ Calendar!deleteEvent(p)
         \/ Calendar!ClearAttendees(p) \/ Calendar!InviteAttendees(p)
  PROVE  \E r : requests' = [requests EXCEPT ![p] = r] /\ ReadsOK(r)
<1>1. ReadsOK(NONE) /\ \A e, who : ReadsOK([pc |-> "clear", event |-> e, who |-> who])
  BY DEF ReadsOK
<1>2. ASSUME NEW m, NEW e \in Calendar!Rows, NEW what, Calendar!Admit(p, m, e, what)
      PROVE  \E r : requests' = [requests EXCEPT ![p] = r] /\ ReadsOK(r)
  <2> DEFINE n == events[e].end - events[e].start
             r == [pc |-> "write", event |-> e, what |-> what, length |-> n]
  <2>1. n \in Int
    BY DEF EventInv, EventRowsOK, EventRecords
  <2>2. requests' = [requests EXCEPT ![p] = r]
    BY <1>2 DEF Calendar!Admit, Calendar!Does
  <2> HIDE DEF n
  <2>3. ReadsOK(r)
    BY <2>1 DEF ReadsOK
  <2> HIDE DEF r
  <2> QED BY <2>2, <2>3
<1>3. ASSUME NEW m, NEW in, NEW who, Calendar!createEvent(p, m, in, who)
      PROVE  \E r : requests' = [requests EXCEPT ![p] = r] /\ ReadsOK(r)
  BY <1>1, <1>3 DEF Calendar!createEvent, Calendar!Invites, Calendar!Does
<1>4. CASE Calendar!updateEvent(p)
  BY <1>1, <1>4 DEF Calendar!updateEvent, Calendar!Answers, Calendar!Invites, Calendar!Does
<1>5. CASE Calendar!moveEvent(p) \/ Calendar!deleteEvent(p) \/ Calendar!InviteAttendees(p)
  BY <1>1, <1>5 DEF Calendar!moveEvent, Calendar!deleteEvent, Calendar!InviteAttendees, Calendar!Answers, Calendar!Does
<1>6. CASE Calendar!ClearAttendees(p)
  <2> DEFINE r == [requests[p] EXCEPT !.pc = "invite"]
  <2>1. requests[p] = [pc |-> "clear", event |-> requests[p].event, who |-> requests[p].who]
    BY <1>6 DEF Calendar!ClearAttendees, Calendar!At, EventInv, ReadsOK
  <2>2. r.pc = "invite"
    BY <2>1
  <2>3. requests' = [requests EXCEPT ![p] = NONE] \/ requests' = [requests EXCEPT ![p] = r]
    BY <1>6 DEF Calendar!ClearAttendees, Calendar!Answers, Calendar!Does
  <2> HIDE DEF r
  <2> QED BY <1>1, <2>2, <2>3 DEF ReadsOK
<1> QED BY <1>2, <1>3, <1>4, <1>5, <1>6

LEMMA EventsKept ==
  ASSUME EventInv, RecordsAssumption, [Calendar!EventNext]_calendar
  PROVE  EventInv'
<1>1. CASE UNCHANGED calendar
  BY <1>1 DEF calendar, EventInv, EventRowsOK, EventRecords, Calendar!Rows, Calendar!Members
<1>2. CASE Calendar!StopRequests
  BY <1>2 DEF Calendar!StopRequests, EventInv, EventRowsOK, EventRecords, Calendar!Rows, Calendar!Members, ReadsOK
<1>3. ASSUME NEW p \in Callers,
             \/ \E m \in Calendar!Members : \E in \in Calendar!Inputs, who \in SUBSET Calendar!Members :
                  Calendar!createEvent(p, m, in, who)
             \/ \E m \in Calendar!Members, e \in Calendar!Rows :
                  \E what \in {"update", "move", "delete"} : Calendar!Admit(p, m, e, what)
             \/ Calendar!updateEvent(p) \/ Calendar!moveEvent(p) \/ Calendar!deleteEvent(p)
             \/ Calendar!ClearAttendees(p) \/ Calendar!InviteAttendees(p)
      PROVE  EventInv'
  <2>1. requests' = [q \in Callers |-> requests'[q]] /\ \A q \in Callers : ReadsOK(requests'[q])
    BY <1>3, RequestsGo, RequestGoes
  <2>2. EventRowsOK'
    <3>1. CASE \/ \E m \in Calendar!Members : \E in \in Calendar!Inputs, who \in SUBSET Calendar!Members :
                    Calendar!createEvent(p, m, in, who)
               \/ Calendar!updateEvent(p) \/ Calendar!moveEvent(p) \/ Calendar!deleteEvent(p)
      BY <3>1, EventWrites
    <3>2. CASE events' = events
      BY <3>2 DEF EventInv, EventRowsOK, EventRecords, Calendar!Rows, Calendar!Members
    <3> QED BY <1>3, <3>1, <3>2 DEF Calendar!Admit, Calendar!ClearAttendees, Calendar!InviteAttendees
  <2> QED BY <2>1, <2>2 DEF EventInv, ReadsOK
<1> QED BY <1>1, <1>2, <1>3 DEF Calendar!EventNext

(* CalendarEvents: what a window of the calendar lists is what overlaps it, each      *)
(* occurrence of a series once, through every order of the requests that write events *)
(* and invitations (calendar/service.ts:54-116).                                     *)
THEOREM WindowsShow == Calendar!EventSpec => []Calendar!RangeViewRight
<1>1. Calendar!EventInit => EventInv
  BY EventsStart
<1>2. EventInv /\ [Calendar!EventNext]_calendar => EventInv'
  BY EventsKept, RecordsAssumption
<1>3. EventInv => Calendar!RangeViewRight
  BY RangeShown, RecordsAssumption DEF EventInv
<1> QED BY <1>1, <1>2, <1>3, PTL DEF Calendar!EventSpec, Calendar!calendarVars, calendar

(* ----------------------------------------------------------------- WebCache *)

(* The mutation under way has written what the view reads, and its answer is not there yet. *)
InHand == write # NONE /\ write.at = "applied" /\ Browser!Touches(write.mutation, view)

(* Without an excuse, old data is either being written, or marked and, on screen, fetched anew; *)
(* an answer that is old already is the doing of the mutation under way, or finds the mark.     *)
MarkStands ==
  cause = NONE => /\ data = "old" => InHand \/ (invalid /\ (mounted => fetch # NONE))
                  /\ fetch = "old" => InHand \/ invalid

CacheInv ==
  /\ view \in Views
  /\ write \in [mutation : DOMAIN Browser!Writes, at : {"sent", "applied"}] \cup {NONE}
  /\ MarkStands

LEMMA CacheStarts == ASSUME RecordsAssumption, Browser!CacheInit PROVE CacheInv
BY DEF Browser!CacheInit, CacheInv, MarkStands, RecordsAssumption

(* What the browser does by itself, and what comes back from the server. *)
LEMMA CacheFetches ==
  ASSUME CacheInv, RecordsAssumption,
         \/ Browser!Mount \/ Browser!Unmount \/ Browser!Focus \/ Browser!Poll \/ Browser!GrowOld
         \/ Browser!Collect \/ Browser!ServerReads \/ Browser!FetchArrives \/ Browser!FetchFails
         \/ Browser!Elsewhere
  PROVE  CacheInv'
<1>1. view' = view /\ write' = write /\ (InHand' <=> InHand)
  BY DEF Browser!Mount, Browser!Unmount, Browser!Focus, Browser!Poll, Browser!GrowOld, Browser!Collect,
         Browser!ServerReads, Browser!FetchArrives, Browser!FetchFails, Browser!Elsewhere, InHand
<1>2. MarkStands'
  <2>1. CASE Browser!Mount
    BY <1>1, <2>1 DEF CacheInv, MarkStands, RecordsAssumption, Browser!Mount, Browser!IsStale, Browser!Ask
  <2>2. CASE Browser!Focus \/ Browser!Poll
    BY <1>1, <2>2 DEF CacheInv, MarkStands, RecordsAssumption, Browser!Focus, Browser!Poll, Browser!Ask
  <2>3. CASE Browser!Unmount \/ Browser!GrowOld
    BY <1>1, <2>3 DEF CacheInv, MarkStands, Browser!Unmount, Browser!GrowOld
  <2>4. CASE Browser!Collect \/ Browser!ServerReads
    BY <1>1, <2>4 DEF CacheInv, MarkStands, RecordsAssumption, Browser!Collect, Browser!ServerReads
  <2>5. CASE Browser!FetchArrives
    BY <1>1, <2>5 DEF CacheInv, MarkStands, RecordsAssumption, Browser!FetchArrives
  <2>6. CASE Browser!FetchFails
    BY <1>1, <2>6 DEF CacheInv, MarkStands, RecordsAssumption, Browser!FetchFails
  <2>7. CASE Browser!Elsewhere
    BY <2>7 DEF MarkStands, RecordsAssumption, Browser!Elsewhere
  <2> QED BY <2>1, <2>2, <2>3, <2>4, <2>5, <2>6, <2>7
<1> QED BY <1>1, <1>2 DEF CacheInv

(* A mutation that is answered has marked every view it touched, or is one of the known gaps. *)
LEMMA CacheWrites ==
  ASSUME CacheInv, RecordsAssumption, \A v \in Views : Browser!GapsKnown(v),
         \/ \E m \in DOMAIN Browser!Writes : Browser!Mutate(m)
         \/ Browser!Apply \/ Browser!Succeed \/ Browser!Fail
  PROVE  CacheInv'
<1>1. CASE \E m \in DOMAIN Browser!Writes : Browser!Mutate(m)
  BY <1>1 DEF CacheInv, MarkStands, InHand, RecordsAssumption, Browser!Mutate
<1>2. CASE Browser!Apply
  <2> DEFINE w == [write EXCEPT !.at = "applied"]
  <2>1. /\ write \in [mutation : DOMAIN Browser!Writes, at : {"sent", "applied"}] /\ write.at = "sent"
        /\ write' = w /\ view' = view /\ cause' = cause /\ invalid' = invalid /\ mounted' = mounted
    BY <1>2 DEF CacheInv, Browser!Apply
  <2>2. /\ w \in [mutation : DOMAIN Browser!Writes, at : {"sent", "applied"}]
        /\ w.at = "applied" /\ w.mutation = write.mutation
    BY <2>1
  <2>3. w # NONE
    BY <2>2 DEF RecordsAssumption
  <2>4. InHand' <=> Browser!Touches(write.mutation, view)
    BY <2>1, <2>2, <2>3 DEF InHand
  <2>5. MarkStands'
    BY <1>2, <2>1, <2>4 DEF CacheInv, MarkStands, InHand, Browser!Apply, Browser!Overtaken
  <2> QED BY <2>1, <2>2, <2>5 DEF CacheInv
<1>3. CASE Browser!Succeed
  <2>1. write.mutation \in DOMAIN Browser!Writes /\ view \in Views
    BY <1>3 DEF CacheInv, Browser!Succeed
  <2>2. write.mutation \in Browser!LeftOut(view)
          <=> Browser!Touches(write.mutation, view) /\ ~Browser!Covers(write.mutation, view)
    BY <2>1 DEF Browser!GapsKnown
  <2>3. write' = NONE /\ ~InHand' /\ view' = view /\ data' = data /\ mounted' = mounted
    BY <1>3 DEF Browser!Succeed, InHand
  <2>4. cause' = NONE => write.mutation \notin Browser!LeftOut(view) /\ cause = NONE
    BY <1>3 DEF Browser!Succeed, RecordsAssumption
  <2>5. CASE Browser!Covers(write.mutation, view)
    BY <1>3, <2>3, <2>4, <2>5 DEF CacheInv, MarkStands, RecordsAssumption, Browser!Succeed, Browser!Invalidate
  <2>6. CASE ~Browser!Covers(write.mutation, view)
    <3>1. cause' = NONE => ~InHand
      BY <2>2, <2>4, <2>6 DEF InHand
    <3> QED BY <1>3, <2>3, <2>4, <2>6, <3>1 DEF CacheInv, MarkStands, Browser!Succeed
  <2> QED BY <2>5, <2>6
<1>4. CASE Browser!Fail
  BY <1>4 DEF CacheInv, MarkStands, InHand, RecordsAssumption, Browser!Fail
<1> QED BY <1>1, <1>2, <1>3, <1>4

(* WebCache: a page at rest shows what the server has, unless another device or the scheduler *)
(* wrote it, a request failed, an early answer wiped the mark, or the mutation is a known gap  *)
(* (use-ethel.ts:59-64). That the gaps are the known ones is a fact about the tables of the    *)
(* queries, which TLC evaluates.                                                             *)
THEOREM PagesCurrent ==
  (\A v \in Views : Browser!GapsKnown(v)) /\ Browser!CacheSpec => []Browser!ShownIsCurrent
<1> SUFFICES ASSUME \A v \in Views : Browser!GapsKnown(v)
             PROVE  Browser!CacheSpec => []Browser!ShownIsCurrent
  OBVIOUS
<1>1. Browser!CacheInit => CacheInv
  BY CacheStarts, RecordsAssumption
<1>2. CacheInv /\ [Browser!CacheNext]_web => CacheInv'
  <2> SUFFICES ASSUME CacheInv, [Browser!CacheNext]_web PROVE CacheInv'
    OBVIOUS
  <2>1. CASE UNCHANGED web
    BY <2>1 DEF web, CacheInv, MarkStands, InHand
  <2>2. CASE Browser!CacheNext
    BY <2>2, CacheFetches, CacheWrites, RecordsAssumption DEF Browser!CacheNext
  <2> QED BY <2>1, <2>2
<1>3. CacheInv => Browser!ShownIsCurrent
  BY RecordsAssumption DEF CacheInv, MarkStands, InHand, Browser!ShownIsCurrent
<1> QED BY <1>1, <1>2, <1>3, PTL DEF Browser!CacheSpec, Browser!cacheVars, web

(* ------------------------------------------------------------------- Hearth *)

(* A fetch for the wall that has been answered: what it has seen is on its way. *)
Answer(q) == fetching[q] \notin {NONE, Kitchen!Sent}

(* The task is done in what is kept of one of the two queries. *)
KnownDone(t) == \E q \in Kitchen!Queries : wallTasks[q][t] = "completed"

(* What either query shows as completed and what an answer says is so, as long as no one *)
(* reopens the task; a tap is shown from the moment it is made, until an answer confirms it. *)
TapStands(t) ==
  /\ \A q \in Kitchen!Queries :
       /\ wallTasks[q][t] = "completed"
            => tasks[t] = "completed" /\ (Answer(q) => fetching[q].seen[t] = "completed")
       /\ Answer(q) /\ fetching[q].seen[t] = "completed" => tasks[t] = "completed"
  /\ taps[t] # NONE => t \in completing \/ KnownDone(t)
  /\ taps[t] = "applied" => tasks[t] = "completed"
  /\ t \in completing /\ taps[t] = NONE => tasks[t] = "completed"

(* A tap that was answered is done and marked, or an answer has it; it is tapped again only *)
(* if the month's answer took its mark.                                                  *)
TapIsSure(t) ==
  /\ t \notin reopened /\ tasks[t] = "completed"
  /\ t \in completing \/ KnownDone(t)
  /\ taps[t] # NONE => wallTasks["month"][t] = "completed"

TapInv ==
  /\ taps \in [Tasks -> {NONE, "sent", "applied"}]
  /\ tasks \in [Tasks -> {"open", "completed"}]
  /\ wallTasks \in [Kitchen!Queries -> [Tasks -> {"open", "completed"}]]
  /\ fetching = [q \in Kitchen!Queries |-> fetching[q]]
  /\ \A q \in Kitchen!Queries : Answer(q) => fetching[q].seen \in [Tasks -> {"open", "completed"}]
  /\ \A t \in Tasks : /\ t \notin reopened => TapStands(t)
                      /\ t \in sure => TapIsSure(t)

LEMMA TapsStart == ASSUME RecordsAssumption, Kitchen!HearthInit PROVE TapInv
BY DEF RecordsAssumption, Kitchen!HearthInit, Kitchen!Queries, TapInv, TapStands, TapIsSure, KnownDone, Answer

LEMMA TapsGo ==
  ASSUME TapInv, RecordsAssumption, NEW t \in Tasks,
         \/ Kitchen!onCompleteTask(t) \/ Kitchen!CompleteOnServer(t) \/ Kitchen!CompleteSucceeds(t)
         \/ Kitchen!CompleteFails(t) \/ Kitchen!TaskElsewhere(t)
  PROVE  TapInv'
<1> USE DEF TapInv
<1>1. CASE Kitchen!onCompleteTask(t)
  <2>1. t \in sure => wallTasks["month"][t] = "completed"
    BY <1>1 DEF Kitchen!onCompleteTask, Kitchen!tasksForDay, Kitchen!Queries, TapIsSure, KnownDone
  <2> QED BY <1>1, <2>1 DEF Kitchen!onCompleteTask, TapStands, TapIsSure, KnownDone, Answer
<1>2. CASE Kitchen!CompleteOnServer(t)
  BY <1>2 DEF RecordsAssumption, Kitchen!CompleteOnServer, TapStands, TapIsSure, KnownDone, Answer
<1>3. CASE Kitchen!CompleteSucceeds(t)
  <2>1. t \notin reopened => tasks[t] = "completed" /\ (t \in completing \/ KnownDone(t))
    BY <1>3 DEF Kitchen!CompleteSucceeds, TapStands, RecordsAssumption
  <2>2. /\ taps' = [taps EXCEPT ![t] = NONE] /\ sure' = IF t \in reopened THEN sure ELSE sure \cup {t}
        /\ tasks' = tasks /\ wallTasks' = wallTasks /\ completing' = completing /\ reopened' = reopened
        /\ taps[t] = "applied"
        /\ fetching' = [q \in Kitchen!Queries |-> IF q = onScreen THEN Kitchen!Sent ELSE fetching[q]]
    BY <1>3 DEF Kitchen!CompleteSucceeds
  <2>3. \A q \in Kitchen!Queries : Answer(q)' => Answer(q) /\ fetching'[q] = fetching[q]
    BY <2>2 DEF Answer
  <2>4. \A u \in Tasks \ reopened : TapStands(u)'
    BY <2>1, <2>2, <2>3 DEF TapStands, KnownDone
  <2>5. \A u \in sure' : u \in Tasks => TapIsSure(u)'
    BY <2>1, <2>2 DEF TapIsSure, KnownDone
  <2> QED BY <2>2, <2>3, <2>4, <2>5
<1>4. CASE Kitchen!CompleteFails(t)
  <2>1. /\ taps[t] # NONE /\ taps' = [taps EXCEPT ![t] = NONE] /\ completing' = completing \ {t}
        /\ tasks' = tasks /\ wallTasks' = wallTasks /\ fetching' = fetching /\ sure' = sure
        /\ reopened' = reopened
    BY <1>4 DEF Kitchen!CompleteFails
  <2>2. \A u \in Tasks \ reopened : TapStands(u)'
    BY <2>1 DEF TapStands, KnownDone, Answer
  <2>3. \A u \in Tasks : u \in sure => TapIsSure(u)'
    BY <2>1 DEF TapIsSure, KnownDone, Kitchen!Queries
  <2>4. \A q \in Kitchen!Queries : Answer(q)' <=> Answer(q)
    BY <2>1 DEF Answer
  <2> QED BY <2>1, <2>2, <2>3, <2>4
<1>5. CASE Kitchen!TaskElsewhere(t)
  BY <1>5 DEF Kitchen!TaskElsewhere, TapStands, TapIsSure, KnownDone, Answer
<1> QED BY <1>1, <1>2, <1>3, <1>4, <1>5

(* What arrives at the wall clears the marks of the taps it confirms, and of no others. *)
LEMMA TapsShown ==
  ASSUME TapInv,
         \/ Kitchen!PollTasks
         \/ \E to \in Kitchen!Queries \cup {"other"} : Kitchen!PageTasks(to)
         \/ \E q \in Kitchen!Queries : \/ Kitchen!ReadTasks(q) \/ Kitchen!TasksArrive(q)
                                       \/ Kitchen!FetchLost(q)
  PROVE  TapInv'
<1> USE DEF TapInv
<1>1. ASSUME Kitchen!PollTasks \/ \E q \in Kitchen!Queries : Kitchen!FetchLost(q)
      PROVE  TapInv'
  <2>1. /\ tasks' = tasks /\ wallTasks' = wallTasks /\ completing' = completing /\ taps' = taps
        /\ sure' = sure /\ reopened' = reopened
        /\ fetching' = [q \in Kitchen!Queries |-> fetching'[q]]
        /\ \A q \in Kitchen!Queries : Answer(q)' => Answer(q) /\ fetching'[q] = fetching[q]
    BY <1>1 DEF Kitchen!PollTasks, Kitchen!FetchLost, Answer
  <2> QED BY <2>1 DEF TapStands, TapIsSure, KnownDone
<1>2. ASSUME NEW q \in Kitchen!Queries, Kitchen!ReadTasks(q) PROVE TapInv'
  <2>1. /\ tasks' = tasks /\ wallTasks' = wallTasks /\ completing' = completing /\ taps' = taps
        /\ sure' = sure /\ reopened' = reopened
        /\ fetching' = [fetching EXCEPT ![q] = [seen |-> tasks]]
    BY <1>2 DEF Kitchen!ReadTasks
  <2>2. \A p \in Kitchen!Queries \ {q} : (Answer(p)' <=> Answer(p)) /\ fetching'[p] = fetching[p]
    BY <2>1 DEF Answer
  <2>3. fetching'[q].seen = tasks /\ fetching' = [p \in Kitchen!Queries |-> fetching'[p]]
    BY <2>1
  <2>4. \A u \in Tasks \ reopened : TapStands(u)'
    BY <2>1, <2>2, <2>3 DEF TapStands, KnownDone
  <2>5. \A u \in Tasks : u \in sure => TapIsSure(u)'
    BY <2>1 DEF TapIsSure, KnownDone
  <2> QED BY <2>1, <2>2, <2>3, <2>4, <2>5
<1>3. ASSUME NEW q \in Kitchen!Queries, Kitchen!TasksArrive(q) PROVE TapInv'
  <2>1. /\ Answer(q) /\ wallTasks' = [wallTasks EXCEPT ![q] = fetching[q].seen]
        /\ completing' \subseteq completing
        /\ \A u \in completing : u \in completing' \/ fetching[q].seen[u] = "completed"
        /\ tasks' = tasks /\ taps' = taps /\ sure' = sure /\ reopened' = reopened
        /\ fetching' = [fetching EXCEPT ![q] = NONE]
    BY <1>3 DEF Kitchen!TasksArrive, Kitchen!StillPending, Answer
  <2>2. /\ ~Answer(q)' /\ fetching' = [p \in Kitchen!Queries |-> fetching'[p]]
        /\ \A p \in Kitchen!Queries \ {q} : (Answer(p)' <=> Answer(p)) /\ fetching'[p] = fetching[p]
    BY <2>1 DEF Answer
  <2>3. /\ wallTasks'[q] = fetching[q].seen
        /\ \A p \in Kitchen!Queries \ {q} : wallTasks'[p] = wallTasks[p]
    BY <2>1
  <2>4. \A u \in Tasks \ reopened : TapStands(u)'
    <3> SUFFICES ASSUME NEW u \in Tasks \ reopened PROVE TapStands(u)'
      OBVIOUS
    <3>1. TapStands(u)
      OBVIOUS
    <3>2. KnownDone(u) \/ fetching[q].seen[u] = "completed" => KnownDone(u)'
      BY <2>1, <2>3, <3>1 DEF TapStands, KnownDone
    <3>3. taps[u] # NONE => u \in completing' \/ KnownDone(u)'
      BY <2>1, <3>1, <3>2 DEF TapStands
    <3> QED BY <2>1, <2>2, <2>3, <3>1, <3>3 DEF TapStands
  <2>5. \A u \in Tasks : u \in sure => TapIsSure(u)'
    <3> SUFFICES ASSUME NEW u \in Tasks, u \in sure PROVE TapIsSure(u)'
      BY <2>1
    <3>1. TapStands(u) /\ TapIsSure(u)
      BY DEF TapIsSure
    <3>2. KnownDone(u) \/ fetching[q].seen[u] = "completed" => KnownDone(u)'
      BY <2>1, <2>3, <3>1 DEF TapStands, KnownDone
    <3>3. wallTasks["month"][u] = "completed" => wallTasks'["month"][u] = "completed"
      BY <2>1, <2>3, <3>1 DEF TapStands, Kitchen!Queries
    <3> QED BY <2>1, <3>1, <3>2, <3>3 DEF TapIsSure
  <2> QED BY <2>1, <2>2, <2>3, <2>4, <2>5
<1>4. ASSUME NEW to \in Kitchen!Queries \cup {"other"}, Kitchen!PageTasks(to) PROVE TapInv'
  <2>1. /\ tasks' = tasks /\ wallTasks' = wallTasks /\ taps' = taps /\ sure' = sure
        /\ reopened' = reopened /\ completing' \subseteq completing
        /\ \A u \in completing : u \in completing' \/ (to \in Kitchen!Queries /\ wallTasks[to][u] = "completed")
        /\ fetching' = [q \in Kitchen!Queries |->
                          IF q = to /\ fetching[q] = NONE THEN Kitchen!Sent ELSE fetching[q]]
    BY <1>4 DEF Kitchen!PageTasks, Kitchen!StillPending
  <2>2. \A q \in Kitchen!Queries : Answer(q)' => Answer(q) /\ fetching'[q] = fetching[q]
    BY <2>1 DEF Answer
  <2>3. \A u \in completing : u \in completing' \/ KnownDone(u)
    BY <2>1 DEF KnownDone
  <2>4. \A u \in Tasks \ reopened : TapStands(u)'
    BY <2>1, <2>2, <2>3 DEF TapStands, KnownDone
  <2>5. \A u \in Tasks : u \in sure => TapIsSure(u)'
    BY <2>1, <2>3 DEF TapIsSure, KnownDone
  <2> QED BY <2>1, <2>2, <2>4, <2>5
<1> QED BY <1>1, <1>2, <1>3, <1>4

LEMMA TapsKept ==
  ASSUME TapInv, RecordsAssumption, [Kitchen!HearthNext]_kitchen
  PROVE  TapInv'
<1>1. CASE UNCHANGED Kitchen!taskVars
  BY <1>1 DEF Kitchen!taskVars, TapInv, TapStands, TapIsSure, KnownDone, Answer
<1>2. CASE \E h \in Hands : \/ \E d \in Days : Kitchen!PickUp(h, d) \/ Kitchen!onSwapMeal(h, d)
                            \/ Kitchen!Cancel(h) \/ Kitchen!upsertMeal(h) \/ Kitchen!deleteMeal(h)
                            \/ Kitchen!SwapFails(h) \/ Kitchen!Finish(h)
  BY <1>1, <1>2 DEF Kitchen!PickUp, Kitchen!onSwapMeal, Kitchen!Cancel, Kitchen!upsertMeal,
                    Kitchen!deleteMeal, Kitchen!SwapFails, Kitchen!Finish
<1>3. CASE \/ Kitchen!PollPlan \/ Kitchen!PlanElsewhere \/ Kitchen!Reload \/ Kitchen!TimePasses
           \/ \E o \in Offsets : Kitchen!page(o)
           \/ \E i \in DOMAIN FeedKeys : Kitchen!FeedSucceeds(i) \/ Kitchen!FeedFails(i)
  BY <1>1, <1>3 DEF Kitchen!PollPlan, Kitchen!PlanElsewhere, Kitchen!Reload, Kitchen!TimePasses,
                    Kitchen!page, Kitchen!FeedSucceeds, Kitchen!FeedFails
<1>4. CASE UNCHANGED kitchen
  BY <1>1, <1>4 DEF kitchen, Kitchen!taskVars
<1> QED BY <1>2, <1>3, <1>4, TapsGo, TapsShown DEF Kitchen!HearthNext

LEMMA TapsAreHeld == ASSUME TapInv PROVE Kitchen!TapsHold
BY DEF TapInv, TapStands, TapIsSure, KnownDone, Kitchen!Queries, Kitchen!TapsHold, Kitchen!tasksForDay

(* ----------------------------------------------------------------- the week *)

(* What is stored is the last paging, and a wall that was just reloaded shows it. *)
WeekInv ==
  /\ clock \in Int /\ stored \in [at : Int, week : Int] \cup {NONE} /\ stored = pagedAt
  /\ loaded # NONE => loaded \in Int /\ loaded <= clock
  /\ loaded = clock => offset = Kitchen!loadHearthPosition

LEMMA WeekStarts == ASSUME Kitchen!HearthInit, RotationAssumption PROVE WeekInv
BY DEF RotationAssumption, Kitchen!HearthInit, WeekInv

LEMMA WeekKept ==
  ASSUME WeekInv, RecordsAssumption, RotationAssumption, [Kitchen!HearthNext]_kitchen
  PROVE  WeekInv'
<1> USE DEF WeekInv
<1>1. CASE UNCHANGED <<clock, Kitchen!positionVars>>
  BY <1>1 DEF Kitchen!positionVars, Kitchen!loadHearthPosition, Kitchen!loadExpiringUiState, Kitchen!week
<1>2. CASE \E h \in Hands : \/ \E d \in Days : Kitchen!PickUp(h, d) \/ Kitchen!onSwapMeal(h, d)
                            \/ Kitchen!Cancel(h) \/ Kitchen!upsertMeal(h) \/ Kitchen!deleteMeal(h)
                            \/ Kitchen!SwapFails(h) \/ Kitchen!Finish(h)
  BY <1>1, <1>2 DEF Kitchen!PickUp, Kitchen!onSwapMeal, Kitchen!Cancel, Kitchen!upsertMeal,
                    Kitchen!deleteMeal, Kitchen!SwapFails, Kitchen!Finish
<1>3. CASE \/ Kitchen!PollPlan \/ Kitchen!PlanElsewhere
           \/ Kitchen!PollTasks \/ \E to \in Kitchen!Queries \cup {"other"} : Kitchen!PageTasks(to)
           \/ \E q \in Kitchen!Queries : \/ Kitchen!ReadTasks(q) \/ Kitchen!TasksArrive(q)
                                         \/ Kitchen!FetchLost(q)
           \/ \E t \in Tasks : \/ Kitchen!onCompleteTask(t) \/ Kitchen!CompleteOnServer(t)
                               \/ Kitchen!CompleteSucceeds(t) \/ Kitchen!CompleteFails(t)
                               \/ Kitchen!TaskElsewhere(t)
           \/ \E i \in DOMAIN FeedKeys : Kitchen!FeedSucceeds(i) \/ Kitchen!FeedFails(i)
  BY <1>1, <1>3 DEF Kitchen!PollPlan, Kitchen!PlanElsewhere, Kitchen!PollTasks, Kitchen!ReadTasks,
                    Kitchen!TasksArrive, Kitchen!FetchLost, Kitchen!PageTasks, Kitchen!onCompleteTask,
                    Kitchen!CompleteOnServer, Kitchen!CompleteSucceeds, Kitchen!CompleteFails,
                    Kitchen!TaskElsewhere, Kitchen!FeedSucceeds, Kitchen!FeedFails
<1>4. CASE UNCHANGED kitchen
  BY <1>1, <1>4 DEF kitchen, Kitchen!positionVars
<1>5. ASSUME NEW o \in Offsets, Kitchen!page(o) PROVE WeekInv'
  <2>1. Kitchen!week \in Int /\ o \in Int
    BY RecordsAssumption DEF Kitchen!week, RecordsAssumption
  <2> QED BY <1>5, <2>1, RotationAssumption DEF RotationAssumption, Kitchen!page
<1>6. CASE Kitchen!Reload
  <2>1. /\ loaded' = clock /\ clock' = clock /\ stored' = stored /\ pagedAt' = pagedAt
        /\ offset' = Kitchen!loadHearthPosition
    BY <1>6 DEF Kitchen!Reload, Kitchen!SavedPosition
  <2> QED BY <2>1 DEF Kitchen!loadHearthPosition, Kitchen!loadExpiringUiState, Kitchen!week
<1>7. CASE Kitchen!TimePasses
  BY <1>7, RotationAssumption DEF RotationAssumption, Kitchen!TimePasses, Kitchen!positionVars
<1> QED BY <1>2, <1>3, <1>4, <1>5, <1>6, <1>7 DEF Kitchen!HearthNext

LEMMA WeekFades == ASSUME WeekInv, RotationAssumption PROVE Kitchen!PositionFades
BY DEF RotationAssumption, WeekInv, Kitchen!PositionFades, Kitchen!loadHearthPosition, Kitchen!loadExpiringUiState

(* ------------------------------------------------------------------- the suppers *)

(* A plan entry. *)
Entries == [dish : Dishes, id : Days \cup Nat]

(* No two entries share an id, and the ids to come are not used yet. *)
PlanOK ==
  /\ suppers \in [Days -> Entries \cup {NONE}] /\ wall \in [Days -> Entries \cup {NONE}]
  /\ made \in Nat
  /\ \A d \in Days : suppers[d] # NONE /\ suppers[d].id \in Nat => suppers[d].id < made
  /\ \A d, e \in Days : suppers[d] # NONE /\ suppers[e] # NONE /\ suppers[d].id = suppers[e].id => d = e

(* A swap of the supper a on one day with the supper b, or none, on another, as it is begun, *)
(* after its first call and after both; x is the call for the day the supper comes from.     *)
Held(from, seen) == [at |-> "held", from |-> from, entries |-> seen]
Begun(from, to, a, b, x, calm) ==
  [at |-> "running", from |-> from, to |-> to, before |-> <<a, b>>, ops |-> <<Kitchen!Upsert(to, a), x>>, calm |-> calm]
Halfway(from, to, a, b, x, calm) ==
  [at |-> "running", from |-> from, to |-> to, before |-> <<a, b>>, ops |-> <<x>>, calm |-> calm]
Over(from, to, a, b, calm) ==
  [at |-> "done", from |-> from, to |-> to, before |-> <<a, b>>, ops |-> <<>>, calm |-> calm]

SecondCalls(from, b) ==
  IF b = NONE THEN [type : {"delete"}, id : Days \cup Nat] ELSE {Kitchen!Upsert(from, b)}

(* In a plan P: the day the supper comes from still has it, and the second call is for it. *)
DishIn(P, d) == IF P[d] = NONE THEN NONE ELSE P[d].dish
Source(P, from, a, b, x) ==
  /\ P[from] # NONE /\ P[from].dish = a
  /\ b = NONE => x.id = P[from].id

IsHeld(s) ==
  \E from \in Days, seen \in [Days -> Entries \cup {NONE}] : seen[from] # NONE /\ s = Held(from, seen)

IsBegun(s, P) ==
  \E from, to \in Days, a \in Dishes, b \in Dishes \cup {NONE}, calm \in BOOLEAN : \E x \in SecondCalls(from, b) :
    /\ from # to /\ s = Begun(from, to, a, b, x, calm)
    /\ calm => Source(P, from, a, b, x) /\ DishIn(P, to) = b

IsHalfway(s, P) ==
  \E from, to \in Days, a \in Dishes, b \in Dishes \cup {NONE}, calm \in BOOLEAN : \E x \in SecondCalls(from, b) :
    /\ from # to /\ s = Halfway(from, to, a, b, x, calm)
    /\ calm => Source(P, from, a, b, x) /\ DishIn(P, to) = a

IsOver(s, P) ==
  \E from, to \in Days, a \in Dishes, b \in Dishes \cup {NONE}, calm \in BOOLEAN :
    /\ from # to /\ s = Over(from, to, a, b, calm)
    /\ calm => DishIn(P, from) = b /\ DishIn(P, to) = a

SwapOK(s, P) == s = NONE \/ IsHeld(s) \/ IsBegun(s, P) \/ IsHalfway(s, P) \/ IsOver(s, P)

MealInv ==
  /\ PlanOK
  /\ swaps = [h \in Hands |-> swaps[h]]
  /\ \A h \in Hands : SwapOK(swaps[h], suppers)

(* What Disturbed makes of one swap when day d is written. *)
Shaken(s, d) == IF s # NONE /\ s.at # "held" /\ d \in {s.from, s.to} THEN [s EXCEPT !.calm = FALSE] ELSE s

(* A swap whose days are not written is as it was; of one whose day is, nothing is promised. *)
LEMMA WriteShakes ==
  ASSUME NEW P, NEW Q, NEW d \in Days, \A e \in Days \ {d} : Q[e] = P[e], NEW s, SwapOK(s, P)
  PROVE  SwapOK(Shaken(s, d), Q)
<1>1. CASE s = NONE
  BY <1>1 DEF SwapOK, Shaken
<1>2. ASSUME IsHeld(s) PROVE SwapOK(Shaken(s, d), Q)
  <2>1. PICK from \in Days, seen \in [Days -> Entries \cup {NONE}] : seen[from] # NONE /\ s = Held(from, seen)
    BY <1>2 DEF IsHeld
  <2>2. Shaken(s, d) = s
    BY <2>1 DEF Shaken, Held
  <2> QED BY <1>2, <2>2 DEF SwapOK
<1>3. ASSUME IsOver(s, P), s # NONE PROVE SwapOK(Shaken(s, d), Q)
  <2>1. PICK from \in Days, to \in Days, a \in Dishes, b \in Dishes \cup {NONE}, calm \in BOOLEAN :
          /\ from # to /\ s = Over(from, to, a, b, calm)
          /\ calm => DishIn(P, from) = b /\ DishIn(P, to) = a
    BY <1>3 DEF IsOver
  <2> DEFINE c == IF d \in {from, to} THEN FALSE ELSE calm
             r == Shaken(s, d)
  <2>2. r = Over(from, to, a, b, c)
    BY <1>3, <2>1 DEF Shaken, Over
  <2>3. c \in BOOLEAN /\ (c => DishIn(Q, from) = b /\ DishIn(Q, to) = a)
    BY <2>1 DEF DishIn
  <2> HIDE DEF c, r
  <2>4. IsOver(r, Q)
    BY <2>1, <2>2, <2>3 DEF IsOver
  <2> QED BY <2>4 DEF SwapOK, r
<1>4. ASSUME IsBegun(s, P), s # NONE PROVE SwapOK(Shaken(s, d), Q)
  <2>1. PICK from \in Days, to \in Days, a \in Dishes, b \in Dishes \cup {NONE}, calm \in BOOLEAN :
          \E x \in SecondCalls(from, b) :
            /\ from # to /\ s = Begun(from, to, a, b, x, calm)
            /\ calm => Source(P, from, a, b, x) /\ DishIn(P, to) = b
    BY <1>4 DEF IsBegun
  <2>2. PICK x \in SecondCalls(from, b) :
            /\ from # to /\ s = Begun(from, to, a, b, x, calm)
            /\ calm => Source(P, from, a, b, x) /\ DishIn(P, to) = b
    BY <2>1
  <2> DEFINE c == IF d \in {from, to} THEN FALSE ELSE calm
             r == Shaken(s, d)
  <2>3. r = Begun(from, to, a, b, x, c)
    BY <1>4, <2>2 DEF Shaken, Begun
  <2>4. c \in BOOLEAN /\ (c => Source(Q, from, a, b, x) /\ DishIn(Q, to) = b)
    BY <2>2 DEF DishIn, Source
  <2> HIDE DEF c, r
  <2>5. IsBegun(r, Q)
    BY <2>2, <2>3, <2>4 DEF IsBegun
  <2> QED BY <2>5 DEF SwapOK, r
<1>5. ASSUME IsHalfway(s, P), s # NONE PROVE SwapOK(Shaken(s, d), Q)
  <2>1. PICK from \in Days, to \in Days, a \in Dishes, b \in Dishes \cup {NONE}, calm \in BOOLEAN :
          \E x \in SecondCalls(from, b) :
            /\ from # to /\ s = Halfway(from, to, a, b, x, calm)
            /\ calm => Source(P, from, a, b, x) /\ DishIn(P, to) = a
    BY <1>5 DEF IsHalfway
  <2>2. PICK x \in SecondCalls(from, b) :
            /\ from # to /\ s = Halfway(from, to, a, b, x, calm)
            /\ calm => Source(P, from, a, b, x) /\ DishIn(P, to) = a
    BY <2>1
  <2> DEFINE c == IF d \in {from, to} THEN FALSE ELSE calm
             r == Shaken(s, d)
  <2>3. r = Halfway(from, to, a, b, x, c)
    BY <1>5, <2>2 DEF Shaken, Halfway
  <2>4. c \in BOOLEAN /\ (c => Source(Q, from, a, b, x) /\ DishIn(Q, to) = a)
    BY <2>2 DEF DishIn, Source
  <2> HIDE DEF c, r
  <2>5. IsHalfway(r, Q)
    BY <2>2, <2>3, <2>4 DEF IsHalfway
  <2> QED BY <2>5 DEF SwapOK, r
<1> QED BY <1>1, <1>2, <1>3, <1>4, <1>5 DEF SwapOK

(* The other swaps when one of them writes a day. *)
LEMMA OthersShaken ==
  ASSUME MealInv, NEW h \in Hands, NEW d \in Days, \A e \in Days \ {d} : suppers'[e] = suppers[e],
         NEW n, swaps' = [Kitchen!Disturbed(h, d) EXCEPT ![h] = n], SwapOK(n, suppers')
  PROVE  swaps' = [g \in Hands |-> swaps'[g]] /\ \A g \in Hands : SwapOK(swaps'[g], suppers')
<1>1. /\ swaps' = [g \in Hands |-> swaps'[g]] /\ swaps'[h] = n
      /\ \A g \in Hands : g # h => swaps'[g] = Shaken(swaps[g], d)
  BY DEF Kitchen!Disturbed, Shaken
<1>2. \A g \in Hands : SwapOK(Shaken(swaps[g], d), suppers')
  BY WriteShakes DEF MealInv
<1> QED BY <1>1, <1>2

(* ------------------------------------------------------- what is done to a day *)
LEMMA DayPlanned ==
  ASSUME PlanOK, RecordsAssumption, NEW d \in Days, NEW dish \in Dishes,
         suppers' = [suppers EXCEPT ![d] = Kitchen!RowWith(suppers[d], dish)],
         made' = IF suppers[d] = NONE THEN made + 1 ELSE made, wall' = wall
  PROVE  /\ PlanOK'
         /\ suppers'[d] # NONE /\ suppers'[d].dish = dish
         /\ \A e \in Days \ {d} : suppers'[e] = suppers[e]
<1> DEFINE r == Kitchen!RowWith(suppers[d], dish)
<1>1. /\ r \in Entries /\ r.dish = dish
      /\ r.id = IF suppers[d] = NONE THEN made ELSE suppers[d].id
  <2>1. CASE suppers[d] = NONE
    BY <2>1 DEF PlanOK, Entries, Kitchen!RowWith
  <2>2. CASE suppers[d] # NONE
    <3>1. suppers[d] \in Entries
      BY <2>2 DEF PlanOK
    <3> QED BY <2>2, <3>1 DEF Entries, Kitchen!RowWith
  <2> QED BY <2>1, <2>2
<1>2. r # NONE
  BY <1>1 DEF RecordsAssumption, Entries
<1> HIDE DEF r
<1>3. suppers' = [suppers EXCEPT ![d] = r]
  BY DEF r
<1>4. /\ suppers' \in [Days -> Entries \cup {NONE}] /\ suppers'[d] = r
      /\ \A e \in Days \ {d} : suppers'[e] = suppers[e]
  BY <1>1, <1>3 DEF PlanOK
<1>5. made' \in Nat /\ made <= made' /\ (suppers[d] = NONE => made' = made + 1)
  BY DEF PlanOK
<1>6. \A e \in Days : suppers'[e] # NONE /\ suppers'[e].id \in Nat => suppers'[e].id < made'
  BY <1>1, <1>4, <1>5 DEF PlanOK
<1>7. \A e \in Days : suppers[e] # NONE => suppers[e] \in Entries /\ suppers[e].id # made
  BY DEF PlanOK, Entries, RecordsAssumption
<1>8. ASSUME NEW e \in Days, e # d, suppers'[e] # NONE PROVE suppers'[e].id # suppers'[d].id
  BY <1>1, <1>4, <1>7, <1>8 DEF PlanOK
<1>9. \A e, f \in Days : suppers'[e] # NONE /\ suppers'[f] # NONE /\ suppers'[e].id = suppers'[f].id => e = f
  BY <1>4, <1>8 DEF PlanOK
<1> QED BY <1>1, <1>2, <1>4, <1>5, <1>6, <1>9 DEF PlanOK, Entries

LEMMA DayCleared ==
  ASSUME PlanOK, NEW d \in Days, suppers' = [suppers EXCEPT ![d] = NONE], made' = made, wall' = wall
  PROVE  /\ PlanOK' /\ suppers'[d] = NONE
         /\ \A e \in Days \ {d} : suppers'[e] = suppers[e]
BY DEF PlanOK, Entries

(* ------------------------------------------------------------- the drag itself *)
LEMMA SwapDropped ==
  ASSUME MealInv, RecordsAssumption, NEW h \in Hands, NEW to \in Days, Kitchen!onSwapMeal(h, to)
  PROVE  MealInv'
<1>1. /\ suppers' = suppers /\ wall' = wall /\ made' = made
      /\ swaps[h] # NONE /\ swaps[h].at = "held" /\ to # swaps[h].from
  BY DEF Kitchen!onSwapMeal
<1>2. IsHeld(swaps[h])
  BY <1>1 DEF MealInv, SwapOK, IsBegun, IsHalfway, IsOver, Begun, Halfway, Over
<1>3. PICK from \in Days, seen \in [Days -> Entries \cup {NONE}] : seen[from] # NONE /\ swaps[h] = Held(from, seen)
  BY <1>2 DEF IsHeld
<1>4. swaps[h].from = from /\ swaps[h].entries = seen /\ from # to
  BY <1>1, <1>3 DEF Held
<1> DEFINE a == seen[from].dish
           b == IF seen[to] = NONE THEN NONE ELSE seen[to].dish
           x == IF seen[to] = NONE THEN [type |-> "delete", id |-> seen[from].id] ELSE Kitchen!Upsert(from, b)
           calm == /\ \A d \in {from, to} : seen[d] = suppers[d]
                   /\ \A g \in Hands \ {h} : swaps[g] # NONE => swaps[g].at # "running"
           n == Begun(from, to, a, b, x, calm)
<1>5. /\ a \in Dishes /\ b \in Dishes \cup {NONE} /\ (b = NONE <=> seen[to] = NONE)
      /\ seen[from].id \in Days \cup Nat
  BY <1>3 DEF Entries, RecordsAssumption
<1>6. x \in SecondCalls(from, b)
  BY <1>5 DEF SecondCalls
<1>7. swaps' = [swaps EXCEPT ![h] = n]
  <2>1. Kitchen!EntryDish(seen[from]) = a /\ Kitchen!EntryDish(seen[to]) = b
    BY <1>3 DEF Kitchen!EntryDish
  <2>2. Kitchen!computeMealSwap(seen, from, to) = <<Kitchen!Upsert(to, a), x>>
    BY DEF Kitchen!computeMealSwap, Kitchen!Delete
  <2>3. swaps' = [swaps EXCEPT ![h] =
          [at |-> "running", from |-> from, to |-> to,
           before |-> <<Kitchen!EntryDish(seen[from]), Kitchen!EntryDish(seen[to])>>,
           ops |-> Kitchen!computeMealSwap(seen, from, to), calm |-> calm]]
    BY <1>4 DEF Kitchen!onSwapMeal
  <2> HIDE DEF calm, x, a, b
  <2> QED BY <2>1, <2>2, <2>3 DEF Begun
<1>8. calm \in BOOLEAN /\ (calm => Source(suppers, from, a, b, x) /\ DishIn(suppers, to) = b)
  BY <1>3, <1>5 DEF Source, DishIn
<1> HIDE DEF a, b, x, calm
<1>9. SwapOK(n, suppers)
  BY <1>4, <1>5, <1>6, <1>8 DEF IsBegun, SwapOK
<1> HIDE DEF n
<1> QED BY <1>1, <1>7, <1>9 DEF MealInv, PlanOK

LEMMA SwapEnds ==
  ASSUME MealInv, NEW h \in Hands,
         \/ \E d \in Days : Kitchen!PickUp(h, d)
         \/ Kitchen!Cancel(h) \/ Kitchen!SwapFails(h) \/ Kitchen!Finish(h)
  PROVE  MealInv'
<1>1. /\ suppers' = suppers /\ wall' = wall /\ made' = made
      /\ \E n : swaps' = [swaps EXCEPT ![h] = n] /\ SwapOK(n, suppers)
  <2>1. ASSUME NEW d \in Days, Kitchen!PickUp(h, d) PROVE SwapOK(Held(d, wall), suppers)
    BY <2>1 DEF MealInv, PlanOK, SwapOK, IsHeld, Kitchen!PickUp
  <2>2. SwapOK(NONE, suppers)
    BY DEF SwapOK
  <2> QED BY <2>1, <2>2 DEF Held, Kitchen!PickUp, Kitchen!Cancel, Kitchen!SwapFails, Kitchen!Finish
<1> QED BY <1>1 DEF MealInv, PlanOK

(* ------------------------------------------------------------ the calls of a swap *)
LEMMA LastCall ==
  ASSUME NEW from, NEW to, NEW before, NEW first, Len(first) = 1, NEW calm, NEW s,
         s = [at |-> "running", from |-> from, to |-> to, before |-> before, ops |-> first, calm |-> calm]
  PROVE  Kitchen!After(s) = [at |-> "done", from |-> from, to |-> to, before |-> before, ops |-> <<>>, calm |-> calm]
<1> PICK none : none = <<>>
  OBVIOUS
<1> PICK r, t : r = [s EXCEPT !.at = "done"] /\ t = [r EXCEPT !.ops = none]
  OBVIOUS
<1>1. r = [at |-> "done", from |-> from, to |-> to, before |-> before, ops |-> first, calm |-> calm]
  OBVIOUS
<1>2. t = [at |-> "done", from |-> from, to |-> to, before |-> before, ops |-> none, calm |-> calm]
  BY <1>1
<1>3. [s EXCEPT !.at = "done", !.ops = none] = t
  OBVIOUS
<1>4. Kitchen!After(s) = [s EXCEPT !.at = "done", !.ops = none]
  BY DEF Kitchen!After
<1> QED BY <1>2, <1>3, <1>4

LEMMA OneCallLeft ==
  ASSUME NEW from, NEW to, NEW a, NEW b, NEW x, NEW calm, NEW s, s = Halfway(from, to, a, b, x, calm)
  PROVE  Kitchen!After(s) = Over(from, to, a, b, calm)
<1> PICK before, first : before = <<a, b>> /\ first = <<x>>
  OBVIOUS
<1>1. Len(first) = 1
  OBVIOUS
<1>2. s = [at |-> "running", from |-> from, to |-> to, before |-> before, ops |-> first, calm |-> calm]
  BY DEF Halfway
<1>3. Kitchen!After(s) = [at |-> "done", from |-> from, to |-> to, before |-> before, ops |-> <<>>, calm |-> calm]
  BY <1>1, <1>2, LastCall
<1> QED BY <1>3 DEF Over

LEMMA SwapWrites ==
  ASSUME MealInv, RecordsAssumption, NEW h \in Hands, Kitchen!upsertMeal(h)
  PROVE  MealInv'
<1> DEFINE op == Head(swaps[h].ops)
           m == Kitchen!After(swaps[h])
<1>1. /\ swaps[h] # NONE /\ swaps[h].at = "running" /\ op.type = "upsert"
      /\ suppers' = [suppers EXCEPT ![op.day] = Kitchen!RowWith(suppers[op.day], op.dish)]
      /\ made' = IF suppers[op.day] = NONE THEN made + 1 ELSE made
      /\ wall' = wall
      /\ \E n \in {m, NONE} : swaps' = [Kitchen!Disturbed(h, op.day) EXCEPT ![h] = n]
  BY DEF Kitchen!upsertMeal, Kitchen!Running
<1>4. IsBegun(swaps[h], suppers) \/ IsHalfway(swaps[h], suppers)
  <2> HIDE DEF op, m
  <2> QED BY <1>1 DEF MealInv, SwapOK, IsHeld, IsOver, Held, Over
<1>2. CASE IsBegun(swaps[h], suppers)
  <2>1. PICK from \in Days, to \in Days, a \in Dishes, b \in Dishes \cup {NONE}, calm \in BOOLEAN :
          \E x \in SecondCalls(from, b) :
            /\ from # to /\ swaps[h] = Begun(from, to, a, b, x, calm)
            /\ calm => Source(suppers, from, a, b, x) /\ DishIn(suppers, to) = b
    BY <1>2 DEF IsBegun
  <2>2. PICK x \in SecondCalls(from, b) :
            /\ from # to /\ swaps[h] = Begun(from, to, a, b, x, calm)
            /\ calm => Source(suppers, from, a, b, x) /\ DishIn(suppers, to) = b
    BY <2>1
  <2>3. op = Kitchen!Upsert(to, a) /\ m = Halfway(from, to, a, b, x, calm)
    BY <2>2 DEF Begun, Halfway, Kitchen!After
  <2>4. op.day = to /\ op.dish = a
    BY <2>3 DEF Kitchen!Upsert
  <2> HIDE DEF op, m
  <2>5. /\ PlanOK' /\ suppers'[to] # NONE /\ suppers'[to].dish = a
        /\ \A e \in Days \ {to} : suppers'[e] = suppers[e]
    <3>1. /\ suppers' = [suppers EXCEPT ![to] = Kitchen!RowWith(suppers[to], a)]
          /\ made' = IF suppers[to] = NONE THEN made + 1 ELSE made
      BY <1>1, <2>4
    <3> QED BY <1>1, <2>4, <3>1, DayPlanned DEF MealInv
  <2>6. calm => Source(suppers', from, a, b, x) /\ DishIn(suppers', to) = a
    BY <2>2, <2>5 DEF Source, DishIn
  <2>7. SwapOK(m, suppers') /\ SwapOK(NONE, suppers')
    BY <2>2, <2>3, <2>6 DEF IsHalfway, SwapOK
  <2>8. PICK n \in {m, NONE} : swaps' = [Kitchen!Disturbed(h, to) EXCEPT ![h] = n]
    BY <1>1, <2>4
  <2>9. SwapOK(n, suppers')
    BY <2>7, <2>8
  <2>10. swaps' = [g \in Hands |-> swaps'[g]] /\ \A g \in Hands : SwapOK(swaps'[g], suppers')
    BY <2>5, <2>8, <2>9, OthersShaken
  <2> QED BY <2>5, <2>10 DEF MealInv
<1>3. CASE IsHalfway(swaps[h], suppers)
  <2>1. PICK from \in Days, to \in Days, a \in Dishes, b \in Dishes \cup {NONE}, calm \in BOOLEAN :
          \E x \in SecondCalls(from, b) :
            /\ from # to /\ swaps[h] = Halfway(from, to, a, b, x, calm)
            /\ calm => Source(suppers, from, a, b, x) /\ DishIn(suppers, to) = a
    BY <1>3 DEF IsHalfway
  <2>2. PICK x \in SecondCalls(from, b) :
            /\ from # to /\ swaps[h] = Halfway(from, to, a, b, x, calm)
            /\ calm => Source(suppers, from, a, b, x) /\ DishIn(suppers, to) = a
    BY <2>1
  <2>3. op = x /\ m = Over(from, to, a, b, calm)
    BY <2>2, OneCallLeft DEF Halfway
  <2>4. b # NONE /\ op.day = from /\ op.dish = b
    BY <1>1, <2>3 DEF SecondCalls, Kitchen!Upsert
  <2> HIDE DEF op, m
  <2>5. /\ PlanOK' /\ suppers'[from] # NONE /\ suppers'[from].dish = b
        /\ \A e \in Days \ {from} : suppers'[e] = suppers[e]
    <3>1. /\ suppers' = [suppers EXCEPT ![from] = Kitchen!RowWith(suppers[from], b)]
          /\ made' = IF suppers[from] = NONE THEN made + 1 ELSE made
      BY <1>1, <2>4
    <3> QED BY <1>1, <2>4, <3>1, DayPlanned DEF MealInv
  <2>6. calm => DishIn(suppers', from) = b /\ DishIn(suppers', to) = a
    BY <2>2, <2>5 DEF DishIn
  <2>7. SwapOK(m, suppers') /\ SwapOK(NONE, suppers')
    BY <2>2, <2>3, <2>6 DEF IsOver, SwapOK
  <2>8. PICK n \in {m, NONE} : swaps' = [Kitchen!Disturbed(h, from) EXCEPT ![h] = n]
    BY <1>1, <2>4
  <2>9. SwapOK(n, suppers')
    BY <2>7, <2>8
  <2>10. swaps' = [g \in Hands |-> swaps'[g]] /\ \A g \in Hands : SwapOK(swaps'[g], suppers')
    BY <2>5, <2>8, <2>9, OthersShaken
  <2> QED BY <2>5, <2>10 DEF MealInv
<1> QED BY <1>2, <1>3, <1>4

LEMMA SwapClears ==
  ASSUME MealInv, NEW h \in Hands, Kitchen!deleteMeal(h)
  PROVE  MealInv'
<1> DEFINE m == Kitchen!After(swaps[h])
<1>1. PICK d \in Days :
        /\ swaps[h] # NONE /\ swaps[h].at = "running" /\ Head(swaps[h].ops).type = "delete"
        /\ suppers[d] # NONE /\ suppers[d].id = Head(swaps[h].ops).id
        /\ suppers' = [suppers EXCEPT ![d] = NONE] /\ made' = made /\ wall' = wall
        /\ \E n \in {m, NONE} : swaps' = [Kitchen!Disturbed(h, d) EXCEPT ![h] = n]
  BY DEF Kitchen!deleteMeal, Kitchen!Running
<1>2. PlanOK' /\ suppers'[d] = NONE /\ \A e \in Days \ {d} : suppers'[e] = suppers[e]
  BY <1>1, DayCleared DEF MealInv
<1>3. IsHalfway(swaps[h], suppers)
  BY <1>1 DEF MealInv, SwapOK, IsHeld, IsOver, IsBegun, Held, Over, Begun, Kitchen!Upsert
<1>4. PICK from \in Days, to \in Days, a \in Dishes, b \in Dishes \cup {NONE}, calm \in BOOLEAN :
        \E x \in SecondCalls(from, b) :
          /\ from # to /\ swaps[h] = Halfway(from, to, a, b, x, calm)
          /\ calm => Source(suppers, from, a, b, x) /\ DishIn(suppers, to) = a
  BY <1>3 DEF IsHalfway
<1>5. PICK x \in SecondCalls(from, b) :
          /\ from # to /\ swaps[h] = Halfway(from, to, a, b, x, calm)
          /\ calm => Source(suppers, from, a, b, x) /\ DishIn(suppers, to) = a
  BY <1>4
<1>6. Head(swaps[h].ops) = x /\ m = Over(from, to, a, b, calm)
  BY <1>5, OneCallLeft DEF Halfway
<1>7. b = NONE
  BY <1>1, <1>5, <1>6 DEF SecondCalls, Kitchen!Upsert
<1>8. calm => d = from
  BY <1>1, <1>5, <1>6, <1>7 DEF MealInv, PlanOK, Source
<1> HIDE DEF m
<1>9. calm => DishIn(suppers', from) = b /\ DishIn(suppers', to) = a
  BY <1>2, <1>5, <1>7, <1>8 DEF DishIn
<1>10. SwapOK(m, suppers') /\ SwapOK(NONE, suppers')
  BY <1>5, <1>6, <1>9 DEF IsOver, SwapOK
<1> QED BY <1>1, <1>2, <1>10, OthersShaken DEF MealInv

(* A swap is not told apart from no swap at all: the plan is written on one day. *)
LEMMA PlanMoves ==
  ASSUME MealInv, RecordsAssumption, Kitchen!PollPlan \/ Kitchen!PlanElsewhere
  PROVE  MealInv'
<1>1. CASE Kitchen!PollPlan
  BY <1>1 DEF Kitchen!PollPlan, MealInv, PlanOK
<1>2. CASE Kitchen!PlanElsewhere
  <2>1. PICK d \in Days :
          /\ \/ \E dish \in Dishes : /\ suppers' = [suppers EXCEPT ![d] = Kitchen!RowWith(suppers[d], dish)]
                                      /\ made' = IF suppers[d] = NONE THEN made + 1 ELSE made
             \/ suppers' = [suppers EXCEPT ![d] = NONE] /\ made' = made
          /\ swaps' = Kitchen!Disturbed(NONE, d) /\ wall' = wall
    BY <1>2 DEF Kitchen!PlanElsewhere
  <2>2. PlanOK' /\ \A e \in Days \ {d} : suppers'[e] = suppers[e]
    BY <2>1, DayPlanned, DayCleared DEF MealInv
  <2>3. swaps' = [g \in Hands |-> swaps'[g]] /\ \A g \in Hands : swaps'[g] = Shaken(swaps[g], d)
    BY <2>1 DEF Kitchen!Disturbed, Shaken, RecordsAssumption
  <2>4. \A g \in Hands : SwapOK(Shaken(swaps[g], d), suppers')
    BY <2>2, WriteShakes DEF MealInv
  <2> QED BY <2>2, <2>3, <2>4 DEF MealInv
<1> QED BY <1>1, <1>2

LEMMA MealsStart == ASSUME RecordsAssumption, Kitchen!HearthInit PROVE MealInv
<1>1. PICK planned \in [Days -> Dishes \cup {NONE}] :
        suppers = [d \in Days |-> IF planned[d] = NONE THEN NONE ELSE [dish |-> planned[d], id |-> d]]
  BY DEF Kitchen!HearthInit
<1>2. suppers \in [Days -> Entries \cup {NONE}] /\ \A d \in Days : suppers[d] # NONE => suppers[d].id = d
  BY <1>1 DEF Entries
<1> QED BY <1>2 DEF Kitchen!HearthInit, MealInv, PlanOK, SwapOK, RecordsAssumption

LEMMA MealsKept ==
  ASSUME MealInv, RecordsAssumption, [Kitchen!HearthNext]_kitchen
  PROVE  MealInv'
<1>1. CASE UNCHANGED Kitchen!mealVars
  BY <1>1 DEF Kitchen!mealVars, MealInv, PlanOK
<1>2. CASE \/ Kitchen!PollTasks \/ \E to \in Kitchen!Queries \cup {"other"} : Kitchen!PageTasks(to)
           \/ \E q \in Kitchen!Queries : \/ Kitchen!ReadTasks(q) \/ Kitchen!TasksArrive(q)
                                         \/ Kitchen!FetchLost(q)
           \/ \E t \in Tasks : \/ Kitchen!onCompleteTask(t) \/ Kitchen!CompleteOnServer(t)
                               \/ Kitchen!CompleteSucceeds(t) \/ Kitchen!CompleteFails(t)
                               \/ Kitchen!TaskElsewhere(t)
  BY <1>1, <1>2 DEF Kitchen!PollTasks, Kitchen!ReadTasks,
                    Kitchen!TasksArrive, Kitchen!FetchLost, Kitchen!PageTasks, Kitchen!onCompleteTask,
                    Kitchen!CompleteOnServer, Kitchen!CompleteSucceeds, Kitchen!CompleteFails,
                    Kitchen!TaskElsewhere
<1>3. CASE \/ Kitchen!Reload \/ Kitchen!TimePasses
           \/ \E o \in Offsets : Kitchen!page(o)
           \/ \E i \in DOMAIN FeedKeys : Kitchen!FeedSucceeds(i) \/ Kitchen!FeedFails(i)
  BY <1>1, <1>3 DEF Kitchen!Reload, Kitchen!TimePasses, Kitchen!page, Kitchen!FeedSucceeds, Kitchen!FeedFails
<1>4. CASE UNCHANGED kitchen
  BY <1>1, <1>4 DEF kitchen, Kitchen!mealVars
<1>5. CASE \E h \in Hands : \/ \E d \in Days : Kitchen!PickUp(h, d) \/ Kitchen!onSwapMeal(h, d)
                            \/ Kitchen!Cancel(h) \/ Kitchen!upsertMeal(h) \/ Kitchen!deleteMeal(h)
                            \/ Kitchen!SwapFails(h) \/ Kitchen!Finish(h)
  BY <1>5, SwapDropped, SwapEnds, SwapWrites, SwapClears
<1> QED BY <1>2, <1>3, <1>4, <1>5, PlanMoves DEF Kitchen!HearthNext

LEMMA MealsExchanged == ASSUME MealInv PROVE Kitchen!SwapsExchange
<1> SUFFICES ASSUME NEW h \in Hands, swaps[h] # NONE, swaps[h].at \in {"running", "done"}, swaps[h].calm
             PROVE  /\ swaps[h].at = "done" => /\ Kitchen!DishOn(swaps[h].from) = swaps[h].before[2]
                                               /\ Kitchen!DishOn(swaps[h].to) = swaps[h].before[1]
                    /\ swaps[h].at = "running" =>
                         \A i \in 1..2 :
                           \/ swaps[h].before[i] \in {NONE, Kitchen!DishOn(swaps[h].from), Kitchen!DishOn(swaps[h].to)}
                           \/ \E op \in Kitchen!ToSet(swaps[h].ops) : op.type = "upsert" /\ op.dish = swaps[h].before[i]
  BY DEF Kitchen!SwapsExchange, Kitchen!Running
<1>1. \A d : Kitchen!DishOn(d) = DishIn(suppers, d)
  BY DEF Kitchen!DishOn, DishIn
<1>2. CASE IsOver(swaps[h], suppers)
  BY <1>1, <1>2 DEF IsOver, Over
<1>3. CASE IsBegun(swaps[h], suppers)
  BY <1>1, <1>3 DEF IsBegun, Begun, Source, DishIn
<1>4. CASE IsHalfway(swaps[h], suppers)
  <2>1. PICK from \in Days, to \in Days, a \in Dishes, b \in Dishes \cup {NONE}, calm \in BOOLEAN :
          \E x \in SecondCalls(from, b) :
            /\ from # to /\ swaps[h] = Halfway(from, to, a, b, x, calm)
            /\ calm => Source(suppers, from, a, b, x) /\ DishIn(suppers, to) = a
    BY <1>4 DEF IsHalfway
  <2>2. PICK x \in SecondCalls(from, b) :
            /\ from # to /\ swaps[h] = Halfway(from, to, a, b, x, calm)
            /\ calm => Source(suppers, from, a, b, x) /\ DishIn(suppers, to) = a
    BY <2>1
  <2>3. swaps[h].before = <<a, b>> /\ swaps[h].ops = <<x>> /\ swaps[h].to = to /\ swaps[h].at = "running" /\ calm
    BY <2>2 DEF Halfway
  <2>4. b # NONE => x.type = "upsert" /\ x.dish = b
    BY <2>2 DEF SecondCalls, Kitchen!Upsert
  <2>5. x \in Kitchen!ToSet(swaps[h].ops)
    BY <2>3 DEF Kitchen!ToSet
  <2>6. swaps[h].before[1] = Kitchen!DishOn(swaps[h].to)
    <3>1. swaps[h].before[1] = a
      BY <2>3
    <3>2. Kitchen!DishOn(to) = a
      BY <1>1, <2>2, <2>3
    <3> QED BY <2>3, <3>1, <3>2
  <2>7. swaps[h].before[2] = b
    BY <2>3
  <2>8. \/ swaps[h].before[2] = NONE
        \/ \E op \in Kitchen!ToSet(swaps[h].ops) : op.type = "upsert" /\ op.dish = swaps[h].before[2]
    BY <2>4, <2>5, <2>7
  <2>9. \A i \in 1..2 : i = 1 \/ i = 2
    OBVIOUS
  <2> QED BY <2>3, <2>6, <2>8, <2>9
<1> QED BY <1>2, <1>3, <1>4 DEF MealInv, SwapOK, IsHeld, Held

(* Hearth: a swap of suppers that runs to its end exchanges them, a tap that the server *)
(* took stays struck through, and the week the wall was paged to is shown for a while   *)
(* (hearth.tsx:74-84, 155-197).                                                       *)
THEOREM WallObeys ==
  Kitchen!HearthSpec => [](Kitchen!SwapsExchange /\ Kitchen!TapsHold /\ Kitchen!PositionFades)
<1> DEFINE Inv == MealInv /\ TapInv /\ WeekInv
<1>1. Kitchen!HearthInit => Inv
  BY MealsStart, TapsStart, WeekStarts, RecordsAssumption, RotationAssumption
<1>2. Inv /\ [Kitchen!HearthNext]_kitchen => Inv'
  BY MealsKept, TapsKept, WeekKept, RecordsAssumption, RotationAssumption
<1>3. Inv => Kitchen!SwapsExchange /\ Kitchen!TapsHold /\ Kitchen!PositionFades
  BY MealsExchanged, TapsAreHeld, WeekFades, RotationAssumption
<1>4. [Kitchen!HearthNext]_Kitchen!hearthVars => [Kitchen!HearthNext]_kitchen
  BY DEF Kitchen!hearthVars, Kitchen!mealVars, Kitchen!taskVars, Kitchen!positionVars, kitchen
<1> HIDE DEF Inv
<1> QED BY <1>1, <1>2, <1>3, <1>4, PTL DEF Kitchen!HearthSpec

(* ---------------------------------------------------------------- ZoneClock *)

(* ---------------------------------------------------------------- ZoneClock *)
LEMMA QuotientOfMultiple ==
  ASSUME NEW k \in Nat, NEW e \in Nat \ {0}
  PROVE  (k * e) \div e = k
<1> DEFINE q == (k * e) \div e
           r == (k * e) % e
<1>1. q \in Int /\ r \in 0..(e - 1) /\ k * e = e * q + r
  BY Z3
<1>2. (k - q) * e = r
  BY <1>1, Z3
<1> HIDE DEF q, r
<1>3. CASE k - q >= 1
  BY <1>1, <1>2, <1>3, MultipleOver
<1>4. CASE q - k >= 1
  <2>1. (q - k) * e >= e
    BY <1>1, <1>4, MultipleOver
  <2>2. (q - k) * e = 0 - r
    BY <1>1, <1>2, Z3
  <2> QED BY <1>1, <2>1, <2>2
<1> QED BY <1>1, <1>3, <1>4 DEF q

(* A multiple of e less than e away from k * e is k * e. *)
LEMMA NearMultiple ==
  ASSUME NEW k \in Nat, NEW e \in Nat \ {0}, NEW n \in Int, n % e = 0, k * e - e < n, n < k * e + e
  PROVE  n \div e = k
<1> DEFINE q == n \div e
<1>1. q \in Int /\ n = e * q
  BY SMT
<1>2. (q - k) * e = n - k * e /\ (k - q) * e = k * e - n /\ k * e \in Int
  BY <1>1, Z3
<1> HIDE DEF q
<1>3. CASE k - q >= 1
  <2>1. (k - q) * e >= e
    BY <1>1, <1>3, MultipleOver
  <2> QED BY <1>1, <1>2, <2>1
<1>4. CASE q - k >= 1
  <2>1. (q - k) * e >= e
    BY <1>1, <1>4, MultipleOver
  <2> QED BY <1>1, <1>2, <2>1
<1> QED BY <1>1, <1>3, <1>4 DEF q

(* ------------------------------------------------------------ a midnight somewhere *)
DayInv == zone \in Zones /\ day \in Nat

LEMMA ZoneTyped ==
  ASSUME DayInv, RecordsAssumption
  PROVE  /\ DAY \in Nat \ {0} /\ day * DAY \in Nat /\ day \in Nat
         /\ zone.before \in Int /\ -DAY < zone.before /\ zone.before < DAY
         /\ zone.after \in Int /\ -DAY < zone.after /\ zone.after < DAY
         /\ zone.at \in Int
         /\ (day - 1) * DAY = day * DAY - DAY /\ (day + 2) * DAY = day * DAY + 2 * DAY
<1>1. /\ DAY \in Nat \ {0} /\ day \in Nat
      /\ zone.before \in Int /\ -DAY < zone.before /\ zone.before < DAY
      /\ zone.after \in Int /\ -DAY < zone.after /\ zone.after < DAY
      /\ zone.at \in Int
  BY DEF DayInv, RecordsAssumption, Clock!ZoneConstants, Clock!IsZone
<1>2. day * DAY \in Nat
  BY <1>1, MultipleOver, Z3
<1>3. (day - 1) * DAY = day * DAY - DAY /\ (day + 2) * DAY = day * DAY + 2 * DAY
  BY <1>1, Z3
<1> QED BY <1>1, <1>2, <1>3

(* If the clock ever reads midnight, it reads it before the change with the old offset, or *)
(* after it with the new one.                                                             *)
LEMMA MidnightRead ==
  ASSUME DayInv, RecordsAssumption, Clock!Reads(day * DAY) # {}
  PROVE  \/ day * DAY - zone.before < zone.at
         \/ day * DAY - zone.after >= zone.at
BY ZoneTyped DEF Clock!Reads, Clock!Around, Clock!wallClock, Clock!zoneOffset

(* The server's three corrections reach an instant that reads midnight. *)
LEMMA MidnightFound ==
  ASSUME DayInv, RecordsAssumption, Clock!Reads(day * DAY) # {}
  PROVE  Clock!zonedMidnightUtc(zone, day) \in Clock!Reads(day * DAY)
<1> DEFINE w == day * DAY
           F(g) == w - Clock!zoneOffset(zone, g)
<1>1. Clock!zonedMidnightUtc(zone, day) = F(F(F(w)))
  <2>1. \A g \in Int : Clock!Corrected(zone, w, g) = F(g) /\ F(g) \in Int
    BY ZoneTyped DEF Clock!Corrected, Clock!wallClock, Clock!zoneOffset
  <2>2. w \in Int
    BY ZoneTyped
  <2> HIDE DEF F, w
  <2>3. Clock!zonedMidnightUtc(zone, day) = Clock!Corrected(zone, w, Clock!Corrected(zone, w, Clock!Corrected(zone, w, w)))
    BY DEF Clock!zonedMidnightUtc, w
  <2> QED BY <2>1, <2>2, <2>3
<1>2. /\ w \in Int /\ \A g \in Int : F(g) = IF g < zone.at THEN w - zone.before ELSE w - zone.after
      /\ \A g \in Int : F(g) \in Int
  BY ZoneTyped DEF Clock!zoneOffset
<1>3. w - zone.before < zone.at \/ w - zone.after >= zone.at
  BY MidnightRead
<1> HIDE DEF F, w
<1> DEFINE z == F(F(F(w)))
<1>4. /\ z \in Int /\ z \in {w - zone.before, w - zone.after}
      /\ IF z < zone.at THEN z = w - zone.before ELSE z = w - zone.after
  BY <1>2, <1>3, ZoneTyped
<1> HIDE DEF z
<1>5. Clock!wallClock(zone, z) = w
  BY <1>2, <1>4, ZoneTyped DEF Clock!wallClock, Clock!zoneOffset
<1>6. z \in Clock!Around
  BY <1>4, ZoneTyped DEF Clock!Around, w
<1> QED BY <1>1, <1>5, <1>6 DEF Clock!Reads, w, z

LEMMA ReadsDay ==
  ASSUME DayInv, RecordsAssumption, NEW t, Clock!wallClock(zone, t) = day * DAY
  PROVE  Clock!localDateOf(zone, t) = day
BY ZoneTyped, QuotientOfMultiple DEF Clock!localDateOf

(* The browser's midnight is found too, and it is recovered as the day it was made for. *)
LEMMA MidnightRecovered ==
  ASSUME DayInv, RecordsAssumption, Clock!Reads(day * DAY) # {}
  PROVE  Clock!dateRecovered(zone, Clock!instantFromWallClock(zone, day * DAY)) = day
<1> DEFINE w == day * DAY
           S == Clock!Readings(zone, w)
<1>1. w \in Int /\ (w - zone.before < zone.at \/ w - zone.after >= zone.at)
  BY ZoneTyped, MidnightRead
<1>2. S = {t \in {w - Clock!zoneOffset(zone, w - DAY), w - Clock!zoneOffset(zone, w + DAY)} :
             Clock!wallClock(zone, t) = w}
  BY DEF Clock!Readings
<1> HIDE DEF w, S
<1>3. S # {}
  <2>1. CASE w - zone.before < zone.at
    <3>1. Clock!zoneOffset(zone, w - DAY) = zone.before
      BY <1>1, <2>1, ZoneTyped DEF Clock!zoneOffset
    <3>2. Clock!wallClock(zone, w - zone.before) = w
      BY <1>1, <2>1, ZoneTyped DEF Clock!wallClock, Clock!zoneOffset
    <3> QED BY <1>2, <3>1, <3>2
  <2>2. CASE w - zone.after >= zone.at
    <3>1. Clock!zoneOffset(zone, w + DAY) = zone.after
      BY <1>1, <2>2, ZoneTyped DEF Clock!zoneOffset
    <3>2. Clock!wallClock(zone, w - zone.after) = w
      BY <1>1, <2>2, ZoneTyped DEF Clock!wallClock, Clock!zoneOffset
    <3> QED BY <1>2, <3>1, <3>2
  <2> QED BY <1>1, <2>1, <2>2
<1>4. S \subseteq {w - zone.before, w - zone.after}
  BY <1>2 DEF Clock!zoneOffset
<1>5. Clock!Min(S) \in S
  <2>1. \E x \in S : \A y \in S : x <= y
    BY <1>1, <1>3, <1>4, ZoneTyped
  <2> QED BY <2>1 DEF Clock!Min
<1> DEFINE i == Clock!Min(S)
<1>6. Clock!instantFromWallClock(zone, w) = i
  BY <1>3 DEF Clock!instantFromWallClock, S
<1>7. Clock!wallClock(zone, i) = w /\ i \in {w - zone.before, w - zone.after}
  BY <1>2, <1>4, <1>5
<1> HIDE DEF i
<1>8. CASE i % DAY = 0
  <2>1. i \in Int /\ w - DAY < i /\ i < w + DAY
    BY <1>1, <1>7, ZoneTyped
  <2>2. i \div DAY = day
    BY <1>8, <2>1, NearMultiple, ZoneTyped DEF w
  <2> QED BY <1>6, <1>8, <2>2 DEF Clock!dateRecovered, w
<1>9. CASE i % DAY # 0
  BY <1>6, <1>7, <1>9, ReadsDay DEF Clock!dateRecovered, w
<1> QED BY <1>8, <1>9

LEMMA DatesTravel == ASSUME DayInv, RecordsAssumption PROVE Clock!AnchorRight /\ Clock!DuesRight
<1>1. Clock!AnchorRight
  BY MidnightFound DEF Clock!AnchorRight
<1>2. ASSUME Clock!Reads(day * DAY) # {} PROVE Clock!localDateOf(zone, Clock!zonedMidnightUtc(zone, day)) = day
  BY <1>2, MidnightFound, ReadsDay DEF Clock!Reads
<1>3. (day * DAY) % DAY = 0 /\ (day * DAY) \div DAY = day
  BY ZoneTyped, MultipleLeaves, QuotientOfMultiple
<1>4. Clock!DuesRight
  <2> SUFFICES ASSUME Clock!Reads(day * DAY) # {}, NEW t \in Clock!Around, Clock!localDateOf(zone, t) = day,
                      NEW m \in {Clock!toLocalMidnightIso(zone, Clock!KeptByToDo(zone, Clock!dateSent(zone, t))),
                                 Clock!toLocalMidnightIso(zone, Clock!KeptAtGreenwich(Clock!dateSent(zone, t))),
                                 Clock!googleMidnight(zone, Clock!KeptAtGreenwich(Clock!dateSent(zone, t)))}
               PROVE  Clock!localDateOf(zone, m) = day
    BY DEF Clock!DuesRight
  <2>1. Clock!dateSent(zone, t) = day
    BY DEF Clock!dateSent
  <2>2. m = Clock!zonedMidnightUtc(zone, day)
    BY <1>3, <2>1, MidnightRecovered
       DEF Clock!toLocalMidnightIso, Clock!KeptByToDo, Clock!KeptAtGreenwich, Clock!googleMidnight, Clock!dateRecovered
  <2> QED BY <1>2, <2>2
<1> QED BY <1>1, <1>4

(* ZoneClock: a date is anchored to its midnight, and comes back from every provider as  *)
(* the date that was sent, on any day and in any zone whose offset changes at most once  *)
(* around it (local-date.ts:41-61, m365/task-provider.ts:58-72).                       *)
THEOREM DaysTravel == Clock!ClockSpec => [](Clock!AnchorRight /\ Clock!DuesRight)
<1>1. Clock!ClockInit => DayInv
  BY DEF Clock!ClockInit, DayInv
<1>2. DayInv /\ [Clock!ClockNext]_dates => DayInv'
  BY DEF DayInv, Clock!ClockNext, Clock!Midnight, dates
<1>3. DayInv => Clock!AnchorRight /\ Clock!DuesRight
  BY DatesTravel, RecordsAssumption
<1> QED BY <1>1, <1>2, <1>3, PTL DEF Clock!ClockSpec, Clock!clockVars, dates


(* ------------------------------------------------------------- the screens *)

(* Every page, wall and calendar of the household shows what it should, each service   *)
(* running by its own specification: for any members, events, windows, suppers, tasks, *)
(* zones and days, and for the views whose known gaps are the ones that are written down.*)
THEOREM ScreensAreRight ==
  ASSUME \A v \in Views : Browser!GapsKnown(v)
  PROVE  Calendar!EventSpec /\ Kitchen!HearthSpec /\ Clock!ClockSpec /\ Browser!CacheSpec => []ScreensRight
<1>1. Calendar!EventSpec => []Calendar!RangeViewRight
  BY WindowsShow
<1>2. Kitchen!HearthSpec => [](Kitchen!SwapsExchange /\ Kitchen!TapsHold /\ Kitchen!PositionFades)
  BY WallObeys
<1>3. Clock!ClockSpec => [](Clock!AnchorRight /\ Clock!DuesRight)
  BY DaysTravel
<1>4. Browser!CacheSpec => []Browser!ShownIsCurrent
  BY PagesCurrent
<1>5. /\ Calendar!RangeViewRight
      /\ Kitchen!SwapsExchange /\ Kitchen!TapsHold /\ Kitchen!PositionFades
      /\ Clock!AnchorRight /\ Clock!DuesRight
      /\ Browser!ShownIsCurrent
      => ScreensRight
  BY DEF ScreensRight
<1> QED BY <1>1, <1>2, <1>3, <1>4, <1>5, PTL
===============================================================================
