-------------------------- MODULE FireflySweep_proofs --------------------------
(* Proofs about FireflySweep: its types, and that no bank line is lost, for    *)
(* any number of lines and days, any page sizes and any overlap that covers    *)
(* how far lines are dated from their arrival.                                 *)
EXTENDS FireflySweep, FiniteSetTheorems, WellFoundedInduction, TLAPS

USE SweepAssumption

(* ------------------------------------------------------- the invariants *)
(* Nothing is dated further ahead than Ahead, and no sweep starts later than a *)
(* line that arrives now can be dated.                                         *)
Dated ==
  /\ \A i \in AllLines : bank[i] <= today + Ahead
  /\ cursor.since # NONE => cursor.since <= today - Late

(* A tick works from the persisted cursor, and the window behind a position    *)
(* inside a sweep is still in memory.                                          *)
CursorKept ==
  /\ cursor.after # 0 => cache.full /\ cache.since = cursor.since
  /\ \A w \in Callers :
       /\ tick[w].pc # "idle" => tick[w].cursor = cursor
       /\ tick[w].pc \in {"fetched", "page"} => cache.full /\ cache.since = cursor.since
       /\ tick[w].pc = "idle" => tick[w].read = 0

InReach(i, since) == since # NONE => since <= bank[i]

(* A line the window lacks is dated no more than Overlap before any it has. *)
Overtaken(i, lines) == \A m \in lines : bank[m] <= bank[i] + Overlap

WindowInv ==
  cache.full =>
    \A i \in AllLines \ removed : InReach(i, cache.since) => i \in cache.lines \/ Overtaken(i, cache.lines)

Later(i, lines) == {j \in lines : Earlier(i, j)}

OnLaterPage(w, i) ==
  LET rows == Window(cursor.since, tick[w].end)
  IN  i \in rows /\ Cardinality(Later(i, rows)) >= tick[w].read * PageSize

(* The same of the pages fetched so far, or the line is on a page still to come. *)
FetchInv ==
  \A w \in Callers : tick[w].pc = "list" =>
    /\ tick[w].read = 0 => tick[w].got = {}
    /\ cursor.since # NONE => \A m \in tick[w].got : bank[m] <= tick[w].end
    /\ \A i \in AllLines \ removed : InReach(i, cursor.since) =>
         i \in tick[w].got \/ Overtaken(i, tick[w].got) \/ OnLaterPage(w, i)

(* What a page leaves out comes after its end, and its checkpoint lies Overlap *)
(* before a line of the window.                                                *)
PageInv ==
  \A w \in Callers : tick[w].pc = "page" =>
    /\ \A i \in cache.lines \ inbox :
         i \in tick[w].todo \/ (tick[w].next # 0 /\ Earlier(tick[w].next, i))
    /\ IF cache.lines = {} THEN tick[w].checkpoint = cursor.since
       ELSE \E m \in cache.lines : tick[w].checkpoint = bank[m] - Overlap

SweepInv == TypeOK /\ Dated /\ CursorKept /\ WindowInv /\ FetchInv /\ PageInv /\ NoLineLost
-----------------------------------------------------------------------------
(* ---------------------------------------------------- the order of lines *)
LEMMA LineTypes ==
  ASSUME TypeOK
  PROVE  /\ Len(bank) \in Nat /\ AllLines \subseteq Nat \ {0}
         /\ \A i \in AllLines : bank[i] \in Int
BY DEF TypeOK, AllLines

(* Lines have a strict total order: the date, then Firefly's numbering. *)
LEMMA EarlierTotal ==
  ASSUME TypeOK
  PROVE  /\ \A i, j \in AllLines : i = j \/ Earlier(i, j) \/ Earlier(j, i)
         /\ \A i, j \in AllLines : Earlier(i, j) => ~Earlier(j, i) /\ i # j
         /\ \A i, j, k \in AllLines : Earlier(i, j) /\ Earlier(j, k) => Earlier(i, k)
<1>1. \A i \in AllLines : bank[i] \in Int /\ i \in Int
  BY LineTypes
<1> QED BY <1>1 DEF Earlier

LEMMA EarlierDate ==
  ASSUME TypeOK, NEW i \in AllLines, NEW j \in AllLines, Earlier(i, j)
  PROVE  bank[i] <= bank[j]
BY LineTypes DEF Earlier

LEMMA FiniteLines ==
  ASSUME TypeOK, NEW S, S \subseteq AllLines
  PROVE  IsFiniteSet(S) /\ Cardinality(S) \in Nat
<1>1. IsFiniteSet(AllLines)
  BY LineTypes, FS_Interval DEF AllLines
<1>2. IsFiniteSet(S)
  BY <1>1, FS_Subset
<1> QED BY <1>2, FS_CardinalityType

LEMMA FewerLines ==
  ASSUME TypeOK, NEW S, S \subseteq AllLines, NEW T, T \subseteq S
  PROVE  /\ Cardinality(T) \in Nat /\ Cardinality(S) \in Nat
         /\ Cardinality(T) <= Cardinality(S)
         /\ T # S => Cardinality(T) < Cardinality(S)
<1>1. IsFiniteSet(S) /\ Cardinality(S) \in Nat
  BY FiniteLines
<1>2. T \subseteq AllLines
  OBVIOUS
<1>3. Cardinality(T) \in Nat
  BY <1>2, FiniteLines
<1>4. Cardinality(T) <= Cardinality(S) /\ (Cardinality(S) = Cardinality(T) => S = T)
  BY <1>1, FS_Subset
<1> QED BY <1>1, <1>3, <1>4

(* A set of numbers has a least one. *)
LEMMA LeastNumber ==
  ASSUME NEW T, T \subseteq Nat, T # {}
  PROVE  \E x \in T : \A y \in T : x <= y
<1>1. PICK x \in T : \A y \in T : <<y, x>> \notin OpToRel(<, Nat)
  BY NatLessThanWellFounded, WFMin
<1>2. \A y \in T : ~(y < x)
  BY <1>1 DEF OpToRel
<1> QED BY <1>2

LEMMA FirstLine ==
  ASSUME TypeOK, NEW S, S \subseteq AllLines, S # {}
  PROVE  \E i \in S : \A j \in S \ {i} : Earlier(i, j)
<1> DEFINE rank(i) == Cardinality({j \in S : Earlier(j, i)})
<1>1. \A i \in S : rank(i) \in Nat
  <2>1. \A i \in S : {j \in S : Earlier(j, i)} \subseteq AllLines
    OBVIOUS
  <2> QED BY <2>1, FiniteLines
<1>2. PICK i \in S : \A j \in S : rank(i) <= rank(j)
  <2> DEFINE T == {rank(j) : j \in S}
  <2>1. T \subseteq Nat /\ T # {}
    BY <1>1
  <2> HIDE DEF rank
  <2>2. PICK x \in T : \A y \in T : x <= y
    <3> HIDE DEF T
    <3> QED BY <2>1, LeastNumber
  <2> QED BY <2>2
<1>3. ASSUME NEW j \in S \ {i} PROVE Earlier(i, j)
  <2> SUFFICES ASSUME Earlier(j, i) PROVE FALSE
    BY EarlierTotal
  <2> DEFINE A == {k \in S : Earlier(k, i)}
             B == {k \in S : Earlier(k, j)}
  <2>1. B \subseteq A /\ B # A /\ A \subseteq AllLines
    BY EarlierTotal
  <2>2. Cardinality(B) < Cardinality(A)
    <3> HIDE DEF A, B
    <3> QED BY <2>1, FewerLines
  <2>3. rank(i) <= rank(j)
    BY <1>2
  <2> QED BY <1>1, <2>2, <2>3
<1> QED BY <1>3

LEMMA LastLine ==
  ASSUME TypeOK, NEW S, S \subseteq AllLines, S # {}
  PROVE  \E i \in S : \A j \in S \ {i} : Earlier(j, i)
<1> DEFINE rank(i) == Cardinality({j \in S : Earlier(i, j)})
<1>1. \A i \in S : rank(i) \in Nat
  <2>1. \A i \in S : {j \in S : Earlier(i, j)} \subseteq AllLines
    OBVIOUS
  <2> QED BY <2>1, FiniteLines
<1>2. PICK i \in S : \A j \in S : rank(i) <= rank(j)
  <2> DEFINE T == {rank(j) : j \in S}
  <2>1. T \subseteq Nat /\ T # {}
    BY <1>1
  <2> HIDE DEF rank
  <2>2. PICK x \in T : \A y \in T : x <= y
    <3> HIDE DEF T
    <3> QED BY <2>1, LeastNumber
  <2> QED BY <2>2
<1>3. ASSUME NEW j \in S \ {i} PROVE Earlier(j, i)
  <2> SUFFICES ASSUME Earlier(i, j) PROVE FALSE
    BY EarlierTotal
  <2> DEFINE A == {k \in S : Earlier(i, k)}
             B == {k \in S : Earlier(j, k)}
  <2>1. B \subseteq A /\ B # A /\ A \subseteq AllLines
    BY EarlierTotal
  <2>2. Cardinality(B) < Cardinality(A)
    <3> HIDE DEF A, B
    <3> QED BY <2>1, FewerLines
  <2>3. rank(i) <= rank(j)
    BY <1>2
  <2> QED BY <1>1, <2>2, <2>3
<1> QED BY <1>3

(* The page of listSince: its end is one of its lines, everything it leaves    *)
(* out comes after that end, and there is no next page only if it leaves       *)
(* nothing out.                                                                *)
LEMMA PageEnds ==
  ASSUME TypeOK, NEW rest, rest \subseteq AllLines
  PROVE  /\ NextAfter(rest) \in {0} \cup FirstOf(rest)
         /\ NextAfter(rest) = 0 => FirstOf(rest) = rest
         /\ NextAfter(rest) # 0 => \A i \in rest \ FirstOf(rest) : Earlier(NextAfter(rest), i)
<1> DEFINE before(i) == {j \in rest : Earlier(j, i)}
<1>0. \A i \in rest : before(i) \subseteq rest /\ before(i) # rest
  BY EarlierTotal
<1>f. \A i \in rest : i \in FirstOf(rest) <=> Cardinality(before(i)) < Limit
  BY DEF FirstOf
<1>1. FirstOf(rest) \subseteq rest
  BY DEF FirstOf
<1> HIDE DEF before
<1>2. \A i \in rest : Cardinality(before(i)) \in Nat /\ Cardinality(before(i)) < Cardinality(rest)
  <2>1. ASSUME NEW i \in rest
        PROVE  Cardinality(before(i)) \in Nat /\ Cardinality(before(i)) < Cardinality(rest)
    BY <1>0, FewerLines
  <2> QED BY <2>1
<1>3. Cardinality(rest) \in Nat /\ Limit \in Nat
  BY FiniteLines
<1>4. CASE Cardinality(rest) <= Limit
  <2>1. FirstOf(rest) = rest
    <3>1. \A i \in rest : Cardinality(before(i)) < Limit
      BY <1>2, <1>3, <1>4
    <3> QED BY <1>1, <1>f, <3>1
  <2> QED BY <1>4, <2>1 DEF NextAfter
<1>5. CASE ~(Cardinality(rest) <= Limit)
  <2>1. rest # {}
    BY <1>3, <1>5, FS_EmptySet
  <2>2. PICK i \in rest : \A j \in rest \ {i} : Earlier(i, j)
    BY <2>1, FirstLine
  <2>3. before(i) = {}
    BY <2>2, EarlierTotal DEF before
  <2>4. i \in FirstOf(rest)
    <3>1. Cardinality(before(i)) = 0 /\ 0 < Limit
      BY <2>3, FS_EmptySet
    <3> QED BY <1>f, <2>2, <3>1
  <2>5. \E k \in FirstOf(rest) : \A j \in FirstOf(rest) \ {k} : Earlier(j, k)
    BY <1>1, <2>4, LastLine
  <2>6. NextAfter(rest) \in FirstOf(rest)
    BY <1>5, <2>5 DEF NextAfter
  <2>7. ASSUME NEW j \in rest \ FirstOf(rest) PROVE Earlier(NextAfter(rest), j)
    <3> DEFINE k == NextAfter(rest)
    <3>1. k \in rest /\ k # j
      BY <1>1, <2>6
    <3>2. CASE Earlier(j, k)
      <4>1. before(j) \subseteq before(k)
        BY <3>1, <3>2, EarlierTotal DEF before
      <4>2. before(k) \subseteq AllLines
        BY DEF before
      <4>3. Cardinality(before(j)) <= Cardinality(before(k))
        BY <4>1, <4>2, FewerLines
      <4> QED BY <1>f, <1>2, <1>3, <2>6, <2>7, <3>1, <4>3
    <3> QED BY <3>1, <3>2, EarlierTotal
  <2> QED BY <2>6, <2>7, LineTypes, <1>1
<1> QED BY <1>4, <1>5

(* The checkpoint lies Overlap before a line of the window. *)
LEMMA CheckpointDate ==
  ASSUME TypeOK, NEW lines, lines \subseteq AllLines, NEW since
  PROVE  /\ lines = {} => Checkpoint(lines, since) = since
         /\ lines # {} => \E m \in lines : Checkpoint(lines, since) = bank[m] - Overlap
<1> SUFFICES ASSUME lines # {} PROVE \E m \in lines : Checkpoint(lines, since) = bank[m] - Overlap
  BY DEF Checkpoint
<1>1. PICK i \in lines : \A j \in lines \ {i} : Earlier(j, i)
  BY LastLine
<1>2. \A j \in lines : bank[j] <= bank[i]
  BY <1>1, EarlierDate, LineTypes
<1>3. LastDate(lines) \in {bank[j] : j \in lines}
  BY <1>2 DEF LastDate
<1> QED BY <1>3 DEF Checkpoint
-----------------------------------------------------------------------------
(* ---------------------------------------------------------------- types *)
ATick == [pc : {"idle", "list", "fetched", "page"}, cursor : Cursors,
          todo : SUBSET AllLines, next : {0} \cup AllLines,
          checkpoint : Int \cup {NONE}, pages : 0..(MaxPages - 1),
          read : Nat, got : SUBSET AllLines, end : Int]

ACache == [since : Int \cup {NONE}, lines : SUBSET AllLines, full : BOOLEAN]

LEMMA TickType == ASSUME TypeOK PROVE tick \in [Callers -> ATick] /\ cache \in ACache
BY DEF TypeOK, ATick, ACache

LEMMA NoTickType == NoTick \in ATick /\ NoCache \in ACache
BY DEF NoTick, NoCache, ATick, ACache, Cursors

(* A tick that has just read a cursor has no page yet. *)
LEMMA FreshTickType ==
  ASSUME NEW pc \in {"idle", "list", "fetched", "page"}, NEW c \in Cursors, NEW n \in 0..(MaxPages - 1)
  PROVE  /\ [NoTick EXCEPT !.pc = pc, !.cursor = c, !.pages = n] \in ATick
         /\ [NoTick EXCEPT !.pc = pc, !.cursor = c, !.pages = n].pc = pc
         /\ [NoTick EXCEPT !.pc = pc, !.cursor = c] \in ATick
         /\ [NoTick EXCEPT !.pc = pc, !.cursor = c].pc = pc
BY NoTickType DEF ATick, NoTick

(* The sets a tick and the window are made of. *)
LEMMA WindowType ==
  ASSUME NEW since, NEW end, NEW n
  PROVE  /\ Window(since, end) \subseteq AllLines
         /\ OnPage(n, Window(since, end)) \subseteq Window(since, end)
BY DEF Window, OnPage

LEMMA PageTypes ==
  ASSUME TypeOK, NEW a, NEW since \in Int \cup {NONE}
  PROVE  LET rest == After(cache.lines, a)
         IN  /\ rest \subseteq AllLines /\ FirstOf(rest) \subseteq AllLines
             /\ NextAfter(rest) \in {0} \cup AllLines
             /\ Checkpoint(cache.lines, since) \in Int \cup {NONE}
<1> DEFINE rest == After(cache.lines, a)
<1>1. cache.lines \subseteq AllLines
  BY TickType DEF ACache
<1>2. rest \subseteq AllLines
  BY <1>1 DEF After
<1> HIDE DEF rest
<1>3. FirstOf(rest) \subseteq AllLines
  BY <1>2 DEF FirstOf
<1>4. NextAfter(rest) \in {0} \cup AllLines
  BY <1>2, <1>3, PageEnds
<1>5. Checkpoint(cache.lines, since) \in Int \cup {NONE}
  <2>1. \A m \in cache.lines : bank[m] - Overlap \in Int
    BY <1>1, LineTypes
  <2> QED BY <1>1, <2>1, CheckpointDate
<1> QED BY <1>2, <1>3, <1>4, <1>5 DEF rest

LEMMA TickStepTypes ==
  ASSUME TypeOK, NEW w \in Callers, NEW r \in ATick, tick' = [tick EXCEPT ![w] = r],
         tick[w].pc # "idle" \/ ~running,
         running' \in BOOLEAN, running' <=> r.pc # "idle",
         UNCHANGED firefly, inbox' \subseteq AllLines, failing' \in BOOLEAN,
         cursor' \in Cursors, cursor'.after \in {0} \cup AllLines, cache' \in ACache
  PROVE  TypeOK'
<1>1. tick' \in [Callers -> ATick] /\ \A v \in Callers : tick'[v] = IF v = w THEN r ELSE tick[v]
  BY TickType
<1>2. \A v \in Callers \ {w} : tick[v].pc = "idle"
  BY DEF TypeOK
<1>3. \A u, v \in Callers : tick'[u].pc # "idle" /\ tick'[v].pc # "idle" => u = v
  BY <1>1, <1>2
<1>4. running' <=> \E v \in Callers : tick'[v].pc # "idle"
  BY <1>1, <1>2
<1>5. UNCHANGED AllLines /\ UNCHANGED <<today, bank, removed>>
  BY DEF AllLines, firefly
<1> QED BY <1>1, <1>3, <1>4, <1>5 DEF TypeOK, ATick, ACache, Cursors

LEMMA TypeInit == Init => TypeOK
<1> SUFFICES ASSUME Init PROVE TypeOK
  OBVIOUS
<1>1. tick \in [Callers -> ATick] /\ cache \in ACache
  BY NoTickType DEF Init
<1>2. \A w \in Callers : tick[w].pc = "idle"
  BY DEF Init, NoTick
<1>3. bank \in Seq(Int) /\ today \in Nat /\ removed = {} /\ inbox = {}
  BY DEF Init
<1>4. cursor \in Cursors /\ cursor.after = 0 /\ failing = FALSE /\ running = FALSE
  BY DEF Init, Cursors
<1> QED BY <1>1, <1>2, <1>3, <1>4 DEF TypeOK, ATick, ACache

(* A line arrives: the others keep their dates. *)
LEMMA Arrived ==
  ASSUME TypeOK, NEW d \in Int, LineArrives(d)
  PROVE  /\ AllLines' = AllLines \cup {Len(bank) + 1} /\ Len(bank) + 1 \notin AllLines
         /\ bank' \in Seq(Int)
         /\ \A i \in AllLines : bank'[i] = bank[i]
         /\ bank'[Len(bank) + 1] = d
<1>1. bank \in Seq(Int) /\ bank' = Append(bank, d) /\ Len(bank) \in Nat
  BY DEF TypeOK, LineArrives
<1>2. bank' \in Seq(Int) /\ Len(bank') = Len(bank) + 1
  BY <1>1
<1>3. bank'[Len(bank) + 1] = d /\ \A i \in 1..Len(bank) : bank'[i] = bank[i]
  BY <1>1
<1> QED BY <1>1, <1>2, <1>3 DEF AllLines

LEMMA TypeStep == TypeOK /\ [Next]_vars => TypeOK'
<1> SUFFICES ASSUME TypeOK, [Next]_vars PROVE TypeOK'
  OBVIOUS
<1>0. /\ tick \in [Callers -> ATick] /\ cache \in ACache /\ inbox \subseteq AllLines
      /\ cursor \in Cursors /\ cursor.after \in {0} \cup AllLines
      /\ failing \in BOOLEAN /\ running \in BOOLEAN /\ today \in Nat
  BY TickType DEF TypeOK
<1>r. \A w \in Callers : tick[w].pc # "idle" => running
  BY DEF TypeOK
<1>f. TRUE \in BOOLEAN /\ FALSE \in BOOLEAN /\ NoTick.pc = "idle" /\ 0 \in 0..(MaxPages - 1)
  BY DEF NoTick
<1>1. ASSUME NEW w \in Callers, StartTick(w) PROVE TypeOK'
  <2> DEFINE r == [NoTick EXCEPT !.pc = "list", !.cursor = cursor]
  <2>1. r \in ATick /\ r.pc = "list"
    BY <1>0, <1>f, FreshTickType
  <2>2. tick' = [tick EXCEPT ![w] = r]
    BY <1>1 DEF StartTick
  <2> HIDE DEF r
  <2> QED BY <1>0, <1>1, <2>1, <2>2, TickStepTypes DEF StartTick
<1>2. ASSUME NEW w \in Callers, FetchPage(w) PROVE TypeOK'
  <2> DEFINE c    == tick[w].cursor
             n    == tick[w].read + 1
             end  == IF n = 1 THEN today + 1 ELSE tick[w].end
             rows == Window(c.since, end)
             got  == tick[w].got \cup OnPage(n, rows)
  <2>1. tick[w] \in ATick /\ c \in Cursors /\ got \subseteq AllLines /\ end \in Int /\ n \in Nat
    BY <1>0, WindowType DEF ATick
  <2>2. tick[w].pc = "list" /\ running /\ tick[w].pages \in 0..(MaxPages - 1)
    BY <1>0, <1>2, <1>r DEF FetchPage, ATick
  <2>3. CASE IsLastPage(n, rows)
    <3> DEFINE r == [NoTick EXCEPT !.pc = "fetched", !.cursor = c, !.pages = tick[w].pages]
    <3>1. r \in ATick /\ r.pc = "fetched"
      BY <2>1, <2>2, NoTickType DEF ATick, NoTick
    <3>2. tick' = [tick EXCEPT ![w] = r] /\ cache' = [since |-> c.since, lines |-> got, full |-> TRUE]
      BY <1>2, <2>3 DEF FetchPage
    <3>3. cache' \in ACache
      BY <2>1, <3>2 DEF ACache, Cursors
    <3> HIDE DEF r
    <3> QED BY <1>0, <1>2, <2>2, <3>1, <3>2, <3>3, TickStepTypes DEF FetchPage
  <2>4. CASE ~IsLastPage(n, rows)
    <3> DEFINE r == [tick[w] EXCEPT !.read = n, !.got = got, !.end = end]
    <3>1. tick' = [tick EXCEPT ![w].read = n, ![w].got = got, ![w].end = end] /\ UNCHANGED cache
      BY <1>2, <2>4 DEF FetchPage
    <3> HIDE DEF n, got, end
    <3>2. r \in ATick /\ r.pc = "list"
      BY <2>1, <2>2 DEF ATick
    <3>3. tick' = [tick EXCEPT ![w] = r]
      BY <1>0, <2>1, <3>1 DEF ATick
    <3> HIDE DEF r
    <3> QED BY <1>0, <1>2, <2>2, <3>1, <3>2, <3>3, TickStepTypes DEF FetchPage
  <2> QED BY <2>3, <2>4
<1>3. ASSUME NEW w \in Callers, ListSince(w) PROVE TypeOK'
  <2> DEFINE c    == tick[w].cursor
             rest == After(cache.lines, c.after)
             r == [NoTick EXCEPT !.pc = "page", !.cursor = c, !.todo = FirstOf(rest),
                     !.next = NextAfter(rest), !.checkpoint = Checkpoint(cache.lines, c.since),
                     !.pages = tick[w].pages]
  <2>1. c \in Cursors /\ tick[w].pages \in 0..(MaxPages - 1)
    BY <1>0 DEF ATick
  <2>2. tick[w].pc # "idle" /\ running /\ tick' = [tick EXCEPT ![w] = r]
    BY <1>3, <1>r DEF ListSince
  <2>3. /\ FirstOf(rest) \subseteq AllLines /\ NextAfter(rest) \in {0} \cup AllLines
        /\ Checkpoint(cache.lines, c.since) \in Int \cup {NONE}
    BY <2>1, PageTypes DEF Cursors
  <2> HIDE DEF c, rest
  <2>4. r \in ATick /\ r.pc = "page"
    BY <2>1, <2>3, NoTickType DEF ATick, NoTick
  <2> HIDE DEF r
  <2> QED BY <1>0, <1>3, <2>2, <2>4, TickStepTypes DEF ListSince
<1>4. ASSUME NEW w \in Callers, NEW i \in AllLines, IngestLine(w, i) PROVE TypeOK'
  <2> DEFINE r == [tick[w] EXCEPT !.todo = @ \ {i}]
  <2>1. r \in ATick /\ r.pc = "page" /\ tick' = [tick EXCEPT ![w] = r] /\ tick[w].pc = "page"
    BY <1>0, <1>4 DEF IngestLine, ATick
  <2>2. inbox' \subseteq AllLines /\ running
    BY <1>0, <1>4, <2>1, <1>r DEF IngestLine
  <2> HIDE DEF r
  <2> QED BY <1>0, <1>4, <2>1, <2>2, TickStepTypes DEF IngestLine
<1>5. ASSUME NEW w \in Callers, SaveCursor(w) PROVE TypeOK'
  <2> DEFINE c == [since |-> tick[w].cursor.since, after |-> tick[w].next]
             n == tick[w].pages + 1
  <2>1. /\ tick[w].pc = "page" /\ running /\ cursor' = c
        /\ UNCHANGED <<inbox, cache>> /\ UNCHANGED firefly
    BY <1>5, <1>r DEF SaveCursor
  <2>2. c \in Cursors /\ c.after \in {0} \cup AllLines
    BY <1>0, LineTypes DEF ATick, Cursors
  <2>3. CASE n >= MaxPages
    <3>1. failing' = TRUE /\ running' = FALSE /\ tick' = [tick EXCEPT ![w] = NoTick]
      BY <1>5, <2>3 DEF SaveCursor, TickEnds
    <3> QED BY <1>0, <1>f, <2>1, <2>2, <3>1, NoTickType, TickStepTypes
  <2>4. CASE ~(n >= MaxPages)
    <3> DEFINE r == [NoTick EXCEPT !.pc = "list", !.cursor = c, !.pages = n]
    <3>1. tick' = [tick EXCEPT ![w] = r] /\ UNCHANGED <<failing, running>>
      BY <1>5, <2>4 DEF SaveCursor
    <3>2. n \in 0..(MaxPages - 1)
      BY <1>0, <2>4 DEF ATick
    <3>3. r \in ATick /\ r.pc = "list"
      BY <2>2, <3>2, NoTickType DEF ATick, NoTick
    <3> HIDE DEF r
    <3> QED BY <1>0, <2>1, <2>2, <3>1, <3>3, TickStepTypes
  <2> QED BY <2>3, <2>4
<1>6. ASSUME NEW w \in Callers, SaveSuccess(w) PROVE TypeOK'
  <2>1. /\ tick[w].pc = "page" /\ cursor' = [since |-> tick[w].checkpoint, after |-> 0]
        /\ failing' = FALSE /\ running' = FALSE /\ tick' = [tick EXCEPT ![w] = NoTick]
        /\ UNCHANGED <<inbox, cache>> /\ UNCHANGED firefly
    BY <1>6 DEF SaveSuccess, TickEnds
  <2>2. cursor' \in Cursors /\ cursor'.after = 0
    BY <1>0, <2>1 DEF ATick, Cursors
  <2> QED BY <1>0, <1>f, <2>1, <2>2, NoTickType, TickStepTypes
<1>7. ASSUME NEW w \in Callers, FetchFails(w) \/ IngestFails(w) PROVE TypeOK'
  <2>1. /\ tick[w].pc # "idle" /\ running' = FALSE /\ failing' = TRUE
        /\ tick' = [tick EXCEPT ![w] = NoTick]
        /\ UNCHANGED <<inbox, cursor, cache>> /\ UNCHANGED firefly
    BY <1>7 DEF FetchFails, IngestFails, TickEnds
  <2> QED BY <1>0, <1>f, <2>1, NoTickType, TickStepTypes
<1>8. CASE Restart
  <2>1. /\ tick' \in [Callers -> ATick] /\ cache' \in ACache /\ running' = FALSE
        /\ \A v \in Callers : tick'[v].pc = "idle"
        /\ UNCHANGED <<inbox, cursor, failing, today, bank, removed>>
    BY <1>8, <1>f, NoTickType DEF Restart, firefly
  <2> QED BY <2>1 DEF TypeOK, ATick, ACache, AllLines, Cursors
<1>9. ASSUME NEW d \in (today - Late)..(today + Ahead), LineArrives(d) PROVE TypeOK'
  <2>1. d \in Int
    OBVIOUS
  <2>2. bank' \in Seq(Int) /\ AllLines \subseteq AllLines'
    BY <1>9, <2>1, Arrived
  <2>3. UNCHANGED <<today, removed, inbox, cursor, failing, cache, running, tick>>
    BY <1>9 DEF LineArrives, feed
  <2>4. tick' \in [Callers -> ATick'] /\ cache' \in ACache'
    <3>1. \A x \in ATick : x \in ATick'
      BY <2>2 DEF ATick, Cursors
    <3>2. \A x \in ACache : x \in ACache'
      BY <2>2 DEF ACache
    <3> QED BY <1>0, <2>3, <3>1, <3>2
  <2>5. removed' \subseteq AllLines' /\ inbox' \subseteq AllLines' /\ cursor'.after \in {0} \cup AllLines'
    BY <2>2, <2>3 DEF TypeOK
  <2>6. /\ \A u, v \in Callers : tick'[u].pc # "idle" /\ tick'[v].pc # "idle" => u = v
        /\ running' <=> \E v \in Callers : tick'[v].pc # "idle"
        /\ cursor' \in Cursors /\ today' \in Nat /\ failing' \in BOOLEAN /\ running' \in BOOLEAN
    BY <2>3 DEF TypeOK
  <2> QED BY <2>2, <2>4, <2>5, <2>6 DEF TypeOK, ATick, ACache, Cursors
<1>10. ASSUME NEW i \in AllLines, LineRemoved(i) PROVE TypeOK'
  <2>1. removed' \subseteq AllLines /\ UNCHANGED <<today, bank, inbox, cursor, failing, cache, running, tick>>
    BY <1>10 DEF LineRemoved, feed, TypeOK
  <2> QED BY <2>1 DEF TypeOK, AllLines, Cursors
<1>11. CASE NextDay
  <2>1. today' \in Nat /\ UNCHANGED <<removed, bank, inbox, cursor, failing, cache, running, tick>>
    BY <1>0, <1>11 DEF NextDay, feed
  <2> QED BY <2>1 DEF TypeOK, AllLines, Cursors
<1>12. CASE UNCHANGED vars
  BY <1>12 DEF TypeOK, AllLines, Cursors, vars
<1> QED
  BY <1>1, <1>2, <1>3, <1>4, <1>5, <1>6, <1>7, <1>8, <1>9, <1>10, <1>11, <1>12 DEF Next, Sweep

(* The state has its types, and the in-process flag does what runImportTick    *)
(* has it for: one sweep at a time, and the flag never outlives its sweep -    *)
(* for any number of callers and whatever fails.                               *)
THEOREM TypeCorrect == Spec => []TypeOK
BY TypeInit, TypeStep, PTL DEF Spec
-----------------------------------------------------------------------------
(* ------------------------------------------------- the invariant, step by step *)
(* While one tick works, every other caller's is idle. *)
OthersIdle(w) == \A v \in Callers \ {w} : tick'[v].pc = "idle" /\ tick'[v].read = 0

LEMMA AloneInSweep ==
  ASSUME TypeOK, CursorKept, NEW w \in Callers, tick[w].pc # "idle" \/ ~running,
         NEW r, tick' = [tick EXCEPT ![w] = r]
  PROVE  OthersIdle(w) /\ tick'[w] = r
<1>1. \A v \in Callers \ {w} : tick[v].pc = "idle"
  BY DEF TypeOK
<1>2. tick'[w] = r /\ \A v \in Callers \ {w} : tick'[v] = tick[v]
  BY TickType
<1> QED BY <1>1, <1>2 DEF OthersIdle, CursorKept

LEMMA SweepInit == Init => SweepInv
<1> SUFFICES ASSUME Init PROVE SweepInv
  OBVIOUS
<1>1. AllLines = {}
  BY DEF Init, AllLines
<1>2. cursor.since = NONE /\ cursor.after = 0 /\ cache.full = FALSE
  BY DEF Init, NoCache
<1>3. \A w \in Callers : tick[w].pc = "idle" /\ tick[w].read = 0
  BY DEF Init, NoTick
<1>4. Dated /\ CursorKept /\ WindowInv
  BY <1>1, <1>2, <1>3 DEF Dated, CursorKept, WindowInv
<1>5. FetchInv /\ PageInv /\ NoLineLost
  BY <1>1, <1>2, <1>3 DEF FetchInv, PageInv, NoLineLost, Missing
<1> QED BY <1>4, <1>5, TypeInit DEF SweepInv

(* A step of a tick that leaves window, inbox and cursor alone. *)
LEMMA TickOnly ==
  ASSUME SweepInv, TypeOK', UNCHANGED <<today, bank, removed, inbox, cursor, cache>>
  PROVE  Dated' /\ WindowInv' /\ NoLineLost'
<1>1. AllLines' = AllLines
  BY DEF AllLines
<1>2. Dated'
  BY <1>1 DEF SweepInv, Dated
<1>3. WindowInv'
  BY <1>1 DEF SweepInv, WindowInv, InReach, Overtaken
<1>4. NoLineLost'
  BY <1>1 DEF SweepInv, NoLineLost, Missing, Earlier
<1> QED BY <1>2, <1>3, <1>4

LEMMA StartTickStep ==
  ASSUME SweepInv, TypeOK', NEW w \in Callers, StartTick(w)
  PROVE  SweepInv'
<1>1. /\ tick' = [tick EXCEPT ![w] = [NoTick EXCEPT !.pc = "list", !.cursor = cursor]]
      /\ tick[w].pc = "idle" /\ ~running
      /\ UNCHANGED <<today, bank, removed, inbox, cursor, cache>>
  BY DEF StartTick, firefly
<1>2. OthersIdle(w) /\ tick'[w] = [NoTick EXCEPT !.pc = "list", !.cursor = cursor]
  BY <1>1, AloneInSweep DEF SweepInv
<1>3. tick'[w].pc = "list" /\ tick'[w].cursor = cursor /\ tick'[w].read = 0 /\ tick'[w].got = {}
  BY <1>2 DEF NoTick
<1>4. Dated' /\ WindowInv' /\ NoLineLost'
  BY <1>1, TickOnly
<1>5. CursorKept'
  BY <1>1, <1>2, <1>3 DEF OthersIdle, SweepInv, CursorKept
<1>6. FetchInv'
  BY <1>2, <1>3 DEF OthersIdle, FetchInv, Overtaken
<1>7. PageInv'
  BY <1>2, <1>3 DEF OthersIdle, PageInv
<1> QED BY <1>4, <1>5, <1>6, <1>7 DEF SweepInv

(* A tick that ends, its cursor unsaved. *)
LEMMA TickFailsStep ==
  ASSUME SweepInv, TypeOK', NEW w \in Callers, FetchFails(w) \/ IngestFails(w)
  PROVE  SweepInv'
<1>1. /\ tick' = [tick EXCEPT ![w] = NoTick] /\ tick[w].pc # "idle"
      /\ UNCHANGED <<today, bank, removed, inbox, cursor, cache>>
  BY DEF FetchFails, IngestFails, TickEnds, firefly
<1>2. \A v \in Callers : tick'[v].pc = "idle" /\ tick'[v].read = 0
  <2>1. OthersIdle(w) /\ tick'[w] = NoTick
    BY <1>1, AloneInSweep DEF SweepInv
  <2> QED BY <2>1 DEF OthersIdle, NoTick
<1>3. Dated' /\ WindowInv' /\ NoLineLost'
  BY <1>1, TickOnly
<1>4. CursorKept'
  BY <1>1, <1>2 DEF SweepInv, CursorKept
<1>5. FetchInv' /\ PageInv'
  BY <1>2 DEF FetchInv, PageInv
<1> QED BY <1>3, <1>4, <1>5 DEF SweepInv

(* The process stops, but not inside a sweep: what it forgets, it lists again. *)
LEMMA RestartStep ==
  ASSUME "restartMidSweep" \notin Faults, SweepInv, TypeOK', Restart
  PROVE  SweepInv'
<1>1. /\ cursor.after = 0 /\ cache'.full = FALSE
      /\ UNCHANGED <<today, bank, removed, inbox, cursor>>
      /\ \A v \in Callers : tick'[v].pc = "idle" /\ tick'[v].read = 0
  BY DEF Restart, NoCache, NoTick, firefly
<1>2. AllLines' = AllLines
  BY <1>1 DEF AllLines
<1>3. Dated' /\ WindowInv'
  BY <1>1, <1>2 DEF SweepInv, Dated, WindowInv
<1>4. NoLineLost'
  BY <1>1, <1>2 DEF SweepInv, NoLineLost, Missing
<1>5. CursorKept' /\ FetchInv' /\ PageInv'
  BY <1>1 DEF CursorKept, FetchInv, PageInv
<1> QED BY <1>3, <1>4, <1>5 DEF SweepInv

(* A page of the window: from the position on, or all of it. *)
LEMMA ListSinceStep ==
  ASSUME SweepInv, TypeOK', NEW w \in Callers, ListSince(w)
  PROVE  SweepInv'
<1> DEFINE rest == After(cache.lines, cursor.after)
<1>0. TypeOK /\ CursorKept
  BY DEF SweepInv
<1>1. tick[w].cursor = cursor /\ tick[w].pc # "idle" /\ cache.full /\ cache.since = cursor.since
  BY <1>0 DEF ListSince, CursorKept, MustFetch
<1>2. /\ tick' = [tick EXCEPT ![w] = [NoTick EXCEPT !.pc = "page", !.cursor = cursor,
                     !.todo = FirstOf(rest), !.next = NextAfter(rest),
                     !.checkpoint = Checkpoint(cache.lines, cursor.since), !.pages = tick[w].pages]]
      /\ UNCHANGED <<today, bank, removed, inbox, cursor, cache>>
  BY <1>1 DEF ListSince, firefly
<1> HIDE DEF rest
<1>3. /\ OthersIdle(w) /\ tick'[w].pc = "page" /\ tick'[w].cursor = cursor
      /\ tick'[w].todo = FirstOf(rest) /\ tick'[w].next = NextAfter(rest)
      /\ tick'[w].checkpoint = Checkpoint(cache.lines, cursor.since) /\ tick'[w].read = 0
  <2> DEFINE r == [NoTick EXCEPT !.pc = "page", !.cursor = cursor,
                     !.todo = FirstOf(rest), !.next = NextAfter(rest),
                     !.checkpoint = Checkpoint(cache.lines, cursor.since), !.pages = tick[w].pages]
  <2>1. /\ r.pc = "page" /\ r.cursor = cursor /\ r.todo = FirstOf(rest) /\ r.next = NextAfter(rest)
        /\ r.checkpoint = Checkpoint(cache.lines, cursor.since) /\ r.read = 0
    BY DEF NoTick
  <2>2. tick' = [tick EXCEPT ![w] = r]
    BY <1>2
  <2> HIDE DEF r
  <2>3. OthersIdle(w) /\ tick'[w] = r
    BY <1>0, <1>1, <2>2, AloneInSweep
  <2> QED BY <2>1, <2>3
<1>4. Dated' /\ WindowInv' /\ NoLineLost'
  BY <1>2, TickOnly
<1>5. CursorKept'
  BY <1>0, <1>1, <1>2, <1>3 DEF OthersIdle, CursorKept
<1>6. FetchInv'
  BY <1>3 DEF OthersIdle, FetchInv
<1>7. cache.lines \subseteq AllLines
  BY <1>0, TickType DEF ACache
<1>8. rest \subseteq AllLines
  BY <1>7 DEF rest, After
<1>9. PageInv'
  <2>1. ASSUME NEW i \in cache.lines \ inbox
        PROVE  i \in FirstOf(rest) \/ (NextAfter(rest) # 0 /\ Earlier(NextAfter(rest), i))
    <3>1. cursor.after # 0 => Earlier(cursor.after, i)
      BY <1>1, <2>1 DEF SweepInv, NoLineLost
    <3>2. i \in rest
      BY <2>1, <3>1 DEF rest, After
    <3> QED BY <1>0, <1>8, <3>2, PageEnds
  <2>2. \A i \in cache.lines \ inbox :
          i \in tick'[w].todo \/ (tick'[w].next # 0 /\ Earlier(tick'[w].next, i))
    BY <1>3, <2>1
  <2>3. IF cache.lines = {} THEN tick'[w].checkpoint = cursor.since
        ELSE \E m \in cache.lines : tick'[w].checkpoint = bank[m] - Overlap
    BY <1>0, <1>3, <1>7, CheckpointDate
  <2> QED BY <1>2, <1>3, <2>2, <2>3 DEF OthersIdle, PageInv, Earlier
<1> QED BY <1>4, <1>5, <1>6, <1>9 DEF SweepInv

LEMMA IngestLineStep ==
  ASSUME SweepInv, TypeOK', NEW w \in Callers, NEW i \in AllLines, IngestLine(w, i)
  PROVE  SweepInv'
<1>0. TypeOK /\ CursorKept /\ PageInv
  BY DEF SweepInv
<1>1. /\ tick[w].pc = "page" /\ inbox' = inbox \cup {i}
      /\ UNCHANGED <<today, bank, removed, cursor, cache>> /\ AllLines' = AllLines
      /\ tick' = [tick EXCEPT ![w] = [tick[w] EXCEPT !.todo = @ \ {i}]]
  BY <1>0, TickType DEF IngestLine, firefly, AllLines, ATick
<1>2. OthersIdle(w) /\ tick'[w] = [tick[w] EXCEPT !.todo = @ \ {i}]
  BY <1>0, <1>1, AloneInSweep
<1>3. /\ tick'[w].pc = "page" /\ tick'[w].cursor = tick[w].cursor
      /\ tick'[w].todo = tick[w].todo \ {i} /\ tick'[w].next = tick[w].next
      /\ tick'[w].checkpoint = tick[w].checkpoint
  BY <1>0, <1>1, <1>2, TickType DEF ATick
<1>4. Dated' /\ WindowInv'
  BY <1>1 DEF SweepInv, Dated, WindowInv, InReach, Overtaken
<1>5. NoLineLost'
  BY <1>1 DEF SweepInv, NoLineLost, Missing, Earlier
<1>6. CursorKept'
  BY <1>0, <1>1, <1>2, <1>3 DEF OthersIdle, CursorKept
<1>7. FetchInv'
  BY <1>2, <1>3 DEF OthersIdle, FetchInv
<1>8. PageInv'
  BY <1>0, <1>1, <1>2, <1>3 DEF OthersIdle, PageInv, Earlier
<1> QED BY <1>4, <1>5, <1>6, <1>7, <1>8 DEF SweepInv

(* A page is saved: the position moves to its end, and to nothing else. *)
LEMMA SaveCursorStep ==
  ASSUME SweepInv, TypeOK', NEW w \in Callers, SaveCursor(w)
  PROVE  SweepInv'
<1> DEFINE c == [since |-> tick[w].cursor.since, after |-> tick[w].next]
<1>0. TypeOK /\ CursorKept /\ PageInv
  BY DEF SweepInv
<1>1. /\ tick[w].pc = "page" /\ tick[w].todo = {} /\ tick[w].next # 0 /\ cursor' = c
      /\ UNCHANGED <<today, bank, removed, inbox, cache>> /\ AllLines' = AllLines
  BY DEF SaveCursor, firefly, AllLines
<1>2. /\ cursor'.since = cursor.since /\ cursor'.after = tick[w].next
      /\ cache.full /\ cache.since = cursor.since
  BY <1>0, <1>1 DEF CursorKept
<1>3. /\ OthersIdle(w) /\ tick'[w].pc \in {"list", "idle"} /\ tick'[w].read = 0 /\ tick'[w].got = {}
      /\ tick'[w].pc = "list" => tick'[w].cursor = cursor'
  <2>1. CASE tick' = [tick EXCEPT ![w] = NoTick]
    <3>1. OthersIdle(w) /\ tick'[w] = NoTick
      BY <1>0, <1>1, <2>1, AloneInSweep
    <3> QED BY <3>1 DEF NoTick
  <2>2. CASE tick' = [tick EXCEPT ![w] = [NoTick EXCEPT !.pc = "list", !.cursor = c,
                                                        !.pages = tick[w].pages + 1]]
    <3>1. OthersIdle(w) /\ tick'[w] = [NoTick EXCEPT !.pc = "list", !.cursor = c,
                                                     !.pages = tick[w].pages + 1]
      BY <1>0, <1>1, <2>2, AloneInSweep
    <3> HIDE DEF c
    <3> QED BY <1>1, <3>1 DEF NoTick
  <2> QED BY <2>1, <2>2 DEF SaveCursor, TickEnds
<1>4. Dated' /\ WindowInv'
  BY <1>1, <1>2 DEF SweepInv, Dated, WindowInv, InReach, Overtaken
<1>5. \A i \in cache.lines \ inbox : Earlier(tick[w].next, i)
  BY <1>0, <1>1 DEF PageInv
<1>6. NoLineLost'
  BY <1>1, <1>2, <1>5 DEF SweepInv, NoLineLost, Missing, Earlier
<1>7. CursorKept'
  BY <1>1, <1>2, <1>3 DEF OthersIdle, CursorKept
<1>8. FetchInv'
  BY <1>3 DEF OthersIdle, FetchInv, Overtaken
<1>9. PageInv'
  BY <1>3 DEF OthersIdle, PageInv
<1> QED BY <1>4, <1>6, <1>7, <1>8, <1>9 DEF SweepInv

(* A sweep ends: every line of the window is in, and what the window lacks is  *)
(* dated on or after the checkpoint.                                           *)
LEMMA SaveSuccessStep ==
  ASSUME SweepInv, TypeOK', NEW w \in Callers, SaveSuccess(w)
  PROVE  SweepInv'
<1>0. TypeOK /\ CursorKept /\ PageInv /\ Dated /\ WindowInv /\ NoLineLost
  BY DEF SweepInv
<1>1. /\ tick[w].pc = "page" /\ tick[w].todo = {} /\ tick[w].next = 0
      /\ cursor' = [since |-> tick[w].checkpoint, after |-> 0]
      /\ tick' = [tick EXCEPT ![w] = NoTick]
      /\ UNCHANGED <<today, bank, removed, inbox, cache>> /\ AllLines' = AllLines
  BY DEF SaveSuccess, TickEnds, firefly, AllLines
<1>2. \A v \in Callers : tick'[v].pc = "idle" /\ tick'[v].read = 0
  <2>1. OthersIdle(w) /\ tick'[w] = NoTick
    BY <1>0, <1>1, AloneInSweep
  <2> QED BY <2>1 DEF OthersIdle, NoTick
<1>3. cursor'.since = tick[w].checkpoint /\ cursor'.after = 0
  BY <1>1
<1>m. Missing' = Missing /\ \A i \in Missing : i \in AllLines
  BY <1>1 DEF Missing
<1>4. cache.full /\ cache.since = cursor.since /\ cache.lines \subseteq inbox
  BY <1>0, <1>1 DEF CursorKept, PageInv
<1>5. cache.lines \subseteq AllLines
  BY <1>0, TickType DEF ACache
<1>6. ASSUME cache.lines = {} PROVE Dated' /\ NoLineLost'
  <2>1. cursor'.since = cursor.since
    BY <1>0, <1>1, <1>3, <1>6 DEF PageInv
  <2>2. Dated'
    BY <1>0, <1>1, <2>1 DEF Dated
  <2>3. NoLineLost'
    BY <1>0, <1>1, <1>3, <1>m, <2>1 DEF NoLineLost
  <2> QED BY <2>2, <2>3
<1>7. ASSUME cache.lines # {} PROVE Dated' /\ NoLineLost'
  <2>1. PICK m \in cache.lines : cursor'.since = bank[m] - Overlap
    BY <1>0, <1>1, <1>3, <1>7 DEF PageInv
  <2>2. bank[m] \in Int /\ bank[m] <= today + Ahead /\ today \in Nat
    BY <1>0, <1>5, LineTypes DEF Dated, TypeOK
  <2>3. Dated'
    BY <1>0, <1>1, <2>1, <2>2 DEF Dated
  <2>4. ASSUME NEW i \in Missing PROVE cursor'.since <= bank[i]
    <3>1. i \in AllLines \ removed /\ i \notin cache.lines /\ bank[i] \in Int
      BY <1>0, <1>4, <2>4, LineTypes DEF Missing
    <3>2. InReach(i, cache.since)
      BY <1>0, <1>4, <2>4 DEF NoLineLost, InReach
    <3>3. bank[m] <= bank[i] + Overlap
      BY <1>0, <1>4, <3>1, <3>2 DEF WindowInv, Overtaken
    <3> QED BY <2>1, <2>2, <3>1, <3>3
  <2>5. NoLineLost'
    BY <1>1, <1>3, <1>m, <2>4 DEF NoLineLost
  <2> QED BY <2>3, <2>5
<1>8. WindowInv'
  BY <1>0, <1>1 DEF WindowInv, InReach, Overtaken
<1>9. CursorKept' /\ FetchInv' /\ PageInv'
  BY <1>2, <1>3 DEF CursorKept, FetchInv, PageInv
<1> QED BY <1>6, <1>7, <1>8, <1>9 DEF SweepInv

(* The lines of a page, by how many lines of the window come after them. *)
LEMMA PageRanks ==
  ASSUME TypeOK, NEW rows, rows \subseteq AllLines, NEW n \in Nat, NEW i \in rows
  PROVE  /\ Cardinality(Later(i, rows)) \in Nat
         /\ i \in OnPage(n + 1, rows) <=>
              n * PageSize <= Cardinality(Later(i, rows)) /\ Cardinality(Later(i, rows)) < (n + 1) * PageSize
         /\ IsLastPage(n + 1, rows) => Cardinality(Later(i, rows)) < (n + 1) * PageSize
<1>1. Later(i, rows) \subseteq rows /\ i \notin Later(i, rows)
  BY EarlierTotal DEF Later
<1>2. Cardinality(Later(i, rows)) \in Nat /\ Cardinality(rows) \in Nat
      /\ Cardinality(Later(i, rows)) < Cardinality(rows)
  BY <1>1, FewerLines
<1>3. n * PageSize \in Nat /\ (n + 1) * PageSize \in Nat /\ n + 1 - 1 = n
  OBVIOUS
<1>4. i \in OnPage(n + 1, rows) <=>
        Cardinality(Later(i, rows)) \in (n * PageSize)..((n + 1) * PageSize - 1)
  BY <1>3 DEF OnPage, Later
<1>5. IsLastPage(n + 1, rows) => Cardinality(rows) <= (n + 1) * PageSize
  BY DEF IsLastPage
<1> QED BY <1>2, <1>3, <1>4, <1>5

(* A line on a page after the one being read. *)
StillAhead(w, i, rows) ==
  /\ i \in rows /\ ~IsLastPage(tick[w].read + 1, rows)
  /\ Cardinality(Later(i, rows)) >= (tick[w].read + 1) * PageSize

(* A page of a fetch is added: what the pages so far lack is dated no more     *)
(* than Overlap before any line they hold, or still to come.                   *)
LEMMA PageAdds ==
  ASSUME SweepInv, NEW w \in Callers, tick[w].pc = "list", NEW end \in Int,
         tick[w].read # 0 => end = tick[w].end,
         NEW rows, rows = Window(cursor.since, end),
         NEW got, got = tick[w].got \cup OnPage(tick[w].read + 1, rows)
  PROVE  /\ cursor.since # NONE => \A m \in got : bank[m] <= end
         /\ \A i \in AllLines \ removed : InReach(i, cursor.since) =>
              i \in got \/ Overtaken(i, got) \/ StillAhead(w, i, rows)
<1>0. TypeOK /\ FetchInv /\ tick[w] \in ATick /\ tick[w].read \in Nat
  BY TickType DEF SweepInv, ATick
<1>1. rows \subseteq AllLines \ removed /\ OnPage(tick[w].read + 1, rows) \subseteq rows
  BY DEF Window, OnPage
<1>2. tick[w].got \subseteq AllLines /\ (tick[w].read = 0 => tick[w].got = {})
  BY <1>0 DEF ATick, FetchInv
<1>3. \A i \in AllLines : bank[i] \in Int /\ bank[i] + Overlap \in Int /\ bank[i] <= bank[i] + Overlap
  BY <1>0, LineTypes
<1>r. ASSUME NEW j \in rows
      PROVE  /\ Cardinality(Later(j, rows)) \in Nat
             /\ j \in OnPage(tick[w].read + 1, rows) <=>
                  /\ tick[w].read * PageSize <= Cardinality(Later(j, rows))
                  /\ Cardinality(Later(j, rows)) < (tick[w].read + 1) * PageSize
             /\ IsLastPage(tick[w].read + 1, rows) =>
                  Cardinality(Later(j, rows)) < (tick[w].read + 1) * PageSize
  BY <1>0, <1>1, PageRanks
<1>n. /\ tick[w].read * PageSize \in Nat /\ (tick[w].read + 1) * PageSize \in Nat
      /\ tick[w].read = 0 => tick[w].read * PageSize = 0
  BY <1>0
<1>4. cursor.since # NONE => \A m \in got : bank[m] <= end
  <2>1. ASSUME cursor.since # NONE, NEW m \in OnPage(tick[w].read + 1, rows) PROVE bank[m] <= end
    BY <1>1, <2>1 DEF Window
  <2>2. ASSUME cursor.since # NONE, NEW m \in tick[w].got PROVE bank[m] <= end
    BY <1>0, <1>2, <2>2 DEF FetchInv
  <2> QED BY <2>1, <2>2
<1>5. ASSUME NEW i \in AllLines \ removed, InReach(i, cursor.since), i \notin got, ~Overtaken(i, got)
      PROVE  /\ i \in rows /\ ~IsLastPage(tick[w].read + 1, rows)
             /\ Cardinality(Later(i, rows)) >= (tick[w].read + 1) * PageSize
  <2>0. PICK m \in got : ~(bank[m] <= bank[i] + Overlap)
    BY <1>5 DEF Overtaken
  <2>1. m \in AllLines
    BY <1>1, <1>2, <2>0
  <2>2. i \in rows
    <3>1. ASSUME i \notin rows PROVE FALSE
      <4>1. cursor.since # NONE /\ ~(bank[i] <= end)
        BY <1>5, <3>1 DEF Window, InReach
      <4>2. bank[m] <= end
        BY <1>4, <4>1
      <4> QED BY <1>3, <1>5, <2>0, <2>1, <4>1, <4>2
    <3> QED BY <3>1
  <2>3. tick[w].read * PageSize <= Cardinality(Later(i, rows))
    <3> SUFFICES ASSUME ~(tick[w].read * PageSize <= Cardinality(Later(i, rows))) PROVE FALSE
      OBVIOUS
    <3>1. /\ Cardinality(Later(i, rows)) \in Nat /\ tick[w].read * PageSize \in Nat
          /\ Cardinality(Later(i, rows)) < tick[w].read * PageSize
      BY <1>n, <1>r, <2>2
    <3>2. tick[w].read # 0 /\ rows = Window(cursor.since, tick[w].end)
      BY <1>n, <3>1
    <3>3. Overtaken(i, tick[w].got)
      <4>1. ~OnLaterPage(w, i)
        BY <3>1, <3>2 DEF OnLaterPage
      <4> QED BY <1>0, <1>5, <4>1 DEF FetchInv
    <3>4. m \in OnPage(tick[w].read + 1, rows)
      BY <2>0, <3>3 DEF Overtaken
    <3>5. tick[w].read * PageSize <= Cardinality(Later(m, rows)) /\ m \in rows
          /\ Cardinality(Later(m, rows)) \in Nat
      BY <1>1, <1>r, <3>4
    <3>6. Earlier(i, m)
      <4>1. Earlier(i, m) \/ i = m \/ Earlier(m, i)
        BY <1>0, <2>1, EarlierTotal
      <4>2. ~Earlier(m, i)
        BY <1>0, <1>3, <2>0, <2>1, EarlierDate
      <4> QED BY <1>3, <2>0, <2>1, <4>1, <4>2
    <3>7. Later(m, rows) \subseteq Later(i, rows)
      BY <1>0, <1>1, <2>1, <3>6, EarlierTotal DEF Later
    <3>8. Later(i, rows) \subseteq AllLines
      BY <1>1 DEF Later
    <3>9. Cardinality(Later(m, rows)) <= Cardinality(Later(i, rows))
      BY <1>0, <3>7, <3>8, FewerLines
    <3> QED BY <3>1, <3>5, <3>9
  <2>4. i \notin OnPage(tick[w].read + 1, rows)
    BY <1>5
  <2>5. /\ Cardinality(Later(i, rows)) \in Nat /\ (tick[w].read + 1) * PageSize \in Nat
        /\ ~(Cardinality(Later(i, rows)) < (tick[w].read + 1) * PageSize)
    BY <1>n, <1>r, <2>2, <2>3, <2>4
  <2>6. ~IsLastPage(tick[w].read + 1, rows)
    BY <1>r, <2>2, <2>5
  <2> QED BY <2>2, <2>5, <2>6
<1> QED BY <1>4, <1>5 DEF StillAhead

LEMMA FetchPageStep ==
  ASSUME SweepInv, TypeOK', NEW w \in Callers, FetchPage(w)
  PROVE  SweepInv'
<1>0. TypeOK /\ CursorKept /\ tick[w] \in ATick /\ tick[w].read \in Nat /\ tick[w].end \in Int /\ today \in Nat
  BY TickType DEF SweepInv, ATick, TypeOK
<1>1. tick[w].pc = "list" /\ tick[w].cursor = cursor /\ cursor.after = 0
  BY <1>0 DEF FetchPage, MustFetch, CursorKept, TypeOK
<1>2. UNCHANGED <<today, bank, removed, inbox, cursor>> /\ AllLines' = AllLines
  BY DEF FetchPage, firefly, AllLines
<1>3. PICK end \in Int : end = IF tick[w].read + 1 = 1 THEN today + 1 ELSE tick[w].end
  BY <1>0
<1>4. PICK rows : rows = Window(cursor.since, end)
  OBVIOUS
<1>5. PICK got : got = tick[w].got \cup OnPage(tick[w].read + 1, rows)
  OBVIOUS
<1>6. tick[w].read # 0 => end = tick[w].end
  BY <1>0, <1>3
<1>7. /\ cursor.since # NONE => \A m \in got : bank[m] <= end
      /\ \A i \in AllLines \ removed : InReach(i, cursor.since) =>
           i \in got \/ Overtaken(i, got) \/ StillAhead(w, i, rows)
  BY <1>1, <1>4, <1>5, <1>6, PageAdds
<1>8. Dated'
  BY <1>2 DEF SweepInv, Dated
<1>9. NoLineLost'
  BY <1>1, <1>2 DEF SweepInv, NoLineLost, Missing
<1>10. CASE IsLastPage(tick[w].read + 1, rows)
  <2>1. /\ cache' = [since |-> cursor.since, lines |-> got, full |-> TRUE]
        /\ tick' = [tick EXCEPT ![w] = [NoTick EXCEPT !.pc = "fetched", !.cursor = cursor,
                                                      !.pages = tick[w].pages]]
    BY <1>1, <1>3, <1>4, <1>5, <1>10 DEF FetchPage
  <2>2. /\ OthersIdle(w)
        /\ tick'[w] = [NoTick EXCEPT !.pc = "fetched", !.cursor = cursor, !.pages = tick[w].pages]
    BY <1>0, <1>1, <2>1, AloneInSweep
  <2>3. tick'[w].pc = "fetched" /\ tick'[w].cursor = cursor
    BY <2>2 DEF NoTick
  <2>4. cache'.since = cursor.since /\ cache'.lines = got /\ cache'.full
    BY <2>1
  <2>5. WindowInv'
    BY <1>2, <1>7, <1>10, <2>4 DEF WindowInv, InReach, Overtaken, StillAhead
  <2>6. CursorKept'
    BY <1>1, <1>2, <2>2, <2>3, <2>4 DEF OthersIdle, CursorKept
  <2>7. FetchInv' /\ PageInv'
    BY <2>2, <2>3 DEF OthersIdle, FetchInv, PageInv
  <2> QED BY <1>8, <1>9, <2>5, <2>6, <2>7 DEF SweepInv
<1>11. CASE ~IsLastPage(tick[w].read + 1, rows)
  <2> DEFINE r == [tick[w] EXCEPT !.read = tick[w].read + 1, !.got = got, !.end = end]
  <2>1. UNCHANGED cache /\ tick' = [tick EXCEPT ![w] = r]
    <3>1. /\ UNCHANGED cache
          /\ tick' = [tick EXCEPT ![w].read = tick[w].read + 1, ![w].got = got, ![w].end = end]
      BY <1>1, <1>3, <1>4, <1>5, <1>11 DEF FetchPage
    <3> QED BY <1>0, <3>1, TickType DEF ATick
  <2>2. /\ r.pc = "list" /\ r.cursor = cursor /\ r.read = tick[w].read + 1 /\ r.got = got /\ r.end = end
    BY <1>0, <1>1 DEF ATick
  <2> HIDE DEF r
  <2>3. OthersIdle(w) /\ tick'[w] = r
    BY <1>0, <1>1, <2>1, AloneInSweep
  <2>4. WindowInv'
    BY <1>2, <2>1 DEF SweepInv, WindowInv, InReach, Overtaken
  <2>5. CursorKept'
    BY <1>0, <1>1, <1>2, <2>1, <2>2, <2>3 DEF OthersIdle, CursorKept
  <2>6. Window(cursor.since, tick[w].end)' = rows
    BY <1>2, <1>4, <2>2, <2>3 DEF Window
  <2>7. \A i \in AllLines : Later(i, rows)' = Later(i, rows)
    BY <1>2 DEF Later, Earlier
  <2>8. \A i \in AllLines : StillAhead(w, i, rows) => OnLaterPage(w, i)'
    BY <2>2, <2>3, <2>6, <2>7 DEF OnLaterPage, StillAhead
  <2>9. \A i \in AllLines \ removed : InReach(i, cursor.since) =>
          i \in tick'[w].got \/ Overtaken(i, tick[w].got)' \/ OnLaterPage(w, i)'
    BY <1>2, <1>7, <2>2, <2>3, <2>8 DEF Overtaken
  <2>10. tick'[w].read # 0
    BY <1>0, <2>2, <2>3
  <2>11. FetchInv'
    BY <1>2, <1>7, <2>2, <2>3, <2>9, <2>10 DEF OthersIdle, FetchInv, InReach
  <2>12. PageInv'
    BY <2>2, <2>3 DEF OthersIdle, PageInv
  <2> QED BY <1>8, <1>9, <2>4, <2>5, <2>11, <2>12 DEF SweepInv
<1> QED BY <1>10, <1>11

(* A line arrives, backdated by no more than Late: the next sweep reaches it,  *)
(* and it moves what a fetch has yet to read only towards later pages.         *)
LEMMA LineArrivesStep ==
  ASSUME SweepInv, TypeOK', NEW d \in (today - Late)..(today + Ahead), LineArrives(d)
  PROVE  SweepInv'
<1> DEFINE new == Len(bank) + 1
<1>a. TypeOK /\ Dated
  BY DEF SweepInv
<1>b. cache \in ACache /\ cache.lines \subseteq AllLines /\ tick \in [Callers -> ATick]
  BY <1>a, TickType DEF ACache
<1>c. /\ inbox \subseteq AllLines /\ removed \subseteq AllLines /\ today \in Nat
      /\ cursor.after \in {0} \cup AllLines /\ cursor.since \in Int \cup {NONE}
  BY <1>a DEF TypeOK, Cursors
<1>0. /\ TypeOK /\ Dated /\ today \in Nat /\ d \in Int
      /\ cache \in ACache /\ cache.lines \subseteq AllLines /\ tick \in [Callers -> ATick]
      /\ inbox \subseteq AllLines /\ removed \subseteq AllLines
      /\ cursor.after \in {0} \cup AllLines /\ cursor.since \in Int \cup {NONE}
  BY <1>a, <1>b, <1>c
<1>1. UNCHANGED <<today, removed, inbox, cursor, failing, cache, running, tick>>
  BY DEF LineArrives, feed
<1>2. /\ AllLines' = AllLines \cup {new} /\ new \notin AllLines
      /\ bank'[new] = d /\ \A i \in AllLines : bank'[i] = bank[i] /\ bank[i] \in Int
  BY <1>0, Arrived, LineTypes
<1> HIDE DEF new
<1>3. Dated'
  BY <1>0, <1>1, <1>2 DEF Dated
<1>4. ASSUME NEW lines, lines \subseteq AllLines, NEW m \in lines PROVE bank'[m] <= bank'[new] + Overlap
  <2>1. m \in AllLines /\ bank[m] <= today + Ahead /\ bank[m] \in Int /\ today - Late <= d
    BY <1>0, <1>2, <1>4 DEF Dated
  <2> QED BY <1>0, <1>2, <2>1
<1>5. NoLineLost'
  <2>1. \A i \in Missing' : i \in Missing \/ i = new
    BY <1>1, <1>2 DEF Missing
  <2>2. ASSUME NEW i \in Missing', cursor'.since # NONE PROVE cursor'.since <= bank'[i]
    <3>1. CASE i = new
      <4>1. cursor.since <= today - Late
        BY <1>0, <1>1, <2>2 DEF Dated
      <4> QED BY <1>0, <1>1, <1>2, <2>2, <3>1, <4>1
    <3>2. CASE i \in Missing
      BY <1>1, <1>2, <2>2, <3>2 DEF SweepInv, NoLineLost, Missing
    <3> QED BY <2>1, <3>1, <3>2
  <2>3. ASSUME cursor'.after # 0, cache'.full, NEW i \in cache'.lines \ inbox'
        PROVE  Earlier(cursor.after, i)'
    BY <1>0, <1>1, <1>2, <2>3 DEF SweepInv, NoLineLost, Earlier
  <2> QED BY <2>2, <2>3 DEF NoLineLost
<1>6. WindowInv'
  BY <1>0, <1>1, <1>2, <1>4 DEF SweepInv, WindowInv, InReach, Overtaken
<1>7. CursorKept'
  BY <1>1 DEF SweepInv, CursorKept
<1>8. ASSUME NEW w \in Callers, NEW i \in AllLines, OnLaterPage(w, i) PROVE OnLaterPage(w, i)'
  <2>0. PICK rows : rows = Window(cursor.since, tick[w].end)
    OBVIOUS
  <2>1. PICK more : more = Window(cursor.since, tick[w].end)'
    OBVIOUS
  <2>2. rows \subseteq AllLines /\ rows \subseteq more /\ more \subseteq AllLines'
    BY <1>1, <1>2, <2>0, <2>1 DEF Window
  <2>3. Later(i, rows) \subseteq Later(i, more)'
    BY <1>2, <1>8, <2>2 DEF Later, Earlier
  <2>4. IsFiniteSet(AllLines') /\ Later(i, more)' \subseteq AllLines'
    <3>1. Len(bank') \in Int
      BY DEF TypeOK
    <3>2. IsFiniteSet(1..Len(bank'))
      BY <3>1, FS_Interval
    <3>3. IsFiniteSet(AllLines')
      BY <3>2 DEF AllLines
    <3> QED BY <2>2, <3>3 DEF Later
  <2>5. IsFiniteSet(Later(i, more)')
    BY <2>4, FS_Subset
  <2>6. Cardinality(Later(i, rows)) <= Cardinality(Later(i, more)')
    BY <2>3, <2>5, FS_Subset
  <2>7. Cardinality(Later(i, rows)) \in Nat /\ Cardinality(Later(i, more)') \in Nat
    BY <2>3, <2>5, FS_Subset, FS_CardinalityType
  <2>8. i \in rows /\ Cardinality(Later(i, rows)) >= tick[w].read * PageSize
    BY <1>8, <2>0 DEF OnLaterPage
  <2>9. tick[w].read * PageSize \in Nat
    <3>1. tick[w].read \in Nat
      BY <1>0 DEF ATick
    <3> QED BY <3>1
  <2>10. i \in more /\ Cardinality(Later(i, more)') >= tick[w].read * PageSize
    BY <2>2, <2>6, <2>7, <2>8, <2>9
  <2> QED BY <1>1, <2>1, <2>10 DEF OnLaterPage
<1>9. FetchInv'
  <2>0. \A w \in Callers : tick[w].got \subseteq AllLines
    BY <1>0 DEF ATick
  <2>1. ASSUME NEW w \in Callers, tick[w].pc = "list", NEW i \in AllLines' \ removed',
               InReach(i, cursor.since)'
        PROVE  i \in tick'[w].got \/ Overtaken(i, tick[w].got)' \/ OnLaterPage(w, i)'
    <3>1. CASE i = new
      BY <1>1, <1>4, <2>0, <3>1 DEF Overtaken
    <3>2. CASE i \in AllLines
      <4>1. i \in tick[w].got \/ Overtaken(i, tick[w].got) \/ OnLaterPage(w, i)
        BY <1>1, <1>2, <2>1, <3>2 DEF SweepInv, FetchInv, InReach
      <4>2. Overtaken(i, tick[w].got) => Overtaken(i, tick[w].got)'
        BY <1>1, <1>2, <2>0, <3>2 DEF Overtaken
      <4> QED BY <1>1, <1>8, <3>2, <4>1, <4>2
    <3> QED BY <1>2, <2>1, <3>1, <3>2
  <2>2. ASSUME NEW w \in Callers, tick[w].pc = "list"
        PROVE  /\ tick'[w].read = 0 => tick'[w].got = {}
               /\ cursor'.since # NONE => \A m \in tick'[w].got : bank'[m] <= tick'[w].end
    BY <1>1, <1>2, <2>0, <2>2 DEF SweepInv, FetchInv
  <2> QED BY <1>1, <2>1, <2>2 DEF FetchInv
<1>10. PageInv'
  <2>1. \A w \in Callers : tick[w].next \in {0} \cup AllLines
    BY <1>0 DEF ATick
  <2> QED BY <1>0, <1>1, <1>2, <2>1 DEF SweepInv, PageInv, Earlier
<1> QED BY <1>3, <1>5, <1>6, <1>7, <1>9, <1>10 DEF SweepInv

(* A line is deleted in Firefly, but not between two pages of a fetch. *)
LEMMA LineRemovedStep ==
  ASSUME "removeMidFetch" \notin Faults, SweepInv, TypeOK', NEW i \in AllLines, LineRemoved(i)
  PROVE  SweepInv'
<1>1. /\ UNCHANGED <<today, bank, inbox, cursor, failing, cache, running, tick>> /\ AllLines' = AllLines
      /\ removed' = removed \cup {i} /\ \A w \in Callers : ~(tick[w].read > 0)
  BY DEF LineRemoved, feed, AllLines
<1>2. Dated' /\ CursorKept'
  BY <1>1 DEF SweepInv, Dated, CursorKept
<1>3. WindowInv'
  BY <1>1 DEF SweepInv, WindowInv, InReach, Overtaken
<1>4. NoLineLost'
  BY <1>1 DEF SweepInv, NoLineLost, Missing, Earlier
<1>5. FetchInv'
  <2>1. \A w \in Callers : tick[w].read = 0
    <3>1. \A w \in Callers : tick[w].read \in Nat
      BY TickType DEF SweepInv, ATick
    <3> QED BY <1>1, <3>1
  <2>2. \A w \in Callers : tick[w].pc = "list" => tick[w].got = {}
    BY <2>1 DEF SweepInv, FetchInv
  <2> QED BY <1>1, <2>2 DEF FetchInv, Overtaken
<1>6. PageInv'
  BY <1>1 DEF SweepInv, PageInv, Earlier
<1> QED BY <1>2, <1>3, <1>4, <1>5, <1>6 DEF SweepInv

(* A day goes by, or nothing happens. *)
LEMMA QuietStep ==
  ASSUME SweepInv, TypeOK', today' >= today, UNCHANGED <<bank, removed>>, UNCHANGED feed
  PROVE  SweepInv'
<1>1. UNCHANGED <<inbox, cursor, failing, cache, running, tick>> /\ AllLines' = AllLines
  BY DEF feed, AllLines
<1>2. Dated'
  <2>1. today \in Nat /\ today' \in Nat /\ cursor.since \in Int \cup {NONE}
        /\ \A i \in AllLines : bank[i] \in Int
    BY LineTypes DEF SweepInv, TypeOK, Cursors
  <2> QED BY <1>1, <2>1 DEF SweepInv, Dated
<1>3. CursorKept' /\ WindowInv'
  BY <1>1 DEF SweepInv, CursorKept, WindowInv, InReach, Overtaken
<1>4. \A w \in Callers : \A i \in AllLines : OnLaterPage(w, i)' <=> OnLaterPage(w, i)
  BY <1>1 DEF OnLaterPage, Window, Later, Earlier
<1>5. FetchInv'
  BY <1>1, <1>4 DEF SweepInv, FetchInv, InReach, Overtaken
<1>6. PageInv' /\ NoLineLost'
  BY <1>1 DEF SweepInv, PageInv, NoLineLost, Missing, Earlier
<1> QED BY <1>2, <1>3, <1>5, <1>6 DEF SweepInv

LEMMA SweepStep ==
  ASSUME Faults \cap {"restartMidSweep", "removeMidFetch"} = {}, SweepInv, [Next]_vars
  PROVE  SweepInv'
<1>1. TypeOK' /\ "restartMidSweep" \notin Faults /\ "removeMidFetch" \notin Faults
  BY TypeStep DEF SweepInv
<1>2. ASSUME NEW w \in Callers, StartTick(w) PROVE SweepInv'
  BY <1>1, <1>2, StartTickStep
<1>3. ASSUME NEW w \in Callers, FetchPage(w) PROVE SweepInv'
  BY <1>1, <1>3, FetchPageStep
<1>4. ASSUME NEW w \in Callers, ListSince(w) PROVE SweepInv'
  BY <1>1, <1>4, ListSinceStep
<1>5. ASSUME NEW w \in Callers, NEW i \in AllLines, IngestLine(w, i) PROVE SweepInv'
  BY <1>1, <1>5, IngestLineStep
<1>6. ASSUME NEW w \in Callers, SaveCursor(w) PROVE SweepInv'
  BY <1>1, <1>6, SaveCursorStep
<1>7. ASSUME NEW w \in Callers, SaveSuccess(w) PROVE SweepInv'
  BY <1>1, <1>7, SaveSuccessStep
<1>8. ASSUME NEW w \in Callers, FetchFails(w) \/ IngestFails(w) PROVE SweepInv'
  BY <1>1, <1>8, TickFailsStep
<1>9. CASE Restart
  BY <1>1, <1>9, RestartStep
<1>10. ASSUME NEW d \in (today - Late)..(today + Ahead), LineArrives(d) PROVE SweepInv'
  BY <1>1, <1>10, LineArrivesStep
<1>11. ASSUME NEW i \in AllLines, LineRemoved(i) PROVE SweepInv'
  BY <1>1, <1>11, LineRemovedStep
<1>12. today \in Nat
  BY DEF SweepInv, TypeOK
<1>13. CASE NextDay
  BY <1>1, <1>12, <1>13, QuietStep DEF NextDay
<1>14. CASE UNCHANGED vars
  BY <1>1, <1>12, <1>14, QuietStep DEF vars, feed
<1> QED
  BY <1>2, <1>3, <1>4, <1>5, <1>6, <1>7, <1>8, <1>9, <1>10, <1>11, <1>13, <1>14 DEF Next, Sweep

(* No bank line is lost, for any number of lines and days, any page sizes and  *)
(* any overlap that covers how far lines are dated from their arrival: what is *)
(* not in the inbox the next sweep still reaches, and a position inside a      *)
(* sweep never runs ahead of the inbox - through lines that arrive between two *)
(* pages, failing fetches and lines, the page cap, deletions in Firefly and    *)
(* restarts.  It takes that the process does not stop inside a sweep and that  *)
(* no line is deleted in Firefly between two pages of one fetch: both lose     *)
(* lines (the cursor says where it was in a window nobody has any more).       *)
THEOREM NothingLost ==
  ASSUME Faults \cap {"restartMidSweep", "removeMidFetch"} = {}
  PROVE  Spec => []NoLineLost
<1>1. SweepInv /\ [Next]_vars => SweepInv'
  BY SweepStep
<1>2. SweepInv => NoLineLost
  BY DEF SweepInv
<1> QED BY <1>1, <1>2, SweepInit, PTL DEF Spec
=============================================================================
