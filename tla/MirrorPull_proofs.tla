--------------------------- MODULE MirrorPull_proofs ---------------------------
(* Proofs about MirrorPull, for any calendar, page size and number of changes   *)
(* at the provider: that the mirror is complete up to the version it is said to *)
(* be, and that no step drops a row the provider still has.                     *)
EXTENDS MirrorPull, FiniteSetTheorems, TLAPS

(* ------------------------------------------------------- what is assumed *)
(* The three kinds of item are apart, an occurrence is of a series, and NONE is  *)
(* neither a title nor a set of items.                                          *)
Kinds ==
  /\ Events \cap Occurrences = {} /\ Events \cap Series = {} /\ Occurrences \cap Series = {}
  /\ SeriesOf \in [Occurrences -> Series]
  /\ NONE \notin Int /\ NONE \notin SUBSET Ids
  /\ MaxVersion \in Nat /\ MAX_PAGES \in Nat

(* No pull is cut off: the cap throws, or there is not that much to deliver.    *)
NoCutOff == CapThrows \/ (IsFiniteSet(Ids) /\ Cardinality(Ids) <= MAX_PAGES)

(* ------------------------------------------------------- the invariant *)
Reads == UNION {[D -> Titles] : D \in SUBSET Ids}

Pulls == [pc : {"page", "masters", "throws", "record"}, from : Titles, full : BOOLEAN,
          left : {NONE} \cup SUBSET Ids, at : Nat, pages : Nat, got : Reads, gone : SUBSET Ids,
          whole : BOOLEAN]

(* A deleted series stays so, and its occurrences with it.                      *)
ProviderInv ==
  /\ version \in 0..MaxVersion /\ oldest \in 0..version
  /\ remote \in [Ids -> [at : 0..version, live : BOOLEAN, own : Titles]]
  /\ \A i \in Ids \ Occurrences : remote[i].own # NONE
  /\ \A i \in Occurrences : ~remote[SeriesOf[i]].live => remote[i].at <= remote[SeriesOf[i]].at

StoreInv ==
  /\ mirror \in [Ids -> Titles] /\ token \in Titles /\ since \in -1..version
  /\ CompleteSince

(* Where a pull is, and what it has read by then.                               *)
Begun == pull.pc \in {"page", "masters"} /\ pull.left # NONE

PhaseInv ==
  /\ pull = NoPull \/ pull \in Pulls
  /\ ~At("idle") /\ ~pull.full => pull.from \in 0..since
  /\ At("page") /\ pull.left = NONE => pull.got = <<>> /\ pull.gone = {} /\ pull.pages = 0
  /\ At("page") /\ pull.left # NONE /\ IsFiniteSet(Ids) => pull.pages + Cardinality(pull.left) <= Cardinality(Ids)
  /\ At("masters") => pull.left = {} /\ pull.whole
  /\ At("record") => pull.whole /\ since = pull.at
  /\ Begun => since <= pull.at /\ pull.at <= version

(* What was read is still so, or has changed since the first page.              *)
GotNow(i) == ChangedAt(i) > pull.at \/ (Live(i) /\ Got(i) = remote[i].own)

MasterNow(s) ==
  /\ ~remote[s].live => remote[s].at > pull.at
  /\ remote[s].live =>
       Got(s) = remote[s].own \/ \A i \in Occurrences : SeriesOf[i] = s => remote[i].at > pull.at

GoneNow(i) == IF i \in Series THEN ~remote[i].live ELSE ChangedAt(i) > pull.at \/ ~Live(i)

(* Everything the pull is of has been read or is still to come.                 *)
DueIn(i)   == IF pull.full THEN Live(i)
              ELSE remote[i].at > pull.from /\ (i \in Occurrences => remote[SeriesOf[i]].live)
Accounted(i) == i \in pull.left \cup DOMAIN pull.got \/ (~pull.full /\ i \in pull.gone)

ReadInv ==
  Begun =>
    /\ \A i \in DOMAIN pull.got \ Series : GotNow(i)
    /\ \A s \in DOMAIN pull.got \cap Series : MasterNow(s)
    /\ \A i \in pull.gone : GoneNow(i)
    /\ \A i \in Ids : remote[i].at <= pull.at /\ DueIn(i) => Accounted(i)

PullInv == ProviderInv /\ StoreInv /\ PhaseInv /\ ReadInv
-----------------------------------------------------------------------------
(* ------------------------------------------------------- reads of items *)
LEMMA EmptyRead == <<>> \in Reads /\ DOMAIN <<>> = {}
<1>1. <<>> \in [{} -> Titles]
  OBVIOUS
<1> QED BY <1>1 DEF Reads

LEMMA ReadIs ==
  ASSUME NEW f \in Reads
  PROVE  DOMAIN f \subseteq Ids /\ \A i \in DOMAIN f : f[i] \in Titles
<1>1. PICK D \in SUBSET Ids : f \in [D -> Titles]
  BY DEF Reads
<1> QED BY <1>1

LEMMA IsRead ==
  ASSUME NEW D \in SUBSET Ids, NEW f, f \in [D -> Titles]
  PROVE  f \in Reads
BY DEF Reads

LEMMA Masters ==
  ASSUME Kinds, NEW i \in Ids
  PROVE  /\ MasterOf(i) \in Ids
         /\ i \in Occurrences => MasterOf(i) = SeriesOf[i] /\ SeriesOf[i] \in Series
         /\ i \notin Occurrences => MasterOf(i) = i
BY DEF Kinds, MasterOf, Ids

LEMMA InitInv ==
  ASSUME Kinds, PullInit
  PROVE  PullInv
<1>1. ProviderInv
  BY Masters DEF Kinds, PullInit, ProviderInv, Titles, Ids
<1>2. CompleteSince
  BY DEF PullInit, CompleteSince
<1>3. StoreInv
  BY <1>2 DEF Kinds, PullInit, StoreInv, Titles
<1>4. PhaseInv
  BY DEF PullInit, PhaseInv, At, NoPull, Begun
<1>5. ReadInv
  BY DEF PullInit, ReadInv, NoPull, Begun
<1> QED BY <1>1, <1>3, <1>4, <1>5 DEF PullInv
-----------------------------------------------------------------------------
(* ------------------------------------------------ changes at the provider *)
(* What every change has in common: what it touches is newer than all there was, *)
(* the deleted stay deleted, and a new title of a series touches its occurrences. *)
Moves ==
  /\ version' = version + 1 /\ version' \in 0..MaxVersion
  /\ UNCHANGED <<oldest, mirror, token, pull, since>>
  /\ remote' \in [Ids -> [at : 0..version', live : BOOLEAN, own : Titles]]
  /\ \A i \in Ids : remote'[i] = remote[i] \/ remote'[i].at = version'
  /\ \A i \in Ids \ Occurrences : remote'[i].own # NONE /\ (~remote[i].live => remote'[i] = remote[i])
  /\ \A i \in Occurrences : ~remote[SeriesOf[i]].live => remote'[i] = remote[i]
  /\ \A s \in Series : remote'[s].own # remote[s].own =>
       \A i \in Occurrences : SeriesOf[i] = s => remote'[i].at = version'

LEMMA EditMoves ==
  ASSUME Kinds, ProviderInv, NEW i \in Ids, EditEvent(i)
  PROVE  Moves
<1>1. i \notin Series /\ remote[MasterOf(i)].live /\ version + 1 \in 0..MaxVersion
  BY DEF EditEvent, Kinds, Changed, ProviderInv
<1>2. remote' = [j \in Ids |-> IF j = i THEN [at |-> version + 1, live |-> TRUE, own |-> version + 1] ELSE remote[j]]
  BY DEF EditEvent, Changed, Renamed
<1>3. /\ version' = version + 1 /\ UNCHANGED <<oldest, mirror, token, pull, since>>
  BY DEF EditEvent, Changed
<1>4. remote' \in [Ids -> [at : 0..version', live : BOOLEAN, own : Titles]]
  BY <1>1, <1>2, <1>3 DEF ProviderInv, Titles
<1>5. \A j \in Ids \ Occurrences : remote'[j].own # NONE /\ (~remote[j].live => remote'[j] = remote[j])
  BY <1>1, <1>2, Masters DEF ProviderInv, Kinds
<1>6. \A j \in Occurrences : ~remote[SeriesOf[j]].live => remote'[j] = remote[j]
  BY <1>1, <1>2, Masters DEF Ids
<1>7. \A s \in Series : remote'[s].own = remote[s].own
  BY <1>1, <1>2 DEF Ids
<1> QED BY <1>1, <1>2, <1>3, <1>4, <1>5, <1>6, <1>7 DEF Moves

LEMMA DeleteMoves ==
  ASSUME Kinds, ProviderInv, NEW i \in Ids, DeleteEvent(i)
  PROVE  Moves
<1>1. remote[i].live /\ remote[MasterOf(i)].live /\ version + 1 \in 0..MaxVersion
  BY DEF DeleteEvent, Live, Changed, ProviderInv, Kinds
<1>2. remote' = [j \in Ids |-> IF j = i THEN [remote[j] EXCEPT !.at = version + 1, !.live = FALSE] ELSE remote[j]]
  BY DEF DeleteEvent, Changed, Dropped
<1>3. /\ version' = version + 1 /\ UNCHANGED <<oldest, mirror, token, pull, since>>
  BY DEF DeleteEvent, Changed
<1>4. remote' \in [Ids -> [at : 0..version', live : BOOLEAN, own : Titles]]
  <2>1. \A j \in Ids : remote[j] \in [at : 0..version, live : BOOLEAN, own : Titles]
    BY DEF ProviderInv
  <2>2. 0..version \subseteq 0..(version + 1) /\ version + 1 \in 0..(version + 1)
    BY DEF ProviderInv
  <2>3. \A j \in Ids : /\ remote[j] \in [at : 0..(version + 1), live : BOOLEAN, own : Titles]
                      /\ [remote[j] EXCEPT !.at = version + 1, !.live = FALSE]
                           \in [at : 0..(version + 1), live : BOOLEAN, own : Titles]
    BY <2>1, <2>2
  <2> QED BY <1>2, <1>3, <2>3
<1>5. \A j \in Ids : remote'[j].own = remote[j].own
  BY <1>2 DEF ProviderInv
<1>6. \A j \in Ids \ Occurrences : remote'[j].own # NONE /\ (~remote[j].live => remote'[j] = remote[j])
  BY <1>1, <1>2, <1>5 DEF ProviderInv
<1>7. \A j \in Occurrences : ~remote[SeriesOf[j]].live => remote'[j] = remote[j]
  BY <1>1, <1>2, Masters DEF Ids
<1>8. \A j \in Ids : remote'[j] = remote[j] \/ remote'[j].at = version'
  BY <1>2, <1>3 DEF ProviderInv
<1>9. \A s \in Series : remote'[s].own = remote[s].own
  BY <1>5 DEF Ids
<1> QED BY <1>1, <1>3, <1>4, <1>6, <1>7, <1>8, <1>9 DEF Moves

LEMMA SeriesMoves ==
  ASSUME Kinds, ProviderInv, NEW s \in Series, EditSeries(s)
  PROVE  Moves
<1> DEFINE Mine == {i \in Occurrences : SeriesOf[i] = s}
<1>1. remote[s].live /\ version + 1 \in 0..MaxVersion /\ s \in Ids /\ s \notin Occurrences /\ Mine \subseteq Ids
  BY DEF EditSeries, Changed, ProviderInv, Kinds, Ids
<1>2. version' = version + 1 /\ UNCHANGED <<oldest, mirror, token, pull, since>>
  BY DEF EditSeries, Changed
<1>3. CASE remote' = [i \in Ids |-> IF i \in {s} THEN Touched(i) ELSE remote[i]]
  <2>1. remote' = [i \in Ids |-> IF i = s THEN [remote[i] EXCEPT !.at = version + 1] ELSE remote[i]]
    BY <1>3 DEF Touched
  <2>2. remote' \in [Ids -> [at : 0..version', live : BOOLEAN, own : Titles]]
    BY <1>1, <1>2, <2>1 DEF ProviderInv
  <2>3. \A i \in Ids : remote'[i].own = remote[i].own /\ (i # s => remote'[i] = remote[i])
    BY <2>1 DEF ProviderInv
  <2>4. remote'[s].at = version'
    BY <1>1, <1>2, <2>1 DEF ProviderInv
  <2>5. \A i \in Ids \ Occurrences : remote'[i].own # NONE /\ (~remote[i].live => remote'[i] = remote[i])
    BY <1>1, <2>3 DEF ProviderInv
  <2>6. \A i \in Occurrences : remote'[i] = remote[i]
    BY <1>1, <2>3 DEF Ids
  <2>7. \A r \in Series : remote'[r].own = remote[r].own
    BY <2>3 DEF Ids
  <2> QED BY <1>1, <1>2, <2>2, <2>3, <2>4, <2>5, <2>6, <2>7 DEF Moves
<1>4. CASE remote' = [i \in Ids |-> IF i \in {s} \cup Mine THEN IF i = s THEN Renamed(i) ELSE Touched(i) ELSE remote[i]]
  <2>1. remote' = [i \in Ids |-> IF i = s THEN [at |-> version + 1, live |-> TRUE, own |-> version + 1]
                                ELSE IF i \in Mine THEN [remote[i] EXCEPT !.at = version + 1] ELSE remote[i]]
    BY <1>4 DEF Touched, Renamed
  <2>2. remote' \in [Ids -> [at : 0..version', live : BOOLEAN, own : Titles]]
    BY <1>1, <1>2, <2>1 DEF ProviderInv, Titles
  <2>3. \A i \in Ids : i # s /\ i \notin Mine => remote'[i] = remote[i]
    BY <2>1
  <2>4. remote'[s].at = version' /\ remote'[s].own # NONE
    BY <1>1, <1>2, <2>1 DEF Kinds, ProviderInv
  <2>5. \A i \in Mine : remote'[i].at = version'
    BY <1>1, <1>2, <2>1 DEF ProviderInv
  <2>6. \A i \in Ids \ Occurrences : remote'[i].own # NONE /\ (~remote[i].live => remote'[i] = remote[i])
    BY <1>1, <2>3, <2>4 DEF ProviderInv
  <2>7. \A i \in Occurrences : ~remote[SeriesOf[i]].live => remote'[i] = remote[i]
    BY <1>1, <2>3 DEF Ids
  <2>8. \A r \in Series : remote'[r].own # remote[r].own =>
          \A i \in Occurrences : SeriesOf[i] = r => remote'[i].at = version'
    <3>1. \A r \in Series : r # s => remote'[r].own = remote[r].own
      BY <2>3 DEF Kinds, Ids
    <3> QED BY <3>1, <2>5
  <2> QED BY <1>1, <1>2, <2>2, <2>3, <2>4, <2>5, <2>6, <2>7, <2>8 DEF Moves
<1> QED BY <1>3, <1>4 DEF EditSeries, Changed

(* An item is as it was, or as new as the change.                               *)
LEMMA ItemMoves ==
  ASSUME Kinds, ProviderInv, Moves, NEW i \in Ids
  PROVE  \/ ChangedAt(i)' = version'
         \/ /\ remote'[i] = remote[i] /\ ChangedAt(i)' = ChangedAt(i)
            /\ Shown(i)' = Shown(i) /\ Live(i)' = Live(i)
<1> DEFINE s == MasterOf(i)
<1>1. s \in Ids /\ MasterOf(i)' = s
  BY Masters DEF MasterOf
<1>2. /\ remote[i].at \in 0..version /\ remote[s].at \in 0..version /\ remote'[i].at \in 0..version'
      /\ remote'[s].at \in 0..version' /\ remote[s].live \in BOOLEAN /\ remote'[s].live \in BOOLEAN
      /\ version \in Nat /\ version' = version + 1
  BY <1>1 DEF ProviderInv, Moves
<1>3. CASE remote'[i].at = version'
  BY <1>1, <1>2, <1>3 DEF ChangedAt
<1>4. CASE remote'[i] = remote[i] /\ ~remote'[s].live /\ remote[s].live
  <2>1. remote'[s].at = version'
    BY <1>1, <1>4 DEF Moves
  <2> QED BY <1>1, <1>2, <1>4, <2>1 DEF ChangedAt
<1>5. CASE remote'[i] = remote[i] /\ remote'[i].at # version' /\ (remote'[s].live \/ ~remote[s].live)
  <2>1. ~remote[s].live => remote'[s] = remote[s]
    BY <1>5, Masters DEF Moves, Kinds, Ids
  <2>2. remote'[s].live = remote[s].live
    BY <1>2, <1>5, <2>1
  <2>3. remote'[s].own = remote[s].own
    BY <1>5, Masters DEF Moves, Kinds, Ids
  <2>4. ChangedAt(i)' = ChangedAt(i)
    BY <1>1, <1>5, <2>1, <2>2 DEF ChangedAt
  <2>5. Live(i)' = Live(i)
    BY <1>1, <1>5, <2>2 DEF Live
  <2>6. Shown(i)' = Shown(i)
    BY <1>1, <1>5, <2>3, <2>5 DEF Shown
  <2> QED BY <1>5, <2>4, <2>5, <2>6
<1>6. remote'[i] = remote[i] \/ remote'[i].at = version'
  BY DEF Moves
<1> QED BY <1>3, <1>4, <1>5, <1>6

LEMMA ChangedType ==
  ASSUME Kinds, ProviderInv, NEW i \in Ids
  PROVE  ChangedAt(i) \in 0..version /\ remote[i].at \in 0..version /\ ChangedAt(i) >= remote[i].at
BY Masters DEF ProviderInv, ChangedAt

LEMMA MovesProvider ==
  ASSUME Kinds, ProviderInv, Moves
  PROVE  ProviderInv'
<1>1. oldest' \in 0..version'
  BY DEF ProviderInv, Moves
<1>2. ASSUME NEW i \in Occurrences, ~remote'[SeriesOf[i]].live
      PROVE  remote'[i].at <= remote'[SeriesOf[i]].at
  <2>1. i \in Ids /\ SeriesOf[i] \in Ids \ Occurrences
    BY Masters DEF Ids, Kinds
  <2>2. CASE remote[SeriesOf[i]].live
    <3>1. remote'[SeriesOf[i]].at = version'
      BY <1>2, <2>1, <2>2 DEF Moves
    <3>2. remote'[i].at \in 0..version' /\ version' \in Nat
      BY <2>1 DEF Moves
    <3> QED BY <3>1, <3>2
  <2>3. CASE ~remote[SeriesOf[i]].live
    BY <2>1, <2>3 DEF Moves, ProviderInv
  <2> QED BY <2>2, <2>3
<1> QED BY <1>1, <1>2 DEF ProviderInv, Moves

LEMMA MovesStore ==
  ASSUME Kinds, ProviderInv, StoreInv, Moves
  PROVE  StoreInv'
<1>1. ASSUME NEW i \in Ids \ Series, since >= 0
      PROVE  mirror[i] = Shown(i)' \/ ChangedAt(i)' > since
  <2>1. mirror[i] = Shown(i) \/ ChangedAt(i) > since
    BY <1>1 DEF StoreInv, CompleteSince
  <2>2. version' > since
    BY DEF StoreInv, ProviderInv, Moves
  <2> QED BY <2>1, <2>2, ItemMoves
<1>2. CompleteSince'
  BY <1>1 DEF StoreInv, CompleteSince, Moves, Ids
<1>3. since' \in -1..version'
  BY DEF StoreInv, ProviderInv, Moves
<1> QED BY <1>2, <1>3 DEF StoreInv, Moves, Ids, Titles

LEMMA MovesPhase ==
  ASSUME Kinds, ProviderInv, StoreInv, PhaseInv, Moves
  PROVE  PhaseInv'
<1>1. Begun' => since' <= pull'.at /\ pull'.at <= version'
  <2>1. Begun' = Begun
    BY DEF Begun, Moves
  <2>2. Begun => pull.at \in Nat
    BY DEF Begun, PhaseInv, Pulls, NoPull
  <2> QED BY <2>1, <2>2 DEF PhaseInv, Moves, ProviderInv, StoreInv
<1> QED BY <1>1 DEF PhaseInv, Moves, At, NoPull, Pulls, Reads, Titles, Ids

LEMMA MovesRead ==
  ASSUME Kinds, PullInv, Moves
  PROVE  ReadInv'
<1> USE DEF PullInv
<1> SUFFICES ASSUME Begun'
             PROVE  ReadInv'
  BY DEF ReadInv
<1>1. pull' = pull /\ Begun
  BY DEF Moves, Begun
<1>2. /\ pull \in Pulls /\ pull.at \in Nat /\ pull.at < version' /\ version' \in Nat
      /\ DOMAIN pull.got \subseteq Ids /\ pull.gone \subseteq Ids
  BY <1>1, ReadIs DEF PhaseInv, Begun, NoPull, Pulls, Moves, ProviderInv
<1>3. ASSUME NEW i \in DOMAIN pull.got \ Series
      PROVE  GotNow(i)'
  <2>1. GotNow(i)
    BY <1>1, <1>3 DEF ReadInv
  <2> QED BY <1>1, <1>2, <2>1, ItemMoves DEF GotNow, Got
<1>4. ASSUME NEW s \in DOMAIN pull.got \cap Series
      PROVE  MasterNow(s)'
  <2>1. MasterNow(s) /\ s \in Ids \ Occurrences
    BY <1>1, <1>2, <1>4 DEF ReadInv, Kinds
  <2>2. remote[s].live \in BOOLEAN /\ remote'[s].live \in BOOLEAN
    BY <2>1 DEF ProviderInv, Moves
  <2>3. ASSUME ~remote'[s].live
        PROVE  remote'[s].at > pull.at
    <3>1. remote[s].live => remote'[s].at = version'
      BY <2>1, <2>3 DEF Moves
    <3> QED BY <1>2, <2>1, <3>1 DEF MasterNow, Moves
  <2>4. ASSUME remote'[s].live, Got(s) # remote'[s].own, NEW i \in Occurrences, SeriesOf[i] = s
        PROVE  remote'[i].at > pull.at
    <3>1. remote[s].live
      BY <2>1, <2>4 DEF Moves
    <3>2. i \in Ids
      BY DEF Ids
    <3>3. CASE remote'[s].own # remote[s].own
      BY <1>2, <2>4, <3>3 DEF Moves
    <3>4. CASE remote'[s].own = remote[s].own
      <4>1. remote[i].at > pull.at
        BY <2>1, <2>4, <3>1, <3>4 DEF MasterNow
      <4> QED BY <1>2, <3>2, <4>1 DEF Moves
    <3> QED BY <3>3, <3>4
  <2> QED BY <1>1, <2>3, <2>4 DEF MasterNow, Got
<1>5. ASSUME NEW i \in pull.gone
      PROVE  GoneNow(i)'
  <2>1. GoneNow(i) /\ i \in Ids
    BY <1>1, <1>2, <1>5 DEF ReadInv
  <2>2. CASE i \in Series
    BY <2>1, <2>2 DEF GoneNow, Moves, Kinds
  <2>3. CASE i \notin Series
    BY <1>1, <1>2, <2>1, <2>3, ItemMoves DEF GoneNow
  <2> QED BY <2>2, <2>3
<1>6. ASSUME NEW i \in Ids, remote'[i].at <= pull.at, DueIn(i)'
      PROVE  Accounted(i)'
  <2>1. remote'[i] = remote[i]
    BY <1>2, <1>6 DEF Moves
  <2>2. i \in Occurrences => remote'[SeriesOf[i]].live \in BOOLEAN /\ (remote'[SeriesOf[i]].live => remote[SeriesOf[i]].live)
    BY Masters DEF Moves, Kinds, Ids
  <2>3. MasterOf(i) \in Ids /\ MasterOf(i)' = MasterOf(i)
    BY Masters DEF MasterOf
  <2>4. DueIn(i)
    <3>1. CASE pull.full
      <4>1. remote'[i].live /\ remote'[MasterOf(i)].live
        BY <1>1, <1>6, <2>3, <3>1 DEF DueIn, Live
      <4>2. remote[MasterOf(i)].live
        BY <2>1, <2>2, <4>1, Masters
      <4> QED BY <2>1, <3>1, <4>1, <4>2 DEF DueIn, Live
    <3>2. CASE ~pull.full
      BY <1>1, <1>6, <2>1, <2>2, <3>2 DEF DueIn
    <3> QED BY <3>1, <3>2 DEF Pulls
  <2>5. Accounted(i)
    BY <1>1, <1>6, <2>1, <2>4 DEF ReadInv
  <2> QED BY <1>1, <2>5 DEF Accounted
<1> QED BY <1>1, <1>3, <1>4, <1>5, <1>6 DEF ReadInv, Ids

LEMMA MovesInv ==
  ASSUME Kinds, PullInv, Moves
  PROVE  PullInv'
BY MovesProvider, MovesStore, MovesPhase, MovesRead DEF PullInv
-----------------------------------------------------------------------------
(* ------------------------------------------------ the steps of a pull *)
(* While the provider and the rows stay as they are, so do their invariants.   *)
LEMMA SameProvider ==
  ASSUME ProviderInv, UNCHANGED <<version, oldest, remote>>
  PROVE  ProviderInv'
BY DEF ProviderInv, Ids, Titles

LEMMA SameStore ==
  ASSUME StoreInv, UNCHANGED <<version, remote, mirror, token, since>>
  PROVE  StoreInv'
<1>1. CompleteSince'
  BY DEF StoreInv, CompleteSince, Shown, ChangedAt, Live, MasterOf, Ids
<1> QED BY <1>1 DEF StoreInv, Ids, Titles

LEMMA Idle ==
  ASSUME PullInv, pull' = NoPull, UNCHANGED <<version, remote, mirror, since>>
  PROVE  PhaseInv' /\ ReadInv'
BY DEF PhaseInv, ReadInv, Begun, At, NoPull

(* A pull starts from the token, or from nothing.                              *)
LEMMA Starts ==
  ASSUME Kinds, PullInv, NEW from \in Titles, NEW full \in BOOLEAN, pull' = Start(from, full),
         ~full => from # NONE /\ from <= since,
         UNCHANGED <<version, remote, mirror, token, since>>
  PROVE  PhaseInv' /\ ReadInv'
<1>1. /\ pull'.pc = "page" /\ pull'.from = from /\ pull'.full = full /\ pull'.left = NONE
      /\ pull'.got = <<>> /\ pull'.gone = {} /\ pull'.pages = 0
  BY DEF Start
<1>2. pull' \in Pulls
  BY EmptyRead DEF Start, Pulls, Titles
<1>3. ~full => from \in 0..since
  BY DEF Kinds, Titles, PullInv, StoreInv
<1> QED BY <1>1, <1>2, <1>3 DEF PhaseInv, ReadInv, Begun, At, Pulls, Reads, Titles, Ids

LEMMA PullChangesInv ==
  ASSUME Kinds, PullInv, NEW forceFullResync \in BOOLEAN, pullChanges(forceFullResync)
  PROVE  PullInv'
<1>1. UNCHANGED <<version, oldest, remote, mirror, token, since>>
  BY DEF pullChanges
<1>2. PhaseInv' /\ ReadInv'
  <2>1. CASE Delta /\ token # NONE /\ ~forceFullResync
    <3>1. token \in Titles \ {NONE} /\ token <= since
      BY <2>1 DEF PullInv, StoreInv, CompleteSince
    <3>2. pull' = Start(token, FALSE)
      BY <2>1 DEF pullChanges
    <3>3. FALSE \in BOOLEAN
      OBVIOUS
    <3> QED BY <1>1, <3>1, <3>2, <3>3, Starts
  <2>2. CASE ~(Delta /\ token # NONE /\ ~forceFullResync)
    <3>1. pull' = Start(NONE, TRUE)
      BY <2>2 DEF pullChanges
    <3>2. NONE \in Titles /\ TRUE \in BOOLEAN
      BY DEF Titles
    <3> QED BY <1>1, <3>1, <3>2, Starts
  <2> QED BY <2>1, <2>2
<1> QED BY <1>1, <1>2, SameProvider, SameStore DEF PullInv

LEMMA Gone410Inv ==
  ASSUME Kinds, PullInv, Gone410
  PROVE  PullInv'
<1>1. UNCHANGED <<version, oldest, remote, mirror, token, since>> /\ pull' = Start(NONE, TRUE)
  BY DEF Gone410
<1>2. PhaseInv' /\ ReadInv'
  <2>1. NONE \in Titles /\ TRUE \in BOOLEAN
    BY DEF Titles
  <2> QED BY <1>1, <2>1, Starts
<1> QED BY <1>1, <1>2, SameProvider, SameStore DEF PullInv

LEMMA FailsInv ==
  ASSUME PullInv, Fails
  PROVE  PullInv'
BY SameProvider, SameStore, Idle DEF PullInv, Fails

LEMMA TokensExpireInv ==
  ASSUME PullInv, TokensExpire
  PROVE  PullInv'
<1>1. UNCHANGED <<version, remote, mirror, token, pull, since>> /\ oldest' = version
  BY DEF TokensExpire
<1>2. ProviderInv'
  BY <1>1 DEF PullInv, ProviderInv, Ids, Titles
<1>3. PhaseInv'
  BY <1>1 DEF PullInv, PhaseInv, At, Begun, Pulls, Reads, Titles, Ids
<1>4. ReadInv'
  BY <1>1 DEF PullInv, ReadInv, Begun, GotNow, MasterNow, GoneNow, DueIn, Accounted, ChangedAt, Live,
              MasterOf, Got, Ids
<1> QED BY <1>1, <1>2, <1>3, <1>4, SameStore DEF PullInv

(* The token is of the version the mirror is complete up to.                    *)
LEMMA RecordInv ==
  ASSUME Kinds, PullInv, recordSyncSuccess
  PROVE  PullInv'
<1>1. UNCHANGED <<version, oldest, remote, mirror, since>> /\ pull' = NoPull /\ token' = NextToken
  BY DEF recordSyncSuccess
<1>2. token' # NONE => token' = since
  BY <1>1 DEF recordSyncSuccess, NextToken, PullInv, PhaseInv
<1>3. token' # NONE => token' \in Nat /\ token' <= MaxVersion
  <2>1. token' # NONE => pull \in Pulls /\ token' = pull.at
    BY <1>1 DEF recordSyncSuccess, NextToken, PullInv, PhaseInv, At, NoPull
  <2> QED BY <1>2, <2>1 DEF Pulls, PullInv, StoreInv, ProviderInv, Kinds
<1>4. CompleteSince'
  BY <1>1, <1>2, <1>3 DEF PullInv, StoreInv, CompleteSince, Shown, ChangedAt, Live, MasterOf, Ids
<1>5. StoreInv'
  BY <1>1, <1>3, <1>4 DEF PullInv, StoreInv, Ids, Titles
<1> QED BY <1>1, <1>5, SameProvider, Idle DEF PullInv

(* What a page makes of what is left to deliver; nothing is cut off.           *)
LEMMA ToDeliverIs ==
  ASSUME Kinds, PullInv, At("page")
  PROVE  ToDeliver \in SUBSET Ids /\ pull \in Pulls
<1>1. pull \in Pulls
  BY DEF PullInv, PhaseInv, At, NoPull
<1>2. pull.left # NONE => pull.left \in SUBSET Ids
  BY <1>1 DEF Pulls
<1> QED BY <1>1, <1>2 DEF ToDeliver

LEMMA PageCount ==
  ASSUME Kinds, PullInv, At("page"), IsFiniteSet(Ids), NEW ids \in SUBSET ToDeliver,
         ids = {} => ToDeliver = {}, ToDeliver \ ids # {}
  PROVE  pull.pages + 1 + Cardinality(ToDeliver \ ids) <= Cardinality(Ids)
<1>1. ToDeliver \in SUBSET Ids /\ pull \in Pulls
  BY ToDeliverIs
<1>2. IsFiniteSet(ToDeliver) /\ Cardinality(ToDeliver) <= Cardinality(Ids)
  BY <1>1, FS_Subset
<1>3. /\ IsFiniteSet(ToDeliver \ ids) /\ Cardinality(ToDeliver \ ids) <= Cardinality(ToDeliver)
      /\ Cardinality(ToDeliver \ ids) = Cardinality(ToDeliver) => ToDeliver \ ids = ToDeliver
  BY <1>2, FS_Subset, ToDeliver \ ids \in SUBSET ToDeliver
<1>4. ToDeliver \ ids # ToDeliver
  OBVIOUS
<1>5. /\ Cardinality(ToDeliver \ ids) \in Nat /\ Cardinality(ToDeliver) \in Nat /\ Cardinality(Ids) \in Nat
      /\ pull.pages \in Nat
  BY <1>1, <1>2, <1>3, FS_CardinalityType DEF Pulls
<1>6. Cardinality(ToDeliver \ ids) < Cardinality(ToDeliver)
  BY <1>3, <1>4, <1>5
<1>7. CASE pull.left = NONE
  <2>1. pull.pages = 0
    BY <1>7 DEF PullInv, PhaseInv
  <2> QED BY <1>2, <1>5, <1>6, <2>1
<1>8. CASE pull.left # NONE
  <2>1. pull.pages + Cardinality(ToDeliver) <= Cardinality(Ids)
    BY <1>8 DEF PullInv, PhaseInv, ToDeliver
  <2> QED BY <1>5, <1>6, <2>1
<1> QED BY <1>7, <1>8

LEMMA PageAfter ==
  ASSUME Kinds, NoCutOff, PullInv, At("page"), NEW ids \in SUBSET ToDeliver,
         ids = {} => ToDeliver = {}, NEW left, left = ToDeliver \ ids
  PROVE  /\ AfterPage(left) \in {"page", "masters", "throws"}
         /\ AfterPage(left) = "masters" => left = {}
<1>1. CASE left = {}
  BY <1>1 DEF AfterPage
<1>2. CASE left # {} /\ CapThrows
  BY <1>2 DEF AfterPage
<1>3. CASE left # {} /\ ~CapThrows
  <2>1. IsFiniteSet(Ids) /\ Cardinality(Ids) <= MAX_PAGES
    BY <1>3 DEF NoCutOff
  <2>2. pull.pages + 1 + Cardinality(left) <= Cardinality(Ids)
    BY <1>3, <2>1, PageCount
  <2>3. /\ left \in SUBSET Ids /\ pull.pages \in Nat
    BY ToDeliverIs DEF Pulls
  <2>4. IsFiniteSet(left) /\ Cardinality(left) \in Nat /\ Cardinality(Ids) \in Nat
    BY <2>1, <2>3, FS_Subset, FS_CardinalityType
  <2>5. Cardinality(left) # 0
    BY <1>3, <2>4, FS_EmptySet
  <2>6. pull.pages + 1 # MAX_PAGES
    BY <2>1, <2>2, <2>3, <2>4, <2>5 DEF Kinds
  <2> QED BY <1>3, <2>6 DEF AfterPage
<1> QED BY <1>1, <1>2, <1>3

(* What a pull is after a page, field by field.                                *)
Turned(ids, new) ==
  /\ pull'.pc = AfterPage(ToDeliver \ ids) /\ pull'.left = ToDeliver \ ids
  /\ pull'.pages = pull.pages + 1 /\ pull'.whole = (ToDeliver \ ids = {})
  /\ pull'.at = (IF pull.left = NONE THEN version ELSE pull.at)
  /\ DOMAIN pull'.got = DOMAIN pull.got \cup new
  /\ \A i \in new : pull'.got[i] = remote[i].own
  /\ \A i \in DOMAIN pull.got \ new : pull'.got[i] = pull.got[i]
  /\ pull'.gone = pull.gone \cup (ids \ new)
  /\ pull'.from = pull.from /\ pull'.full = pull.full

LEMMA PageTurned ==
  ASSUME Kinds, NoCutOff, PullInv, Page
  PROVE  \E ids \in SUBSET ToDeliver :
           /\ ids = {} => ToDeliver = {}
           /\ Turned(ids, {i \in ids : Live(i)}) /\ pull' \in Pulls
<1>1. At("page")
  BY DEF Page
<1>2. PICK ids \in SUBSET ToDeliver :
        /\ ids = {} => ToDeliver = {}
        /\ LET left == ToDeliver \ ids
               new  == {i \in ids : Live(i)}
           IN  pull' = [pull EXCEPT
                 !.pc = AfterPage(left), !.left = left, !.pages = @ + 1, !.whole = left = {},
                 !.at = IF pull.left = NONE THEN version ELSE @,
                 !.got = [i \in DOMAIN pull.got \cup new |->
                            IF i \in new THEN remote[i].own ELSE pull.got[i]],
                 !.gone = @ \cup (ids \ new)]
  BY DEF Page
<1> DEFINE left == ToDeliver \ ids
           new == {i \in ids : Live(i)}
           got == [i \in DOMAIN pull.got \cup new |-> IF i \in new THEN remote[i].own ELSE pull.got[i]]
           at == IF pull.left = NONE THEN version ELSE pull.at
<1>3. pull' = [pull EXCEPT !.pc = AfterPage(left), !.left = left, !.pages = pull.pages + 1, !.whole = (left = {}),
                           !.at = at, !.got = got, !.gone = pull.gone \cup (ids \ new)]
  BY <1>2
<1>4. ToDeliver \in SUBSET Ids /\ pull \in Pulls
  BY <1>1, ToDeliverIs
<1>5. AfterPage(left) \in {"page", "masters", "throws"}
  BY <1>1, <1>2, PageAfter
<1>6. got \in Reads
  <2>1. pull.got \in Reads
    BY <1>4 DEF Pulls
  <2>2. DOMAIN pull.got \cup new \in SUBSET Ids
    BY <2>1, <1>4, ReadIs
  <2>3. \A i \in new : remote[i].own \in Titles
    BY <1>4 DEF PullInv, ProviderInv
  <2>4. got \in [DOMAIN pull.got \cup new -> Titles]
    BY <2>1, <2>3, ReadIs
  <2> QED BY <2>2, <2>4, IsRead
<1>7. at \in Nat
  BY <1>4 DEF Pulls, PullInv, ProviderInv
<1> HIDE DEF left, new, got, at
<1>8. /\ pull'.pc = AfterPage(left) /\ pull'.left = left /\ pull'.pages = pull.pages + 1
      /\ pull'.whole = (left = {}) /\ pull'.at = at /\ pull'.got = got
      /\ pull'.gone = pull.gone \cup (ids \ new) /\ pull'.from = pull.from /\ pull'.full = pull.full
  BY <1>3, <1>4 DEF Pulls
<1>9. left \in SUBSET Ids /\ pull.gone \cup (ids \ new) \in SUBSET Ids /\ (left = {}) \in BOOLEAN /\ pull.pages + 1 \in Nat
  BY <1>4 DEF left, new, Pulls
<1>10. pull' \in Pulls
  BY <1>3, <1>4, <1>5, <1>6, <1>7, <1>9 DEF Pulls
<1>11. Turned(ids, new)
  BY <1>8 DEF Turned, left, got, at
<1> QED BY <1>2, <1>10, <1>11 DEF new

(* Before the first page nothing is read, and all there is is still to come.   *)
LEMMA BeforePage ==
  ASSUME Kinds, PullInv, At("page")
  PROVE  /\ pull.left = NONE => DOMAIN pull.got = {} /\ pull.gone = {}
         /\ pull.left # NONE => Begun /\ pull.left = ToDeliver
         /\ DOMAIN pull.got \subseteq Ids /\ pull.gone \subseteq Ids
<1>1. pull \in Pulls
  BY ToDeliverIs
<1>2. DOMAIN pull.got \subseteq Ids /\ pull.gone \subseteq Ids
  BY <1>1, ReadIs DEF Pulls
<1>3. pull.left = NONE => pull.got = <<>> /\ pull.gone = {}
  BY DEF PullInv, PhaseInv
<1>4. pull.left # NONE => Begun /\ pull.left = ToDeliver
  BY DEF At, Begun, ToDeliver
<1> QED BY <1>2, <1>3, <1>4, EmptyRead

LEMMA PageInv ==
  ASSUME Kinds, NoCutOff, PullInv, Page
  PROVE  PullInv'
<1>1. At("page") /\ UNCHANGED <<version, oldest, remote, mirror, token, since>>
  BY DEF Page
<1>2. PICK ids \in SUBSET ToDeliver : /\ ids = {} => ToDeliver = {}
                                      /\ Turned(ids, {i \in ids : Live(i)}) /\ pull' \in Pulls
  BY PageTurned
<1> DEFINE left == ToDeliver \ ids
           new  == {i \in ids : Live(i)}
<1>3. Turned(ids, new) /\ ToDeliver \in SUBSET Ids /\ pull \in Pulls
  BY <1>1, <1>2, ToDeliverIs
<1>4. /\ AfterPage(left) \in {"page", "masters", "throws"}
      /\ AfterPage(left) = "masters" => left = {}
  BY <1>1, <1>2, PageAfter
<1>5. left # NONE
  BY <1>3 DEF Kinds
<1>6. /\ DOMAIN pull.got \subseteq Ids /\ pull.gone \subseteq Ids
      /\ pull.left = NONE => DOMAIN pull.got = {} /\ pull.gone = {}
      /\ pull.left # NONE => Begun /\ pull.left = ToDeliver /\ pull'.at = pull.at
      /\ pull.left = NONE => pull'.at = version
  BY <1>1, <1>3, BeforePage DEF Turned
<1>7. /\ version \in Nat /\ since \in Int /\ since <= version /\ pull'.at \in Nat
      /\ since <= pull'.at /\ pull'.at <= version
  BY <1>2, <1>6 DEF PullInv, ProviderInv, StoreInv, PhaseInv, Pulls
<1>8. PhaseInv'
  <2>1. ~At("idle")' /\ ~At("record")'
    BY <1>3, <1>4 DEF Turned, At
  <2>2. ~pull'.full => pull'.from \in 0..since
    BY <1>1, <1>3 DEF Turned, PullInv, PhaseInv, At
  <2>3. At("masters")' => pull'.left = {} /\ pull'.whole
    BY <1>3, <1>4 DEF Turned, At
  <2>4. At("page")' /\ IsFiniteSet(Ids) => pull'.pages + Cardinality(pull'.left) <= Cardinality(Ids)
    <3>1. SUFFICES ASSUME AfterPage(left) = "page", IsFiniteSet(Ids)
                   PROVE  pull.pages + 1 + Cardinality(left) <= Cardinality(Ids)
      BY <1>3 DEF Turned, At
    <3>2. left # {}
      BY <3>1 DEF AfterPage
    <3> QED BY <1>1, <1>2, <3>1, <3>2, PageCount
  <2>5. pull'.left # NONE
    BY <1>3, <1>5 DEF Turned
  <2>6. pull' = NoPull \/ pull' \in Pulls
    BY <1>2
  <2>7. Pulls' = Pulls /\ since' = since /\ version' = version /\ Ids' = Ids
    BY <1>1 DEF Pulls, Reads, Titles, Ids
  <2> QED BY <1>7, <2>1, <2>2, <2>3, <2>4, <2>5, <2>6, <2>7 DEF PhaseInv, At, Begun, NoPull
<1>9. \A i \in Ids : /\ ChangedAt(i)' = ChangedAt(i) /\ Live(i)' = Live(i) /\ remote'[i] = remote[i]
                     /\ remote[i].at \in 0..version
  BY <1>1, ChangedType DEF ChangedAt, Live, MasterOf, PullInv
<1>10. ASSUME NEW i \in DOMAIN pull'.got \ Series
       PROVE  GotNow(i)'
  <2>1. CASE i \in new
    BY <1>3, <1>9, <2>1 DEF Turned, GotNow, Got
  <2>2. CASE i \in DOMAIN pull.got \ new
    <3>1. GotNow(i) /\ i \in Ids /\ pull'.at = pull.at
      BY <1>6, <1>10, <2>2 DEF PullInv, ReadInv
    <3> QED BY <1>3, <1>9, <2>2, <3>1 DEF Turned, GotNow, Got
  <2> QED BY <1>3, <1>10, <2>1, <2>2 DEF Turned
<1>11. ASSUME NEW s \in DOMAIN pull'.got \cap Series
       PROVE  MasterNow(s)'
  <2>1. CASE s \in new
    BY <1>3, <1>9, <2>1 DEF Turned, MasterNow, Got, Live
  <2>2. CASE s \in DOMAIN pull.got \ new
    <3>1. MasterNow(s) /\ s \in Ids /\ pull'.at = pull.at
      BY <1>6, <1>11, <2>2 DEF PullInv, ReadInv
    <3> QED BY <1>1, <1>3, <2>2, <3>1 DEF Turned, MasterNow, Got
  <2> QED BY <1>3, <1>11, <2>1, <2>2 DEF Turned
<1>12. ASSUME NEW i \in pull'.gone
       PROVE  GoneNow(i)'
  <2>1. CASE i \in ids \ new
    <3>1. i \in Ids /\ ~Live(i)
      BY <1>3, <2>1
    <3>2. i \in Series => ~remote[i].live
      BY <3>1, Masters DEF Live, Kinds
    <3> QED BY <1>9, <3>1, <3>2 DEF GoneNow
  <2>2. CASE i \in pull.gone
    <3>1. GoneNow(i) /\ i \in Ids /\ pull'.at = pull.at
      BY <1>6, <2>2 DEF PullInv, ReadInv
    <3> QED BY <1>9, <3>1 DEF GoneNow
  <2> QED BY <1>3, <1>12, <2>1, <2>2 DEF Turned
<1>13. ASSUME NEW i \in Ids, remote[i].at <= pull'.at, DueIn(i)'
       PROVE  Accounted(i)'
  <2>1. DueIn(i)
    BY <1>1, <1>3, <1>9, <1>13 DEF DueIn, Turned
  <2>2. i \in ToDeliver \/ (pull.left # NONE /\ Accounted(i))
    <3>1. CASE pull.left = NONE
      BY <2>1, <3>1 DEF ToDeliver, DueIn
    <3>2. CASE pull.left # NONE
      BY <1>6, <1>13, <2>1, <3>2 DEF PullInv, ReadInv
    <3> QED BY <3>1, <3>2
  <2>3. CASE i \in DOMAIN pull.got
    BY <1>3, <2>3 DEF Turned, Accounted
  <2>4. CASE ~pull.full /\ i \in pull.gone
    BY <1>3, <2>4 DEF Turned, Accounted
  <2>5. CASE i \in ToDeliver \ ids
    BY <1>3, <2>5 DEF Turned, Accounted
  <2>6. CASE i \in new
    BY <1>3, <2>6 DEF Turned, Accounted
  <2>7. CASE i \in ids \ new
    <3>1. ~pull.full
      BY <2>1, <2>7 DEF DueIn
    <3> QED BY <1>3, <2>7, <3>1 DEF Turned, Accounted
  <2> QED BY <1>6, <2>2, <2>3, <2>4, <2>5, <2>6, <2>7 DEF Accounted
<1>14. ReadInv'
  BY <1>1, <1>10, <1>11, <1>12, <1>13 DEF ReadInv, Ids
<1> QED BY <1>1, <1>8, <1>14, SameProvider, SameStore DEF PullInv

(* Once the pages are read.                                                    *)
LEMMA AllRead ==
  ASSUME Kinds, PullInv, At("masters")
  PROVE  /\ pull \in Pulls /\ Begun /\ pull.left = {} /\ pull.whole
         /\ DOMAIN pull.got \subseteq Ids /\ pull.gone \subseteq Ids /\ pull.full \in BOOLEAN
<1>1. pull \in Pulls /\ pull.left = {} /\ pull.whole
  BY DEF PullInv, PhaseInv, At, NoPull
<1>2. Begun
  BY <1>1 DEF Begun, At, Kinds
<1> QED BY <1>1, <1>2, ReadIs DEF Pulls

(* A master is fetched as it is then: dead, it died after the first page, when  *)
(* an occurrence of it was still there.                                        *)
LEMMA ResolveInv ==
  ASSUME Kinds, PullInv, NEW s \in Series, resolveMaster(s)
  PROVE  PullInv'
<1> DEFINE title == IF remote[s].live THEN remote[s].own ELSE NONE
           got == [i \in DOMAIN pull.got \cup {s} |-> IF i # s THEN pull.got[i] ELSE title]
<1>1. At("masters") /\ s \in Missing /\ UNCHANGED <<version, oldest, remote, mirror, token, since>>
  BY DEF resolveMaster
<1>2. pull \in Pulls /\ Begun /\ DOMAIN pull.got \subseteq Ids /\ pull.gone \subseteq Ids
  BY <1>1, AllRead
<1>3. s \in Ids \ Occurrences /\ s \notin DOMAIN pull.got
  BY <1>1 DEF Missing, Kinds, Ids
<1>4. pull' = [pull EXCEPT !.got = got]
  BY DEF resolveMaster
<1>5. got \in Reads
  <2>1. pull.got \in Reads /\ DOMAIN pull.got \cup {s} \in SUBSET Ids
    BY <1>2, <1>3 DEF Pulls
  <2>2. title \in Titles
    BY <1>3 DEF PullInv, ProviderInv, Titles
  <2>3. got \in [DOMAIN pull.got \cup {s} -> Titles]
    BY <2>1, <2>2, ReadIs
  <2> QED BY <2>1, <2>3, IsRead
<1>6. /\ DOMAIN got = DOMAIN pull.got \cup {s} /\ got[s] = title
      /\ \A i \in DOMAIN pull.got : got[i] = pull.got[i]
  BY <1>3
<1> HIDE DEF got
<1>7. /\ pull' \in Pulls /\ pull'.got = got /\ pull'.pc = pull.pc /\ pull'.from = pull.from
      /\ pull'.full = pull.full /\ pull'.left = pull.left /\ pull'.at = pull.at /\ pull'.pages = pull.pages
      /\ pull'.gone = pull.gone /\ pull'.whole = pull.whole
  BY <1>2, <1>4, <1>5 DEF Pulls
<1>8. PhaseInv'
  <2>1. Pulls' = Pulls /\ Begun' = Begun /\ Ids' = Ids /\ pull'.pc = "masters"
    BY <1>1, <1>7 DEF Pulls, Reads, Titles, Ids, Begun, At
  <2> QED BY <1>1, <1>2, <1>7, <2>1 DEF PullInv, PhaseInv, At, NoPull
<1>9. \A i \in Ids : ChangedAt(i)' = ChangedAt(i) /\ Live(i)' = Live(i) /\ remote'[i] = remote[i]
  BY <1>1 DEF ChangedAt, Live, MasterOf
<1>10. ASSUME NEW i \in DOMAIN got \ Series
       PROVE  GotNow(i)'
  <2>1. i \in DOMAIN pull.got \ Series /\ i \in Ids
    BY <1>2, <1>6, <1>10
  <2>2. GotNow(i)
    BY <1>2, <2>1 DEF PullInv, ReadInv
  <2> QED BY <1>6, <1>7, <1>9, <2>1, <2>2 DEF GotNow, Got
<1>11. ~remote[s].live => remote[s].at > pull.at
  <2>1. PICK i \in DOMAIN pull.got \cap Occurrences : SeriesOf[i] = s
    BY <1>1 DEF Missing
  <2>2. GotNow(i) /\ i \in Ids /\ MasterOf(i) = s
    BY <1>2, <2>1, Masters DEF PullInv, ReadInv, Kinds
  <2>3. remote[i].at \in Nat /\ remote[s].at \in Nat /\ pull.at \in Nat
    BY <1>2, <1>3, <2>2 DEF PullInv, ProviderInv, Pulls
  <2>4. ~remote[s].live => remote[i].at <= remote[s].at
    BY <2>1 DEF PullInv, ProviderInv
  <2> QED BY <2>2, <2>3, <2>4 DEF GotNow, Live, ChangedAt
<1>12. ASSUME NEW r \in DOMAIN got \cap Series
       PROVE  MasterNow(r)'
  <2>1. CASE r = s
    BY <1>1, <1>6, <1>7, <1>11, <2>1 DEF MasterNow, Got
  <2>2. CASE r # s
    <3>1. MasterNow(r) /\ r \in DOMAIN pull.got
      BY <1>2, <1>6, <1>12, <2>2 DEF PullInv, ReadInv
    <3> QED BY <1>1, <1>6, <1>7, <3>1 DEF MasterNow, Got
  <2> QED BY <2>1, <2>2
<1>13. ASSUME NEW i \in pull.gone
       PROVE  GoneNow(i)'
  <2>1. GoneNow(i) /\ i \in Ids
    BY <1>2 DEF PullInv, ReadInv
  <2> QED BY <1>7, <1>9, <2>1 DEF GoneNow
<1>14. ASSUME NEW i \in Ids, remote[i].at <= pull.at, DueIn(i)'
       PROVE  Accounted(i)'
  <2>1. DueIn(i)
    BY <1>1, <1>7, <1>9, <1>14 DEF DueIn
  <2>2. Accounted(i)
    BY <1>2, <1>14, <2>1 DEF PullInv, ReadInv
  <2> QED BY <1>6, <1>7, <2>2 DEF Accounted
<1>15. ReadInv'
  BY <1>1, <1>7, <1>10, <1>12, <1>13, <1>14 DEF ReadInv, Ids
<1> QED BY <1>1, <1>8, <1>15, SameProvider, SameStore DEF PullInv

(* What the store makes of a pull is what the provider shows, or has changed    *)
(* since the first page.                                                       *)
LEMMA Applied ==
  ASSUME Kinds, PullInv, applyMirrorPull, NEW i \in Ids \ Series, ~(ChangedAt(i) > pull.at)
  PROVE  mirror'[i] = Shown(i)
<1> DEFINE s == MasterOf(i)
<1>1. At("masters") /\ Missing = {}
  BY DEF applyMirrorPull
<1>2. /\ pull \in Pulls /\ Begun /\ pull.left = {} /\ DOMAIN pull.got \subseteq Ids
      /\ pull.gone \subseteq Ids /\ pull.full \in BOOLEAN
  BY <1>1, AllRead
<1>3. mirror'[i] = CASE ~pull.full /\ Deleted(i) -> NONE
                     [] i \in Upserts /\ (pull.full \/ ~Deleted(i)) -> enrichFromMaster(i)
                     [] OTHER -> IF pull.full THEN NONE ELSE mirror[i]
  BY DEF applyMirrorPull
<1>4. /\ s \in Ids /\ (i \in Occurrences => s = SeriesOf[i] /\ s \in Series) /\ (i \notin Occurrences => s = i)
  BY Masters
<1>5. /\ remote[i].at \in Nat /\ remote[s].at \in Nat /\ pull.at \in Nat /\ ChangedAt(i) \in Nat
      /\ remote[i].live \in BOOLEAN /\ remote[s].live \in BOOLEAN
  BY <1>2, <1>4, ChangedType DEF PullInv, ProviderInv, Pulls
<1>6. remote[i].at <= pull.at /\ (~remote[s].live => remote[s].at <= pull.at)
  BY <1>4, <1>5 DEF ChangedAt
<1>7. ASSUME i \in DOMAIN pull.got
      PROVE  /\ Live(i) /\ Got(i) = remote[i].own /\ i \in Upserts /\ enrichFromMaster(i) = Shown(i)
  <2>1. Live(i) /\ Got(i) = remote[i].own
    BY <1>2, <1>7 DEF PullInv, ReadInv, GotNow
  <2>2. CASE i \in Occurrences
    <3>1. s \in DOMAIN pull.got \cap Series
      BY <1>1, <1>4, <1>7, <2>2 DEF Missing
    <3>2. MasterNow(s)
      BY <1>2, <3>1 DEF PullInv, ReadInv
    <3>3. Got(s) = remote[s].own
      BY <1>4, <1>5, <1>6, <2>1, <2>2, <3>2 DEF MasterNow, Live
    <3>4. Got(s) # NONE
      BY <1>4, <2>2, <3>3 DEF PullInv, ProviderInv, Kinds
    <3>5. i \in Upserts
      BY <1>4, <1>7, <3>4 DEF Upserts
    <3>6. enrichFromMaster(i) = Shown(i)
      BY <1>4, <2>1, <2>2, <3>3 DEF enrichFromMaster, Shown
    <3> QED BY <2>1, <3>5, <3>6
  <2>3. CASE i \notin Occurrences
    <3>1. i \in Upserts
      BY <1>7, <2>3 DEF Upserts
    <3>2. enrichFromMaster(i) = Shown(i)
      BY <2>1, <2>3 DEF enrichFromMaster, Shown, PullInv, ProviderInv
    <3> QED BY <2>1, <3>1, <3>2
  <2> QED BY <2>2, <2>3
<1>8. CASE pull.full
  <2>1. CASE i \in DOMAIN pull.got
    BY <1>3, <1>7, <1>8, <2>1
  <2>2. CASE i \notin DOMAIN pull.got
    <3>1. ~Live(i)
      BY <1>2, <1>6, <1>8, <2>2 DEF PullInv, ReadInv, DueIn, Accounted
    <3>2. i \notin Upserts
      BY <2>2 DEF Upserts
    <3>3. mirror'[i] = NONE
      BY <1>3, <1>8, <3>2
    <3> QED BY <3>1, <3>3 DEF Shown
  <2> QED BY <2>1, <2>2
<1>9. CASE ~pull.full /\ Deleted(i)
  <2>1. ~Live(i)
    <3>1. i \notin MasterPurges
      BY DEF MasterPurges
    <3>2. CASE i \in pull.gone
      BY <1>2, <3>2 DEF PullInv, ReadInv, GoneNow
    <3>3. CASE s \in pull.gone /\ i \notin pull.gone
      <4>1. s \in Series
        BY <1>4, <3>3
      <4>2. GoneNow(s)
        BY <1>2, <3>3 DEF PullInv, ReadInv
      <4> QED BY <4>1, <4>2 DEF GoneNow, Live
    <3> QED BY <1>9, <3>1, <3>2, <3>3 DEF Deleted
  <2>2. mirror'[i] = NONE
    BY <1>3, <1>9
  <2> QED BY <2>1, <2>2 DEF Shown
<1>10. CASE ~pull.full /\ ~Deleted(i)
  <2>1. CASE i \in DOMAIN pull.got
    BY <1>3, <1>7, <1>10, <2>1
  <2>2. CASE i \notin DOMAIN pull.got
    <3>1. mirror'[i] = mirror[i]
      BY <1>3, <1>10, <2>2 DEF Upserts
    <3>2. i \notin pull.gone /\ s \notin pull.gone
      BY <1>10 DEF Deleted
    <3>3. pull.from \in 0..since /\ since \in Int
      BY <1>1, <1>10 DEF PullInv, PhaseInv, StoreInv, At
    <3>4. SUFFICES ASSUME ChangedAt(i) > since
                   PROVE  FALSE
      BY <3>1, <3>3 DEF PullInv, StoreInv, CompleteSince
    <3>5. CASE i \in Occurrences /\ ~remote[s].live
      <4>1. remote[i].at <= remote[s].at
        BY <1>4, <3>5 DEF PullInv, ProviderInv
      <4>2. remote[s].at > pull.from
        BY <1>4, <1>5, <3>3, <3>4, <4>1 DEF ChangedAt
      <4>3. s \in Series /\ s \notin Occurrences
        BY <1>4, <3>5 DEF Kinds
      <4>4. s \in DOMAIN pull.got
        BY <1>2, <1>4, <1>6, <1>10, <3>2, <3>5, <4>2, <4>3 DEF PullInv, ReadInv, DueIn, Accounted
      <4>5. MasterNow(s)
        BY <1>2, <4>3, <4>4 DEF PullInv, ReadInv
      <4> QED BY <1>5, <1>6, <3>5, <4>5 DEF MasterNow
    <3>6. CASE ~(i \in Occurrences /\ ~remote[s].live)
      <4>1. ChangedAt(i) = remote[i].at
        BY <1>4, <1>5, <3>6 DEF ChangedAt
      <4>2. remote[i].at > pull.from
        BY <1>5, <3>3, <3>4, <4>1
      <4>3. Accounted(i)
        BY <1>2, <1>4, <1>6, <1>10, <3>6, <4>2 DEF PullInv, ReadInv, DueIn
      <4> QED BY <1>2, <2>2, <3>2, <4>3 DEF Accounted
    <3> QED BY <3>5, <3>6
  <2> QED BY <2>1, <2>2
<1> QED BY <1>2, <1>8, <1>9, <1>10

LEMMA ApplyInv ==
  ASSUME Kinds, PullInv, applyMirrorPull
  PROVE  PullInv'
<1>1. /\ At("masters") /\ Missing = {} /\ UNCHANGED <<version, oldest, remote, token>>
      /\ pull' = [pull EXCEPT !.pc = "record"]
  BY DEF applyMirrorPull
<1>2. /\ pull \in Pulls /\ Begun /\ pull.whole /\ DOMAIN pull.got \subseteq Ids /\ pull.at \in Nat
  BY <1>1, AllRead DEF Pulls
<1>3. since' = pull.at /\ since <= pull.at /\ pull.at <= version
  BY <1>2 DEF applyMirrorPull, PullInv, PhaseInv
<1>4. mirror' \in [Ids -> Titles]
  <2>1. \A i \in Upserts : enrichFromMaster(i) \in Titles
    <3>1. ASSUME NEW i \in Upserts
          PROVE  enrichFromMaster(i) \in Titles
      <4>1. i \in DOMAIN pull.got
        BY DEF Upserts
      <4>2. i \in Occurrences => SeriesOf[i] \in DOMAIN pull.got
        BY <1>1, <4>1 DEF Missing
      <4>3. pull.got \in Reads
        BY <1>2 DEF Pulls
      <4> QED BY <4>1, <4>2, <4>3, ReadIs DEF enrichFromMaster, Got
    <3> QED BY <3>1
  <2>2. NONE \in Titles /\ \A i \in Ids : mirror[i] \in Titles
    BY DEF PullInv, StoreInv, Titles
  <2> QED BY <2>1, <2>2 DEF applyMirrorPull
<1>5. CompleteSince'
  <2>1. ASSUME NEW i \in Ids \ Series
        PROVE  mirror'[i] = Shown(i)' \/ ChangedAt(i)' > since'
    <3>1. Shown(i)' = Shown(i) /\ ChangedAt(i)' = ChangedAt(i)
      BY <1>1 DEF Shown, ChangedAt, Live, MasterOf
    <3> QED BY <1>3, <3>1, Applied
  <2>2. token' # NONE => token' <= since'
    <3>1. token # NONE => token <= since /\ token \in Nat
      BY DEF PullInv, StoreInv, CompleteSince, Titles
    <3> QED BY <1>1, <1>2, <1>3, <3>1 DEF PullInv, StoreInv
  <2> QED BY <2>1, <2>2 DEF CompleteSince, Ids
<1>6. StoreInv'
  BY <1>1, <1>2, <1>3, <1>4, <1>5 DEF PullInv, StoreInv, ProviderInv, Titles, Ids
<1>7. /\ pull' \in Pulls /\ pull'.pc = "record" /\ pull'.from = pull.from /\ pull'.full = pull.full
      /\ pull'.at = pull.at /\ pull'.whole = pull.whole
  BY <1>1, <1>2 DEF Pulls
<1>8. ~Begun'
  BY <1>7 DEF Begun
<1>9. PhaseInv'
  <2>1. ~pull'.full => pull'.from \in 0..since'
    <3>1. ~pull.full => pull.from \in 0..since
      BY <1>1 DEF PullInv, PhaseInv, At
    <3>2. since \in Int
      BY DEF PullInv, StoreInv
    <3> QED BY <1>2, <1>3, <1>7, <3>1, <3>2
  <2>2. Pulls' = Pulls
    BY DEF Pulls, Reads, Titles, Ids
  <2> QED BY <1>2, <1>3, <1>7, <1>8, <2>1, <2>2 DEF PhaseInv, At
<1>10. ReadInv'
  BY <1>8 DEF ReadInv
<1> QED BY <1>1, <1>6, <1>9, <1>10, SameProvider DEF PullInv

LEMMA InvNext ==
  ASSUME Kinds, NoCutOff
  PROVE  PullInv /\ [PullNext]_pullVars => PullInv'
<1> SUFFICES ASSUME PullInv, [PullNext]_pullVars
             PROVE  PullInv'
  OBVIOUS
<1>1. ASSUME NEW forceFullResync \in BOOLEAN, pullChanges(forceFullResync)
      PROVE  PullInv'
  BY <1>1, PullChangesInv
<1>2. CASE Gone410
  BY <1>2, Gone410Inv
<1>3. CASE Page
  BY <1>3, PageInv
<1>4. CASE applyMirrorPull
  BY <1>4, ApplyInv
<1>5. CASE recordSyncSuccess
  BY <1>5, RecordInv
<1>6. CASE Fails
  BY <1>6, FailsInv
<1>7. CASE TokensExpire
  BY <1>7, TokensExpireInv
<1>8. ASSUME NEW s \in Series, resolveMaster(s)
      PROVE  PullInv'
  BY <1>8, ResolveInv
<1>9. ASSUME NEW s \in Series, EditSeries(s)
      PROVE  PullInv'
  BY <1>9, SeriesMoves, MovesInv DEF PullInv
<1>10. ASSUME NEW i \in Ids, EditEvent(i)
       PROVE  PullInv'
  BY <1>10, EditMoves, MovesInv DEF PullInv
<1>11. ASSUME NEW i \in Ids, DeleteEvent(i)
       PROVE  PullInv'
  BY <1>11, DeleteMoves, MovesInv DEF PullInv
<1>12. CASE UNCHANGED pullVars
  <2>1. UNCHANGED <<version, oldest, remote, mirror, token, since>> /\ pull' = pull
    BY <1>12 DEF pullVars
  <2>2. PhaseInv'
    BY <2>1 DEF PullInv, PhaseInv, At, Begun, Pulls, Reads, Titles, Ids
  <2>3. ReadInv'
    BY <2>1 DEF PullInv, ReadInv, Begun, GotNow, MasterNow, GoneNow, DueIn, Accounted, ChangedAt, Live,
                MasterOf, Got, Ids
  <2> QED BY <2>1, <2>2, <2>3, SameProvider, SameStore DEF PullInv
<1> QED BY <1>1, <1>2, <1>3, <1>4, <1>5, <1>6, <1>7, <1>8, <1>9, <1>10, <1>11, <1>12 DEF PullNext
-----------------------------------------------------------------------------
(* ------------------------------------------------------- the theorems *)
(* The provider, the rows, the token and the pull keep their types, whatever    *)
(* the calendar.                                                               *)
THEOREM TypeCorrect ==
  ASSUME Kinds, NoCutOff
  PROVE  PullSpec => []PullTypeOK
<1>1. PullInit => PullInv
  BY InitInv
<1>2. PullInv /\ [PullNext]_pullVars => PullInv'
  BY InvNext
<1>3. PullInv => PullTypeOK
  BY DEF PullInv, ProviderInv, StoreInv, PhaseInv, PullTypeOK, Pulls, NoPull, At
<1> QED BY <1>1, <1>2, <1>3, PTL DEF PullSpec

(* Whatever order the pages of a series come in, whatever is edited or deleted  *)
(* between two of them and whatever fails, the mirror shows every event as the  *)
(* provider did at the version it is complete up to or as it has changed since, *)
(* and the next pull starts no later (m365/calendar-provider.ts:20-37,          *)
(* modules/calendar/mirror-store.ts:36-50).                                     *)
THEOREM MirrorComplete ==
  ASSUME Kinds, NoCutOff
  PROVE  PullSpec => []CompleteSince
<1>1. PullInit => PullInv
  BY InitInv
<1>2. PullInv /\ [PullNext]_pullVars => PullInv'
  BY InvNext
<1>3. PullInv => CompleteSince
  BY DEF PullInv, StoreInv
<1> QED BY <1>1, <1>2, <1>3, PTL DEF PullSpec

(* Only applying a pull takes a row away, and only the row of an event that is  *)
(* gone or has changed since the first page; a master that was delivered has no *)
(* row afterwards (google/calendar-provider.ts:168-182).                        *)
LEMMA StepKeeps ==
  ASSUME Kinds, PullInv, [PullNext]_pullVars
  PROVE  PullStep
<1>1. CASE applyMirrorPull
  <2>1. ASSUME NEW i \in Ids \ Series, mirror[i] # NONE, mirror'[i] = NONE
        PROVE  ~Live(i) \/ ChangedAt(i) > pull.at
    <3>1. SUFFICES ASSUME Live(i), ~(ChangedAt(i) > pull.at)
                   PROVE  FALSE
      OBVIOUS
    <3>2. Shown(i) = NONE
      BY <1>1, <2>1, <3>1, Applied
    <3>3. i \in Occurrences => MasterOf(i) \in Ids \ Occurrences
      BY Masters DEF Kinds
    <3>4. remote[i].own # NONE \/ i \in Occurrences
      BY DEF PullInv, ProviderInv
    <3>5. Shown(i) # NONE
      BY <3>1, <3>3, <3>4 DEF Shown, PullInv, ProviderInv
    <3> QED BY <3>2, <3>5
  <2>2. ASSUME NEW s \in MasterPurges
        PROVE  mirror'[s] = NONE
    <3>1. s \in Ids /\ s \in Series
      BY <1>1, AllRead DEF MasterPurges, applyMirrorPull
    <3>2. s \notin Upserts /\ Deleted(s)
      BY <3>1 DEF Upserts, Deleted
    <3>3. pull.full \in BOOLEAN
      BY <1>1, AllRead DEF applyMirrorPull
    <3> QED BY <1>1, <3>1, <3>2, <3>3 DEF applyMirrorPull
  <2> QED BY <2>1, <2>2 DEF PullStep
<1>2. CASE ~applyMirrorPull
  <2>1. mirror' = mirror
    BY <1>2 DEF PullNext, pullVars, pullChanges, Gone410, Page, recordSyncSuccess, Fails, TokensExpire,
                resolveMaster, EditSeries, EditEvent, DeleteEvent, Changed
  <2> QED BY <2>1 DEF PullStep
<1> QED BY <1>1, <1>2

(* No step takes away the row of an event the provider still has, and none      *)
(* leaves the row of a master it was delivered: the action property of the      *)
(* three instances, for any calendar.                                           *)
THEOREM RowsKept ==
  ASSUME Kinds, NoCutOff
  PROVE  PullSpec => [][PullStep]_pullVars
<1>1. PullInit => PullInv
  BY InitInv
<1>2. PullInv /\ [PullNext]_pullVars => PullInv'
  BY InvNext
<1>3. PullInv /\ [PullNext]_pullVars => [PullStep]_pullVars
  BY StepKeeps
<1> QED BY <1>1, <1>2, <1>3, PTL DEF PullSpec
=============================================================================
