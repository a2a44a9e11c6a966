------------------------------ MODULE MirrorPull ------------------------------
(* One pull of a feed from the inside: the pages of m365/calendar-provider.ts,     *)
(* google/calendar-provider.ts and google/task-provider.ts, and what the store      *)
(* makes of them. Outlook delivers a series in pieces: a master with the title, and *)
(* occurrences that say only what is their own. Google delivers whole events.       *)
(*                                                                                *)
(* The provider numbers its changes. A pull is of the changes before its first page, *)
(* and a page shows its items as they are when it is read. A change of a series    *)
(* delivers all of it, but a master may also be delivered alone.                   *)
EXTENDS Integers, FiniteSets

CONSTANTS NONE,
          Events,        \* single events, or tasks
          Occurrences, Series, SeriesOf,
          Delta,         \* whether there are tokens to pull from
          CapThrows,     \* whether a pull past MAX_PAGES throws, or returns what it has
          PAGE_SIZE, MAX_PAGES,
          MaxVersion     \* bound: changes at the provider

VARIABLES version, oldest, remote,   \* the provider; tokens before oldest are gone (410)
          mirror,                    \* the title of the rows, by external id
          token, pull,
          since                      \* the version the mirror is complete up to

Ids      == Events \cup Occurrences \cup Series
pullVars == <<version, oldest, remote, mirror, token, pull, since>>
-----------------------------------------------------------------------------
MasterOf(i) == IF i \in Occurrences THEN SeriesOf[i] ELSE i
Live(i)     == remote[i].live /\ remote[MasterOf(i)].live

(* What a member sees at the provider. *)
Shown(i) ==
  IF i \in Series \/ ~Live(i) THEN NONE
  ELSE IF remote[i].own = NONE THEN remote[MasterOf(i)].own ELSE remote[i].own

ChangedAt(i) ==
  IF ~remote[MasterOf(i)].live /\ remote[MasterOf(i)].at > remote[i].at THEN remote[MasterOf(i)].at ELSE remote[i].at

NoPull == [pc |-> "idle"]
At(pc) == pull.pc = pc

Start(since0, full) ==
  [pc |-> "page", from |-> since0, full |-> full, left |-> NONE, at |-> 0, pages |-> 0,
   got |-> <<>>, gone |-> {}, whole |-> TRUE]

PullInit ==
  /\ version = 0 /\ oldest = 0
  /\ remote = [i \in Ids |-> [at |-> 0, live |-> TRUE, own |-> IF i \in Occurrences THEN NONE ELSE 0]]
  /\ mirror \in [Ids -> {NONE} \cup {0}] /\ \A i \in Ids \ Series : mirror[i] = NONE
  /\ token = NONE /\ since = -1 /\ pull = NoPull
-----------------------------------------------------------------------------
(* Without a token, or when a full pull is due, everything there is. *)
pullChanges(forceFullResync) ==
  /\ At("idle")
  /\ pull' = IF Delta /\ token # NONE /\ ~forceFullResync THEN Start(token, FALSE) ELSE Start(NONE, TRUE)
  /\ UNCHANGED <<version, oldest, remote, mirror, token, since>>

(* Expired: the whole window, from the start. *)
Gone410 ==
  /\ At("page") /\ pull.from \in 0..(oldest - 1)
  /\ pull' = Start(NONE, TRUE)
  /\ UNCHANGED <<version, oldest, remote, mirror, token, since>>

(* A deleted series has one tombstone, its master's. *)
ToDeliver ==
  IF pull.left # NONE THEN pull.left
  ELSE {i \in Ids : IF pull.full THEN Live(i)
                    ELSE remote[i].at > pull.from /\ (i \in Occurrences => remote[SeriesOf[i]].live)}

\* Seeded fault: past the cap every provider returns what it has.
ReturnsPartial(left) == IF left = {} THEN "masters" ELSE IF pull.pages + 1 = MAX_PAGES THEN "masters" ELSE "page"

AfterPage(left) ==
  CASE left = {} -> "masters"
    [] left # {} /\ pull.pages + 1 = MAX_PAGES -> IF CapThrows THEN "throws" ELSE "masters"
    [] OTHER -> "page"

Page ==
  /\ At("page") /\ pull.from \in {NONE} \cup oldest..version
  /\ \E ids \in SUBSET ToDeliver :
       /\ Cardinality(ids) <= PAGE_SIZE /\ (ids = {} => ToDeliver = {})
       /\ LET left == ToDeliver \ ids
              new  == {i \in ids : Live(i)}
          IN  pull' = [pull EXCEPT
                !.pc = AfterPage(left), !.left = left, !.pages = @ + 1, !.whole = left = {},
                !.at = IF pull.left = NONE THEN version ELSE @,
                !.got = [i \in DOMAIN pull.got \cup new |->
                           IF i \in new THEN remote[i].own ELSE pull.got[i]],
                !.gone = @ \cup (ids \ new)]
  /\ UNCHANGED <<version, oldest, remote, mirror, token, since>>

(* The masters of what was delivered that were not delivered themselves: fetched one *)
(* by one, and NONE for a 404.                                                    *)
Missing == {SeriesOf[i] : i \in DOMAIN pull.got \cap Occurrences} \ DOMAIN pull.got

resolveMaster(s) ==
  /\ At("masters") /\ s \in Missing
  /\ pull' = [pull EXCEPT !.got = [i \in DOMAIN @ \cup {s} |->
                IF i # s THEN pull.got[i] ELSE IF remote[s].live THEN remote[s].own ELSE NONE]]
  /\ UNCHANGED <<version, oldest, remote, mirror, token, since>>

Got(i) == pull.got[i]

\* Seeded fault: an occurrence is mirrored with what it says itself.
OwnOnly(i) == IF i \in Occurrences /\ Got(i) = NONE THEN 0 ELSE Got(i)

(* An occurrence has its own title or its master's. *)
enrichFromMaster(i) == IF i \in Occurrences /\ Got(i) = NONE THEN Got(SeriesOf[i]) ELSE Got(i)

(* Masters are not displayed; an occurrence whose master is gone is skipped. *)
Upserts == {i \in DOMAIN pull.got \ Series : i \in Occurrences => Got(SeriesOf[i]) # NONE}

(* The masters that were delivered alive: purged by their own id, in case a row of   *)
(* theirs was mirrored once.                                                       *)
MasterPurges == DOMAIN pull.got \cap Series

\* Seeded fault: a live master is purged with its occurrences.
PurgesCascade(i) == {i, MasterOf(i)} \cap (pull.gone \cup MasterPurges) # {}

(* Tombstones cascade over the series, purges do not. *)
Deleted(i) == {i, MasterOf(i)} \cap pull.gone # {} \/ i \in MasterPurges

applyMirrorPull ==
  /\ At("masters") /\ Missing = {}
  /\ mirror' = [i \in Ids |->
       CASE ~pull.full /\ Deleted(i) -> NONE
         [] i \in Upserts /\ (pull.full \/ ~Deleted(i)) -> enrichFromMaster(i)
         [] OTHER -> IF pull.full THEN NONE ELSE mirror[i]]
  /\ pull' = [pull EXCEPT !.pc = "record"]
  /\ since' = IF pull.whole THEN pull.at ELSE since
  /\ UNCHANGED <<version, oldest, remote, token>>

\* Seeded fault: the token is of the last page.
TokenOfLastPage == version

(* The token is of the first page; a pull that was cut off has none. *)
NextToken == IF Delta /\ pull.whole THEN pull.at ELSE NONE

recordSyncSuccess ==
  /\ At("record")
  /\ token' = NextToken
  /\ pull' = NoPull
  /\ UNCHANGED <<version, oldest, remote, mirror, since>>

(* A request, the transaction or the store fails; or the cap throws. *)
Fails ==
  /\ ~At("idle") /\ pull' = NoPull
  /\ UNCHANGED <<version, oldest, remote, mirror, token, since>>
-----------------------------------------------------------------------------
Changed(ids, how(_)) ==
  /\ version < MaxVersion /\ version' = version + 1
  /\ remote' = [i \in Ids |-> IF i \in ids THEN how(i) ELSE remote[i]]
  /\ UNCHANGED <<oldest, mirror, token, pull, since>>

Renamed(i) == [at |-> version + 1, live |-> TRUE, own |-> version + 1]
Dropped(i) == [remote[i] EXCEPT !.at = version + 1, !.live = FALSE]
Touched(i) == [remote[i] EXCEPT !.at = version + 1]

EditEvent(i) == i \in Events \cup Occurrences /\ remote[MasterOf(i)].live /\ Changed({i}, Renamed)
DeleteEvent(i) == Live(i) /\ Changed({i}, Dropped)

(* A new title is delivered with every occurrence; a series may be redelivered alone. *)
EditSeries(s) ==
  /\ remote[s].live
  /\ \/ Changed({s} \cup {i \in Occurrences : SeriesOf[i] = s},
                LAMBDA i : IF i = s THEN Renamed(i) ELSE Touched(i))
     \/ Changed({s}, Touched)

TokensExpire ==
  /\ Delta /\ oldest < version /\ oldest' = version
  /\ UNCHANGED <<version, remote, mirror, token, pull, since>>

PullNext ==
  \/ \E forceFullResync \in BOOLEAN : pullChanges(forceFullResync)
  \/ Gone410 \/ Page \/ applyMirrorPull \/ recordSyncSuccess \/ Fails \/ TokensExpire
  \/ \E s \in Series : resolveMaster(s) \/ EditSeries(s)
  \/ \E i \in Ids : EditEvent(i) \/ DeleteEvent(i)

PullSpec == PullInit /\ [][PullNext]_pullVars
-----------------------------------------------------------------------------
Titles == {NONE} \cup 0..MaxVersion

PullTypeOK ==
  /\ version \in 0..MaxVersion /\ oldest \in 0..version
  /\ remote \in [Ids -> [at : 0..version, live : BOOLEAN, own : Titles]]
  /\ mirror \in [Ids -> Titles] /\ token \in Titles /\ since \in -1..version
  /\ pull.pc \in {"idle", "page", "masters", "throws", "record"}

(* The mirror has every event as the provider showed it at the last pull or shows it *)
(* since, and the next pull starts no later than that: whatever order the pages of a *)
(* series come in, and whatever happens to it before they have been read             *)
(* (m365/calendar-provider.ts:20-37, modules/calendar/mirror-store.ts:36-50).       *)
CompleteSince ==
  /\ \A i \in Ids \ Series : since >= 0 => mirror[i] = Shown(i) \/ ChangedAt(i) > since
  /\ token # NONE => token <= since

(* A row goes with its event, unless a pull finds the event changed under it; and the *)
(* row of a master goes when the master is delivered. A pull that was cut off does    *)
(* not pass for a complete one (google/calendar-provider.ts:168-182).               *)
PullStep ==
  /\ \A i \in Ids \ Series :
       mirror[i] # NONE /\ mirror'[i] = NONE => ~Live(i) \/ ChangedAt(i) > pull.at
  /\ At("masters") /\ mirror' # mirror => \A s \in MasterPurges : mirror'[s] = NONE
=============================================================================
