------------------------------ MODULE LibrarySync ------------------------------
(***************************************************************************)
(* The library: what a member's Trakt or LibraryThing account holds, copied *)
(* into library_items by a sync or, for LibraryThing, from an export file  *)
(* (modules/library/service.ts and its connectors).                        *)
(*                                                                         *)
(* Nothing keeps two syncs of a connection apart.  Their transactions meet *)
(* at the rows they write: a row is locked until the writer commits, and   *)
(* what it wrote is not seen before.                                       *)
(***************************************************************************)
EXTENDS Integers, FiniteSets

CONSTANTS Titles,     \* what an account can hold
          Trakt,      \* whether it is a Trakt account, with tokens that rotate
          Procs,      \* requests in flight
          MaxToken,   \* bound: refreshes of the tokens
          NONE

VARIABLES account,    \* what the account holds
          valid,      \* the refresh token the service accepts, and whether its access token still is
          conn,       \* the connection row, NONE without one
          items,      \* its committed library_items
          job         \* what each request is doing

libraryVars == <<account, valid, conn, items, job>>
-----------------------------------------------------------------------------
Statuses == {"active", "needs_reauth", "error"}
Connection == [status : Statuses, token : 0..MaxToken, count : Nat]

Stages == {"fetch", "pages", "write", "sweep", "delete", "commit"}

LibraryTypeOK ==
  /\ account \subseteq Titles /\ items \subseteq Titles
  /\ valid \in [token : 0..MaxToken, fresh : BOOLEAN]
  /\ conn \in Connection \cup {NONE}
  /\ conn = NONE => items = {} /\ \A p \in Procs : job[p] = NONE
  /\ \A p \in Procs : job[p] # NONE => job[p].pc \in Stages /\ job[p].wrote \subseteq Titles

LibraryInit ==
  /\ account \in SUBSET Titles /\ valid = [token |-> 0, fresh |-> TRUE]
  /\ conn = NONE /\ items = {} /\ job = [p \in Procs |-> NONE]
-----------------------------------------------------------------------------
At(p, pc)  == job[p] # NONE /\ job[p].pc = pc
Does(p, j) == job' = [job EXCEPT ![p] = j]
Ends(p)    == Does(p, NONE)

(* The rows a transaction holds. *)
Holds(p) == IF job[p] = NONE THEN {} ELSE job[p].wrote \cup job[p].deleted
Free(p, t) == \A q \in Procs \ {p} : t \notin Holds(q)

Marked(status) == [conn EXCEPT !.status = status]
-----------------------------------------------------------------------------
(* createLibraryThingConnection, or the device flow, which renews the tokens of  *)
(* the connection there is.                                                      *)
Connect ==
  /\ conn = NONE \/ Trakt
  /\ IF Trakt THEN valid.token < MaxToken /\ valid' = [token |-> valid.token + 1, fresh |-> TRUE]
              ELSE UNCHANGED valid
  /\ conn' = [status |-> "active", token |-> valid'.token, count |-> IF conn = NONE THEN 0 ELSE conn.count]
  /\ UNCHANGED <<account, items, job>>

(* deleteConnection, its items with it; it waits for transactions on them, and a *)
(* sync that has written nothing yet has nothing left to write to.               *)
Delete ==
  /\ conn # NONE /\ \A p \in Procs : Holds(p) = {} /\ ~At(p, "commit")
  /\ conn' = NONE /\ items' = {} /\ job' = [p \in Procs |-> NONE]
  /\ UNCHANGED <<account, valid>>

StartSync(p) ==
  /\ job[p] = NONE /\ conn # NONE
  /\ Does(p, [pc |-> "fetch", token |-> conn.token, got |-> {}, wrote |-> {}, deleted |-> {}, rotated |-> FALSE])
  /\ UNCHANGED <<account, valid, conn, items>>

(* The probe: an access token that is no longer accepted is refreshed, which spends  *)
(* the refresh token; when that is not the current one the member has to connect anew.*)
Probe(p) ==
  /\ At(p, "fetch")
  /\ LET mine == job[p].token = valid.token
     IN  IF ~Trakt \/ (mine /\ valid.fresh)
         THEN Does(p, [job[p] EXCEPT !.pc = "pages"]) /\ UNCHANGED <<valid, conn>>
         ELSE IF mine
         THEN /\ valid.token < MaxToken
              /\ valid' = [token |-> valid.token + 1, fresh |-> TRUE]
              /\ Does(p, [job[p] EXCEPT !.pc = "pages", !.token = valid.token + 1, !.rotated = TRUE])
              /\ UNCHANGED conn
         ELSE conn' = Marked("needs_reauth") /\ Ends(p) /\ UNCHANGED valid
  /\ UNCHANGED <<account, items>>

(* The account is read.  Bound: every page of a Trakt account answers; one that does   *)
(* not is taken for empty, and what it would have held is deleted as vanished.        *)
Pages(p) ==
  /\ At(p, "pages")
  /\ IF ~Trakt /\ account = {}
     THEN conn' = Marked("needs_reauth") /\ Ends(p)  \* an empty payload counts as a broken endpoint
     ELSE Does(p, [job[p] EXCEPT !.pc = "write", !.got = account]) /\ UNCHANGED conn
  /\ UNCHANGED <<account, valid, items>>

FetchFails(p) ==
  /\ At(p, "fetch") \/ At(p, "pages")
  /\ conn' = Marked(IF Trakt THEN "error" ELSE "needs_reauth") /\ Ends(p)
  /\ UNCHANGED <<account, valid, items>>

(* The transaction's upserts, one by one, in the order of the payload. *)
Upsert(p) ==
  /\ At(p, "write")
  /\ \E t \in job[p].got \ job[p].wrote :
       Free(p, t) /\ Does(p, [job[p] EXCEPT !.wrote = @ \cup {t}])
  /\ UNCHANGED <<account, valid, conn, items>>

Upserted(p) ==
  /\ At(p, "write") /\ job[p].wrote = job[p].got
  /\ Does(p, [job[p] EXCEPT !.pc = "sweep"])
  /\ UNCHANGED <<account, valid, conn, items>>

NotOfTheAccount(p) == (items \cup job[p].wrote) \ account  \* seeded fault: compares with another reading of the account

Vanished(p) == (items \cup job[p].wrote) \ job[p].got

(* Then it reads what is there and deletes what it did not see. *)
Sweep(p) ==
  /\ At(p, "sweep")
  /\ Does(p, [pc |-> "delete", doomed |-> Vanished(p), token |-> job[p].token, got |-> job[p].got,
              wrote |-> job[p].wrote, deleted |-> {}, rotated |-> job[p].rotated])
  /\ UNCHANGED <<account, valid, conn, items>>

DeleteVanished(p) ==
  /\ At(p, "delete")
  /\ IF job[p].doomed \subseteq job[p].deleted
     THEN Does(p, [job[p] EXCEPT !.pc = "commit"])
     ELSE \E t \in job[p].doomed \ job[p].deleted :
            Free(p, t) /\ Does(p, [job[p] EXCEPT !.deleted = @ \cup {t}])
  /\ UNCHANGED <<account, valid, conn, items>>

Stored(p) ==
  [status |-> "active", count |-> Cardinality(job[p].got),
   token |-> IF job[p].rotated THEN job[p].token ELSE conn.token]

(* Commits, with the tokens that were rotated. *)
Commit(p) ==
  /\ At(p, "commit") /\ Ends(p)
  /\ conn' = Stored(p) /\ items' = (items \cup job[p].wrote) \ job[p].deleted
  /\ UNCHANGED <<account, valid>>

(* Two transactions that wait for each other: the database ends one. *)
Waits(p, q) ==
  \/ At(p, "write") /\ (job[p].got \ job[p].wrote) \cap Holds(q) # {}
  \/ At(p, "delete") /\ (job[p].doomed \ job[p].deleted) \cap Holds(q) # {}

Deadlocked(p) ==
  /\ \E q \in Procs \ {p} : Waits(p, q) /\ Waits(q, p)
  /\ Ends(p)
  /\ UNCHANGED <<account, valid, conn, items>>

(* importFile replaces the items in one transaction; a conflict with a writer fails it. *)
importFile(ts) ==
  /\ conn # NONE /\ ~Trakt /\ ts # {}
  /\ \A p \in Procs : Holds(p) = {}
  /\ items' = ts
  /\ conn' = [conn EXCEPT !.status = "active", !.count = Cardinality(ts)]
  /\ UNCHANGED <<account, valid, job>>
-----------------------------------------------------------------------------
(* The member buys or gives away; an access token expires; the process stops. *)
AccountChanges(ts) == account # ts /\ account' = ts /\ UNCHANGED <<valid, conn, items, job>>

Expire == Trakt /\ valid.fresh /\ valid' = [valid EXCEPT !.fresh = FALSE] /\ UNCHANGED <<account, conn, items, job>>

StopLibrary ==
  /\ \E p \in Procs : job[p] # NONE
  /\ job' = [p \in Procs |-> NONE]
  /\ UNCHANGED <<account, valid, conn, items>>

LibraryNext ==
  \/ Connect \/ Delete \/ Expire \/ StopLibrary
  \/ \E ts \in SUBSET Titles : importFile(ts) \/ AccountChanges(ts)
  \/ \E p \in Procs : \/ StartSync(p) \/ Probe(p) \/ Pages(p) \/ FetchFails(p) \/ Upsert(p)
                      \/ Upserted(p) \/ Sweep(p) \/ DeleteVanished(p) \/ Commit(p) \/ Deadlocked(p)

LibrarySpec == LibraryInit /\ [][LibraryNext]_libraryVars
-----------------------------------------------------------------------------
(* When a sync commits, everything it fetched is in the library, whatever other   *)
(* syncs deleted meanwhile, and nothing goes that it had fetched; a row goes only *)
(* with its connection, to a file, or by a sync that did not find it              *)
(* (service.ts:139-162).                                                          *)
LibraryStep ==
  conn # NONE /\ conn' # NONE =>
    /\ \A p \in Procs : At(p, "commit") /\ job'[p] = NONE /\ items' # items => job[p].got \subseteq items'
    /\ (\E p \in Procs : At(p, "commit") /\ job'[p] = NONE) =>
         \A t \in items \ items' : \E p \in Procs : At(p, "commit") /\ t \notin job[p].got
=============================================================================
