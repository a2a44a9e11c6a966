------------------------------- MODULE FeedSync -------------------------------
(***************************************************************************)
(* One provider feed and its mirror: integrations/sync-runner.ts, the sync *)
(* state of integrations/store.ts, applyMirrorPull / applyTaskPull, the    *)
(* two allowlists, and the write-back of tasks.                            *)
(*                                                                         *)
(* The feed is a Google calendar or a Microsoft To Do list (kind), the two *)
(* that pull with a token.  The provider numbers its changes: version is   *)
(* the last one, remote[i].at the one that last touched item i, and a token*)
(* is the version it was handed out at.  A title stands for all content a  *)
(* task's completion does not touch; it is the version that wrote it.      *)
(***************************************************************************)
EXTENDS Integers, FiniteSets

CONSTANTS Items,       \* items of the feed
          Passes,      \* who runs a pass: the scheduler, the manual trigger
          Kinds,       \* kinds of feed an instance covers
          Races,       \* which races the code leaves open an instance admits
          MaxVersion,  \* bound: changes at the provider
          NONE

ASSUME FeedAssumption ==
  /\ Kinds \subseteq {"calendar", "tasks"}
  /\ Races \subseteq {"passes", "deselect", "designate", "write", "reselect"}
  /\ MaxVersion \in Nat
  /\ NONE \notin Nat \cup {"complete", "create"}
  /\ NONE \notin [title : 0..MaxVersion, done : BOOLEAN, family : BOOLEAN]

VARIABLES kind,
          version, oldest, remote,   \* the provider; tokens before oldest are gone (410)
          conn,       \* the member's connection: none, active, reauth
          selected, household,       \* the allowlist row, and its is_household
          mirror,     \* the mirrored rows of the feed
          state,      \* integration_sync_state: token, whether a full pull is due
          pass,       \* what each pass is doing
          write       \* a task write between the provider's answer and the mirror

provider == <<version, oldest, remote>>
setup    == <<conn, selected, household>>
vars     == <<kind, provider, setup, mirror, state, pass, write>>
-----------------------------------------------------------------------------
Rows     == [title : 0..MaxVersion, done : BOOLEAN, family : BOOLEAN]
Tokens   == 0..MaxVersion \cup {NONE}
NoState  == [token |-> NONE, due |-> TRUE, failing |-> FALSE]
NoPass   == [pc |-> "idle", token |-> NONE, full |-> FALSE, rows |-> <<>>]
NoWrite  == [op |-> NONE]
Writes   == [op : {"complete", "create"}, item : Items, row : Rows]

TypeOK ==
  /\ kind \in Kinds
  /\ version \in 0..MaxVersion /\ oldest \in 0..version
  /\ remote \in [Items -> [at : 0..version, title : 0..version, done : BOOLEAN, live : BOOLEAN]]
  /\ conn \in {"none", "active", "reauth"}
  /\ selected \in BOOLEAN /\ household \in BOOLEAN
  /\ mirror \in [Items -> Rows \cup {NONE}]
  /\ state \in [token : Tokens, due : BOOLEAN, failing : BOOLEAN]
  /\ state.token # NONE => state.token <= version
  /\ pass \in [Passes -> [pc : {"idle", "pull", "apply", "record", "failed"}, token : Tokens,
                          full : BOOLEAN, rows : UNION {[D -> Rows \cup {NONE}] : D \in SUBSET Items}]]
  /\ write \in Writes \cup {NoWrite}

Init ==
  /\ kind \in Kinds
  /\ version = 0 /\ oldest = 0
  /\ remote = [i \in Items |-> [at |-> 0, title |-> 0, done |-> FALSE, live |-> FALSE]]
  /\ conn = "none" /\ selected = FALSE /\ household = FALSE
  /\ mirror = [i \in Items |-> NONE]
  /\ state = NoState
  /\ pass = [w \in Passes |-> NoPass] /\ write = NoWrite

InFlight   == \E w \in Passes : pass[w].pc # "idle"
Pending(i) == write # NoWrite /\ write.item = i
-----------------------------------------------------------------------------
(* A pass over the feed: syncOneFeed, pullChanges, applyMirrorPull/TaskPull. *)

SyncStarts(w) ==
  /\ pass[w].pc = "idle" /\ selected /\ conn = "active"
  /\ InFlight => "passes" \in Races
  /\ pass' = [pass EXCEPT ![w] = [NoPass EXCEPT !.pc = "pull", !.token = state.token,
                                                !.full = state.due \/ state.token = NONE]]
  /\ UNCHANGED <<kind, provider, setup, mirror, state, write>>

(* A connection that needs consent again is a failure, and is not retried. *)
SyncRefused ==
  /\ selected /\ conn = "reauth"
  /\ state' = [state EXCEPT !.failing = TRUE]
  /\ UNCHANGED <<kind, provider, setup, mirror, pass, write>>

RowOf(i) == IF remote[i].live
            THEN [title |-> remote[i].title, done |-> remote[i].done,
                  family |-> kind = "calendar" /\ household]
            ELSE NONE

(* Everything there is, or what changed after the token, tombstones included. *)
Pulled(full, token) ==
  [i \in {j \in Items : IF full THEN remote[j].live ELSE remote[j].at > token} |-> RowOf(i)]

CanPull(w) ==
  /\ pass[w].pc = "pull" /\ conn = "active"
  /\ kind = "calendar" => selected

(* Seeded fault: a token the provider no longer knows is an error like any other. *)
PullGoneThrows(w) ==
  /\ CanPull(w)
  /\ pass' = IF ~pass[w].full /\ pass[w].token < oldest
             THEN [pass EXCEPT ![w] = [NoPass EXCEPT !.pc = "failed"]]
             ELSE [pass EXCEPT ![w] = [pc |-> "apply", token |-> version, full |-> pass[w].full,
                                       rows |-> Pulled(pass[w].full, pass[w].token)]]
  /\ UNCHANGED <<kind, provider, setup, mirror, state, write>>

(* Seeded fault: a delta is reported as a full snapshot. *)
PullAlwaysFull(w) ==
  /\ CanPull(w)
  /\ LET full == pass[w].full \/ pass[w].token < oldest
     IN  pass' = [pass EXCEPT ![w] = [pc |-> "apply", token |-> version, full |-> TRUE,
                                      rows |-> Pulled(full, pass[w].token)]]
  /\ UNCHANGED <<kind, provider, setup, mirror, state, write>>

Pull(w) ==
  /\ CanPull(w)
  /\ LET full == pass[w].full \/ pass[w].token < oldest
     IN  pass' = [pass EXCEPT ![w] = [pc |-> "apply", token |-> version, full |-> full,
                                      rows |-> Pulled(full, pass[w].token)]]
  /\ UNCHANGED <<kind, provider, setup, mirror, state, write>>

(* The refresh token is refused: getAccessToken marks the connection. *)
PullUnauthorised(w) ==
  /\ pass[w].pc = "pull" /\ conn = "active"
  /\ conn' = "reauth"
  /\ pass' = [pass EXCEPT ![w] = [NoPass EXCEPT !.pc = "failed"]]
  /\ UNCHANGED <<kind, provider, selected, household, mirror, state, write>>

Apply(w) ==
  LET rows == pass[w].rows
  IN  /\ pass[w].pc = "apply"
      /\ mirror' = [i \in Items |-> IF i \in DOMAIN rows THEN rows[i]
                                    ELSE IF pass[w].full THEN NONE ELSE mirror[i]]
      /\ pass' = [pass EXCEPT ![w].pc = "record", ![w].rows = <<>>]
      /\ UNCHANGED <<kind, provider, setup, state, write>>

(* Seeded fault: the token recorded is the successor of the one received. *)
RecordAhead(w) ==
  /\ pass[w].pc = "record"
  /\ state' = [token |-> pass[w].token + 1, due |-> state.due /\ ~pass[w].full, failing |-> FALSE]
  /\ pass' = [pass EXCEPT ![w] = NoPass]
  /\ UNCHANGED <<kind, provider, setup, mirror, write>>

(* Seeded fault: the token recorded is one asked for after the pull. *)
RecordLatest(w) ==
  /\ pass[w].pc = "record"
  /\ state' = [token |-> version, due |-> state.due /\ ~pass[w].full, failing |-> FALSE]
  /\ pass' = [pass EXCEPT ![w] = NoPass]
  /\ UNCHANGED <<kind, provider, setup, mirror, write>>

Record(w) ==
  /\ pass[w].pc = "record"
  /\ state' = [token |-> pass[w].token, due |-> state.due /\ ~pass[w].full, failing |-> FALSE]
  /\ pass' = [pass EXCEPT ![w] = NoPass]
  /\ UNCHANGED <<kind, provider, setup, mirror, write>>

(* The pull, the transaction or the upsert of the state throws. *)
Throws(w) ==
  /\ pass[w].pc \in {"pull", "apply", "record"}
  /\ pass' = [pass EXCEPT ![w] = [NoPass EXCEPT !.pc = "failed"]]
  /\ UNCHANGED <<kind, provider, setup, mirror, state, write>>

RecordFailure(w) ==
  /\ pass[w].pc = "failed"
  /\ state' = [state EXCEPT !.failing = TRUE]
  /\ pass' = [pass EXCEPT ![w] = NoPass]
  /\ UNCHANGED <<kind, provider, setup, mirror, write>>

(* fullResyncIntervalMs goes by since the last full pull. *)
ResyncFallsDue ==
  /\ ~state.due
  /\ state' = [state EXCEPT !.due = TRUE]
  /\ UNCHANGED <<kind, provider, setup, mirror, pass, write>>

Restart ==
  /\ InFlight \/ write # NoWrite
  /\ pass' = [w \in Passes |-> NoPass]
  /\ write' = NoWrite
  /\ UNCHANGED <<kind, provider, setup, mirror, state>>
-----------------------------------------------------------------------------
(* Members: the connection, the allowlist, the household flag. *)

Connect ==
  /\ conn # "active"
  /\ conn' = "active"
  /\ UNCHANGED <<kind, provider, selected, household, mirror, state, pass, write>>

Disconnect ==
  /\ conn # "none"
  /\ conn' = "none"
  /\ UNCHANGED <<kind, provider, selected, household, mirror, state, pass, write>>

(* The selection is checked against what the provider offers just now. *)
Select ==
  /\ ~selected /\ conn = "active"
  /\ state.token # NONE => "reselect" \in Races
  /\ selected' = TRUE
  /\ UNCHANGED <<kind, provider, conn, household, mirror, state, pass, write>>

(* De-selecting the household's feed is refused. *)
Deselect ==
  /\ selected /\ ~household /\ conn = "active"
  /\ InFlight \/ write # NoWrite => "deselect" \in Races
  /\ selected' = FALSE
  /\ mirror' = [i \in Items |-> NONE]
  /\ state' = IF kind = "calendar" THEN NoState ELSE state
  /\ UNCHANGED <<kind, provider, conn, household, pass, write>>

(* This feed becomes the household's, or (mine = FALSE) another one does. *)
(* Seeded fault: only the feed that gains the flag is pulled again.       *)
DesignateForgets(mine) ==
  /\ IF mine THEN selected ELSE household
  /\ InFlight => "designate" \in Races
  /\ household' = mine
  /\ state' = IF kind = "calendar" /\ mine THEN [state EXCEPT !.token = NONE, !.due = TRUE] ELSE state
  /\ UNCHANGED <<kind, provider, conn, selected, mirror, pass, write>>

Designate(mine) ==
  /\ IF mine THEN selected ELSE household
  /\ InFlight => "designate" \in Races
  /\ household' = mine
  /\ state' = IF kind = "calendar" THEN [state EXCEPT !.token = NONE, !.due = TRUE] ELSE state
  /\ UNCHANGED <<kind, provider, conn, selected, mirror, pass, write>>
-----------------------------------------------------------------------------
(* Changes at the provider, and tasks written to it from here. *)

Change(i, r) ==
  /\ version < MaxVersion
  /\ version' = version + 1
  /\ remote' = [remote EXCEPT ![i] = r]

Item(title, done, live) == [at |-> version + 1, title |-> title, done |-> done, live |-> live]

RemoteChange(i, done, live) ==
  /\ live \/ remote[i].live
  /\ done => kind = "tasks" /\ live
  /\ Pending(i) => "write" \in Races
  /\ Change(i, Item(version + 1, done, live))
  /\ UNCHANGED <<kind, oldest, setup, mirror, state, pass, write>>

TokensExpire ==
  /\ oldest < version
  /\ oldest' = version
  /\ UNCHANGED <<kind, version, remote, setup, mirror, state, pass, write>>

CanWrite(i) == kind = "tasks" /\ conn = "active" /\ write = NoWrite

CompleteTask(i, done) ==
  /\ CanWrite(i) /\ mirror[i] # NONE /\ remote[i].live
  /\ Change(i, Item(remote[i].title, done, TRUE))
  /\ write' = [op |-> "complete", item |-> i, row |-> [mirror[i] EXCEPT !.done = done]]
  /\ UNCHANGED <<kind, oldest, setup, mirror, state, pass>>

CreateTask(i) ==
  /\ CanWrite(i) /\ household /\ remote[i].at = 0
  /\ Change(i, Item(version + 1, FALSE, TRUE))
  /\ write' = [op |-> "create", item |-> i,
               row |-> [title |-> version + 1, done |-> FALSE, family |-> FALSE]]
  /\ UNCHANGED <<kind, oldest, setup, mirror, state, pass>>

(* setTaskCompletedLocal touches the status of the row there is, if any. *)
SetCompletedLocal ==
  /\ write.op = "complete"
  /\ mirror' = IF mirror[write.item] = NONE THEN mirror
               ELSE [mirror EXCEPT ![write.item].done = write.row.done]
  /\ write' = NoWrite
  /\ UNCHANGED <<kind, provider, setup, state, pass>>

UpsertCreated ==
  /\ write.op = "create"
  /\ mirror' = [mirror EXCEPT ![write.item] = write.row]
  /\ write' = NoWrite
  /\ UNCHANGED <<kind, provider, setup, state, pass>>
-----------------------------------------------------------------------------
Sync(w) ==
  \/ SyncStarts(w) \/ Pull(w) \/ PullUnauthorised(w) \/ Apply(w) \/ Record(w)
  \/ Throws(w) \/ RecordFailure(w)

Member ==
  \/ Connect \/ Disconnect \/ Select \/ Deselect
  \/ \E mine \in BOOLEAN : Designate(mine)
  \/ \E i \in Items : CreateTask(i) \/ \E done \in BOOLEAN : CompleteTask(i, done)
  \/ SetCompletedLocal \/ UpsertCreated

Next ==
  \/ \E w \in Passes : Sync(w)
  \/ SyncRefused \/ ResyncFallsDue \/ Restart
  \/ Member
  \/ TokensExpire
  \/ \E i \in Items, done, live \in BOOLEAN : RemoteChange(i, done, live)

Spec == Init /\ [][Next]_vars

(* The scheduler goes on ticking, and no step of a pass fails every time. *)
Fairness ==
  \A w \in Passes :
    /\ SF_vars(SyncStarts(w)) /\ SF_vars(Pull(w)) /\ SF_vars(Apply(w)) /\ SF_vars(Record(w))
    /\ WF_vars(RecordFailure(w))

FairSpec == Spec /\ Fairness
-----------------------------------------------------------------------------
Content(row) == IF row = NONE THEN NONE ELSE [title |-> row.title, done |-> row.done]

Current(i) == Content(mirror[i]) = Content(RowOf(i))

(* No change is lost: wherever the mirror differs from the provider, the token  *)
(* on record is older than the change, so that the next pull brings it - whether*)
(* passes fail, tokens are refused, the process stops or tasks are written from *)
(* here ("write-back reconciles on the next sync").                             *)
NoChangeLost ==
  selected /\ state.token # NONE /\ write = NoWrite =>
    \A i \in Items : Current(i) \/ remote[i].at > state.token

(* Every row of a calendar shows the household's or the member's calendar as it *)
(* is designated now, or a full pull is due ("only a full re-pull rewrites      *)
(* them").                                                                      *)
AttributionFresh ==
  kind = "calendar" /\ state.token # NONE =>
    \A i \in Items : mirror[i] # NONE => mirror[i].family = household

(* A row goes only with its item, with its list, or when the item is newer than *)
(* the snapshot that drops it: no pull takes what it did not mention for gone,  *)
(* and a full pull keeps the rows of what is still there.                       *)
RowsLeaveWithTheirItem ==
  [][\A i \in Items : mirror[i] # NONE /\ mirror'[i] = NONE =>
       \/ ~selected'
       \/ ~remote[i].live
       \/ \E w \in Passes : pass[w].pc = "apply" /\ remote[i].at > pass[w].token]_vars

(* While a feed stays connected and selected, the mirror ends up as the provider *)
(* has it, through failures, refused tokens and restarts.                        *)
MirrorConverges ==
  <>[](selected /\ conn = "active") => []<>(\A i \in Items : Current(i))

(* A feed that is not on the allowlist has no rows ("a de-selected list stops   *)
(* syncing and disappears immediately").                                        *)
DeselectedStaysGone == ~selected => \A i \in Items : mirror[i] = NONE
=============================================================================
