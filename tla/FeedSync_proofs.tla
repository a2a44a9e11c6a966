--------------------------- MODULE FeedSync_proofs ---------------------------
(* Proofs about FeedSync: its types, what a pull may take from the mirror, the *)
(* attribution of calendar rows, and that no change is lost, for any number of *)
(* items, passes and changes at the provider.                                  *)
EXTENDS FeedSync, TLAPS

USE FeedAssumption

(* ------------------------------------------------------- the invariants *)
(* A token is one the provider handed out; a pass that has pulled has one, and *)
(* so has one that will ask for what changed.                                  *)
TokensHeld ==
  /\ \A w \in Passes :
       /\ pass[w].token # NONE => pass[w].token <= version
       /\ pass[w].pc \in {"apply", "record"} => pass[w].token # NONE
       /\ pass[w].pc = "pull" /\ ~pass[w].full => pass[w].token # NONE
  /\ write # NoWrite => kind = "tasks"

TypeInv == TypeOK /\ TokensHeld

(* What a pass has pulled holds every live item the snapshot covers, unless it *)
(* is a delta that does not mention it.                                        *)
SnapshotInv ==
  \A w \in Passes : pass[w].pc = "apply" =>
    \A i \in Items : remote[i].live /\ remote[i].at <= pass[w].token =>
      IF i \in DOMAIN pass[w].rows THEN pass[w].rows[i] # NONE ELSE ~pass[w].full

Fresh(row) == row # NONE => row.family = household

MirrorFresh == \A i \in Items : Fresh(mirror[i])

(* A stale row stays only while a full pull is due or under way. *)
AttributionInv ==
  kind = "calendar" =>
    /\ state.token # NONE => MirrorFresh
    /\ \A w \in Passes :
         /\ pass[w].pc = "pull" /\ ~pass[w].full => MirrorFresh
         /\ pass[w].pc = "apply" => /\ \A i \in DOMAIN pass[w].rows : Fresh(pass[w].rows[i])
                                    /\ ~pass[w].full => MirrorFresh
         /\ pass[w].pc = "record" => MirrorFresh

Caught(i, token) == Current(i) \/ remote[i].at > token

(* One pass at a time, over a feed that stays selected. *)
Serial ==
  /\ \A v, w \in Passes : pass[v].pc # "idle" /\ pass[w].pc # "idle" => v = w
  /\ \A w \in Passes : pass[w].pc # "idle" => selected

(* A write the provider has answered still stands there. *)
WriteStands ==
  write # NoWrite =>
    /\ remote[write.item].live /\ remote[write.item].done = write.row.done
    /\ write.op = "create" => write.row.title = remote[write.item].title

(* The item is as the pass found it, or newer than its snapshot. *)
Snapshot(w, i) ==
  IF i \in DOMAIN pass[w].rows
  THEN Content(pass[w].rows[i]) = Content(RowOf(i)) \/ remote[i].at > pass[w].token
  ELSE IF pass[w].full THEN ~remote[i].live \/ remote[i].at > pass[w].token
       ELSE Caught(i, pass[w].token)

NoLossInv ==
  /\ Serial
  /\ WriteStands
  /\ selected /\ state.token # NONE => \A i \in Items : Caught(i, state.token)
  /\ \A w \in Passes :
       /\ pass[w].pc \in {"apply", "record"} /\ state.token # NONE => state.token <= pass[w].token
       /\ pass[w].pc = "pull" /\ ~pass[w].full => \A i \in Items : Caught(i, pass[w].token)
       /\ pass[w].pc = "apply" => \A i \in Items : Snapshot(w, i)
       /\ pass[w].pc = "record" => \A i \in Items : Caught(i, pass[w].token)
-----------------------------------------------------------------------------
(* ---------------------------------------------------------------- types *)
RowMaps == UNION {[D -> Rows \cup {NONE}] : D \in SUBSET Items}

APass == [pc : {"idle", "pull", "apply", "record", "failed"}, token : Tokens,
          full : BOOLEAN, rows : RowMaps]

(* A pass's rows are rows of items of the feed. *)
LEMMA RowMapsType ==
  ASSUME NEW rows \in RowMaps
  PROVE  DOMAIN rows \subseteq Items /\ \A i \in DOMAIN rows : rows[i] \in Rows \cup {NONE}
<1>1. PICK D \in SUBSET Items : rows \in [D -> Rows \cup {NONE}]
  BY DEF RowMaps
<1> QED BY <1>1

LEMMA EmptyRows == <<>> \in RowMaps
<1>1. <<>> \in [{} -> Rows \cup {NONE}]
  OBVIOUS
<1> QED BY <1>1 DEF RowMaps

LEMMA NoPassType == NoPass \in APass
BY EmptyRows DEF NoPass, APass, Tokens

LEMMA RowOfType ==
  ASSUME TypeOK, NEW i \in Items
  PROVE  RowOf(i) \in Rows \cup {NONE}
<1>1. remote[i] \in [at : 0..version, title : 0..version, done : BOOLEAN, live : BOOLEAN]
  BY DEF TypeOK
<1>2. version \in 0..MaxVersion /\ household \in BOOLEAN
  BY DEF TypeOK
<1> QED BY <1>1, <1>2 DEF RowOf, Rows

(* A live item has a row. *)
LEMMA LiveRow ==
  ASSUME TypeInv, NEW i \in Items, remote[i].live
  PROVE  RowOf(i) # NONE
<1>1. remote[i] \in [at : 0..version, title : 0..version, done : BOOLEAN, live : BOOLEAN]
  BY DEF TypeInv, TypeOK
<1>2. version \in 0..MaxVersion /\ household \in BOOLEAN
  BY DEF TypeInv, TypeOK
<1>3. RowOf(i) \in Rows
  BY <1>1, <1>2 DEF RowOf, Rows
<1> QED BY <1>3 DEF Rows

(* What a pull brings: the live items, or those changed after its token. *)
LEMMA PulledType ==
  ASSUME TypeOK, NEW full \in BOOLEAN, NEW token
  PROVE  /\ Pulled(full, token) \in RowMaps
         /\ \A i \in Items :
              /\ full => (i \in DOMAIN Pulled(full, token) <=> remote[i].live)
              /\ ~full => (i \in DOMAIN Pulled(full, token) <=> remote[i].at > token)
              /\ i \in DOMAIN Pulled(full, token) => Pulled(full, token)[i] = RowOf(i)
<1> DEFINE D == {j \in Items : IF full THEN remote[j].live ELSE remote[j].at > token}
<1>1. Pulled(full, token) = [i \in D |-> RowOf(i)]
  BY DEF Pulled
<1>2. \A i \in D : RowOf(i) \in Rows \cup {NONE}
  BY RowOfType
<1> HIDE DEF D
<1>3. Pulled(full, token) \in [D -> Rows \cup {NONE}]
  BY <1>1, <1>2
<1>4. D \subseteq Items
  BY DEF D
<1>5. Pulled(full, token) \in RowMaps
  BY <1>3, <1>4 DEF RowMaps
<1>6. DOMAIN Pulled(full, token) = D /\ \A i \in D : Pulled(full, token)[i] = RowOf(i)
  BY <1>1
<1>7. \A i \in Items : i \in D <=> IF full THEN remote[i].live ELSE remote[i].at > token
  BY DEF D
<1> QED BY <1>5, <1>6, <1>7

LEMMA PassType == ASSUME TypeOK PROVE pass \in [Passes -> APass]
BY DEF TypeOK, APass, RowMaps

LEMMA TypeInit == Init => TypeInv
<1> SUFFICES ASSUME Init PROVE TypeInv
  OBVIOUS
<1>1. pass \in [Passes -> APass]
  BY NoPassType DEF Init
<1>2. TypeOK
  <2>1. remote \in [Items -> [at : 0..version, title : 0..version, done : BOOLEAN, live : BOOLEAN]]
    BY DEF Init
  <2>2. state \in [token : Tokens, due : BOOLEAN, failing : BOOLEAN] /\ state.token = NONE
    BY DEF Init, NoState, Tokens
  <2>3. version \in 0..MaxVersion /\ oldest \in 0..version
    BY DEF Init
  <2> QED BY <1>1, <2>1, <2>2, <2>3 DEF Init, TypeOK, APass, RowMaps
<1>3. TokensHeld
  BY DEF Init, TokensHeld, NoPass, NoWrite
<1> QED BY <1>2, <1>3 DEF TypeInv

(* A step of one pass keeps the types if what the pass becomes has them. *)
LEMMA PassStepTypes ==
  ASSUME TypeInv, NEW w \in Passes, NEW r \in APass, pass' = [pass EXCEPT ![w] = r],
         r.token # NONE => r.token <= version,
         r.pc \in {"apply", "record"} => r.token # NONE,
         r.pc = "pull" /\ ~r.full => r.token # NONE,
         UNCHANGED <<kind, provider, selected, household, write>>,
         conn' \in {"none", "active", "reauth"},
         mirror' \in [Items -> Rows \cup {NONE}],
         state' \in [token : Tokens, due : BOOLEAN, failing : BOOLEAN],
         state'.token # NONE => state'.token <= version
  PROVE  TypeInv'
<1>1. pass' \in [Passes -> APass]
  BY PassType DEF TypeInv
<1>2. TypeOK'
  BY <1>1 DEF TypeInv, TypeOK, APass, RowMaps, provider, Writes, Rows, Tokens, NoWrite
<1>3. \A v \in Passes : pass'[v] = IF v = w THEN r ELSE pass[v]
  BY PassType DEF TypeInv
<1>4. TokensHeld'
  BY <1>3 DEF TypeInv, TokensHeld, provider, NoWrite
<1> QED BY <1>2, <1>4 DEF TypeInv

LEMMA SyncTypes ==
  ASSUME TypeInv, NEW w \in Passes, Sync(w)
  PROVE  TypeInv'
<1> USE DEF provider, setup
<1>0. /\ TypeOK /\ TokensHeld /\ pass[w] \in APass
      /\ conn \in {"none", "active", "reauth"} /\ mirror \in [Items -> Rows \cup {NONE}]
      /\ state \in [token : Tokens, due : BOOLEAN, failing : BOOLEAN]
      /\ state.token # NONE => state.token <= version
  BY PassType DEF TypeInv, TypeOK
<1> DEFINE failed == [NoPass EXCEPT !.pc = "failed"]
<1>1. failed \in APass /\ failed.token = NONE /\ failed.pc = "failed"
  BY NoPassType DEF NoPass, APass
<1>2. CASE SyncStarts(w)
  <2> DEFINE r == [NoPass EXCEPT !.pc = "pull", !.token = state.token,
                                 !.full = state.due \/ state.token = NONE]
  <2>1. /\ r \in APass /\ r.token = state.token /\ r.pc = "pull"
        /\ r.full = (state.due \/ state.token = NONE)
    BY <1>0, NoPassType DEF NoPass, APass
  <2>2. pass' = [pass EXCEPT ![w] = r]
    BY <1>2 DEF SyncStarts
  <2> HIDE DEF r
  <2>3. /\ UNCHANGED <<kind, version, oldest, remote, conn, selected, household, mirror, state, write>>
        /\ state'.token = state.token
    BY <1>2 DEF SyncStarts
  <2> QED BY <1>0, <2>1, <2>2, <2>3, PassStepTypes
<1>3. CASE Pull(w)
  <2> DEFINE full == pass[w].full \/ pass[w].token < oldest
             r == [pc |-> "apply", token |-> version, full |-> full,
                   rows |-> Pulled(full, pass[w].token)]
  <2>0. full \in BOOLEAN /\ version \in Tokens /\ version # NONE /\ version \in Nat
    BY <1>0 DEF APass, TypeOK, Tokens
  <2>1. Pulled(full, pass[w].token) \in RowMaps
    BY <1>0, <2>0, PulledType
  <2>2. pass' = [pass EXCEPT ![w] = r]
    BY <1>3 DEF Pull
  <2> HIDE DEF full
  <2>3. r \in APass /\ r.token = version /\ r.pc = "apply"
    BY <2>0, <2>1 DEF APass
  <2> HIDE DEF r
  <2>4. /\ UNCHANGED <<kind, version, oldest, remote, conn, selected, household, mirror, state, write>>
        /\ state'.token = state.token
    BY <1>3 DEF Pull
  <2>5. r.token <= version /\ r.token # NONE /\ r.pc # "pull"
    BY <2>0, <2>3
  <2> QED BY <1>0, <2>2, <2>3, <2>4, <2>5, PassStepTypes
<1>4. CASE PullUnauthorised(w)
  <2> HIDE DEF failed
  <2>1. pass' = [pass EXCEPT ![w] = failed]
    BY <1>4 DEF PullUnauthorised, failed
  <2> QED BY <1>0, <1>1, <1>4, <2>1, PassStepTypes DEF PullUnauthorised
<1>5. CASE Apply(w)
  <2> DEFINE r == [pass[w] EXCEPT !.pc = "record", !.rows = <<>>]
  <2>1. pass' = [pass EXCEPT ![w] = r]
    BY <1>5, <1>0, PassType DEF Apply, APass
  <2>2. r \in APass /\ r.token = pass[w].token /\ r.pc = "record"
    BY <1>0, EmptyRows DEF APass
  <2>3. pass[w].rows \in RowMaps /\ pass[w].token # NONE /\ pass[w].token <= version
    BY <1>0, <1>5 DEF APass, TokensHeld, Apply
  <2>4. \A i \in DOMAIN pass[w].rows : pass[w].rows[i] \in Rows \cup {NONE}
    BY <2>3, RowMapsType
  <2>5. mirror' \in [Items -> Rows \cup {NONE}]
    BY <1>0, <1>5, <2>4 DEF Apply
  <2> HIDE DEF r
  <2>6. /\ UNCHANGED <<kind, version, oldest, remote, conn, selected, household, state, write>>
        /\ state'.token = state.token
    BY <1>5 DEF Apply
  <2> QED BY <1>0, <2>1, <2>2, <2>3, <2>5, <2>6, PassStepTypes
<1>6. CASE Record(w)
  <2>1. pass[w].token \in Tokens /\ pass[w].token # NONE /\ pass[w].token <= version
    BY <1>0, <1>6 DEF APass, TokensHeld, Record
  <2>2. /\ state' \in [token : Tokens, due : BOOLEAN, failing : BOOLEAN]
        /\ state'.token <= version
    BY <1>0, <1>6, <2>1 DEF Record, APass
  <2> QED BY <1>0, <1>6, <2>2, NoPassType, PassStepTypes DEF Record, NoPass
<1>7. CASE Throws(w)
  <2> HIDE DEF failed
  <2>1. pass' = [pass EXCEPT ![w] = failed]
    BY <1>7 DEF Throws, failed
  <2>2. /\ UNCHANGED <<kind, version, oldest, remote, conn, selected, household, mirror, state, write>>
        /\ state'.token = state.token
    BY <1>7 DEF Throws
  <2> QED BY <1>0, <1>1, <2>1, <2>2, PassStepTypes
<1>8. CASE RecordFailure(w)
  <2>2. /\ state' \in [token : Tokens, due : BOOLEAN, failing : BOOLEAN]
        /\ state'.token = state.token
    BY <1>0, <1>8 DEF RecordFailure
  <2> QED BY <1>0, <1>8, <2>2, NoPassType, PassStepTypes DEF RecordFailure, NoPass
<1> QED BY <1>2, <1>3, <1>4, <1>5, <1>6, <1>7, <1>8 DEF Sync

(* A change at the provider only moves its version on. *)
LEMMA ChangeTypes ==
  ASSUME TypeInv, NEW i \in Items, NEW title \in 0..version + 1, NEW done \in BOOLEAN,
         NEW live \in BOOLEAN, Change(i, Item(title, done, live)),
         UNCHANGED <<kind, oldest, setup, mirror, state, pass>>,
         write' \in Writes \cup {NoWrite}, write' # NoWrite => kind = "tasks"
  PROVE  TypeInv'
<1> USE DEF setup
<1>0. TypeOK /\ TokensHeld
  BY DEF TypeInv
<1>1. version' = version + 1 /\ version' \in 0..MaxVersion /\ version \in Nat
  BY <1>0 DEF TypeOK, Change
<1>2. Item(title, done, live) \in [at : 0..version', title : 0..version', done : BOOLEAN, live : BOOLEAN]
  BY <1>1 DEF Item
<1>3. remote' \in [Items -> [at : 0..version', title : 0..version', done : BOOLEAN, live : BOOLEAN]]
  <2>1. \A j \in Items :
          remote[j] \in [at : 0..version', title : 0..version', done : BOOLEAN, live : BOOLEAN]
    BY <1>0, <1>1 DEF TypeOK
  <2> QED BY <1>0, <1>2, <2>1 DEF TypeOK, Change
<1>4. /\ oldest' \in 0..version'
      /\ state'.token # NONE => state'.token <= version'
    BY <1>0, <1>1 DEF TypeOK, Tokens
<1>5. TypeOK'
  BY <1>0, <1>1, <1>3, <1>4 DEF TypeOK, Writes, Rows, Tokens, NoWrite
<1>6. TokensHeld'
  <2>1. \A w \in Passes : pass[w].token \in Tokens
    BY <1>0, PassType DEF APass
  <2> QED BY <1>0, <1>1, <2>1 DEF TokensHeld, Tokens, NoWrite
<1> QED BY <1>5, <1>6 DEF TypeInv

LEMMA WriteTypes ==
  ASSUME TypeInv, NEW i \in Items, NEW done \in BOOLEAN, CompleteTask(i, done) \/ CreateTask(i)
  PROVE  TypeInv'
<1>0. TypeOK /\ kind = "tasks"
  BY DEF TypeInv, CompleteTask, CreateTask, CanWrite
<1>1. CASE CompleteTask(i, done)
  <2>1. mirror[i] \in Rows
    BY <1>0, <1>1 DEF TypeOK, CompleteTask
  <2>2. write' \in Writes
    BY <1>1, <2>1 DEF CompleteTask, Writes, Rows
  <2>3. remote[i].title \in 0..version + 1
    BY <1>0 DEF TypeOK
  <2> QED BY <1>0, <1>1, <2>2, <2>3, ChangeTypes DEF CompleteTask
<1>2. CASE CreateTask(i)
  <2>1. version + 1 \in 0..MaxVersion /\ version + 1 \in 0..version + 1
    BY <1>0, <1>2 DEF TypeOK, CreateTask, Change
  <2>2. write' \in Writes
    BY <1>2, <2>1 DEF CreateTask, Writes, Rows
  <2> QED BY <1>0, <1>2, <2>1, <2>2, ChangeTypes DEF CreateTask
<1> QED BY <1>1, <1>2

(* Every other step leaves the passes alone or clears them. *)
LEMMA OtherTypes ==
  ASSUME TypeInv, UNCHANGED <<kind, version, remote>>,
         UNCHANGED pass \/ pass' = [w \in Passes |-> NoPass],
         UNCHANGED write \/ write' = NoWrite,
         oldest' \in 0..version,
         conn' \in {"none", "active", "reauth"}, selected' \in BOOLEAN, household' \in BOOLEAN,
         mirror' \in [Items -> Rows \cup {NONE}],
         state' \in [token : Tokens, due : BOOLEAN, failing : BOOLEAN],
         state'.token \in {state.token, NONE}
  PROVE  TypeInv'
<1>0. TypeOK /\ TokensHeld
  BY DEF TypeInv
<1>1. pass' \in [Passes -> APass]
  BY <1>0, PassType, NoPassType
<1>2. TypeOK'
  BY <1>0, <1>1 DEF TypeOK, APass, RowMaps, Writes, Rows, Tokens, NoWrite
<1>3. TokensHeld'
  BY <1>0 DEF TokensHeld, NoPass, NoWrite
<1> QED BY <1>2, <1>3 DEF TypeInv

LEMMA TypeStep == TypeInv /\ [Next]_vars => TypeInv'
<1> SUFFICES ASSUME TypeInv, [Next]_vars PROVE TypeInv'
  OBVIOUS
<1> USE DEF provider, setup
<1>0. /\ TypeOK /\ TokensHeld
      /\ oldest \in 0..version /\ conn \in {"none", "active", "reauth"}
      /\ selected \in BOOLEAN /\ household \in BOOLEAN
      /\ mirror \in [Items -> Rows \cup {NONE}]
      /\ state \in [token : Tokens, due : BOOLEAN, failing : BOOLEAN]
      /\ NONE \in Tokens /\ version \in Nat
  BY DEF TypeInv, TypeOK, Tokens
<1>1. ASSUME NEW w \in Passes, Sync(w) PROVE TypeInv'
  BY <1>1, SyncTypes
<1>2. CASE SyncRefused
  BY <1>0, <1>2, OtherTypes DEF SyncRefused
<1>3. CASE ResyncFallsDue
  BY <1>0, <1>3, OtherTypes DEF ResyncFallsDue
<1>4. CASE Restart
  BY <1>0, <1>4, OtherTypes DEF Restart
<1>5. CASE Connect \/ Disconnect
  BY <1>0, <1>5, OtherTypes DEF Connect, Disconnect
<1>6. CASE Select
  BY <1>0, <1>6, OtherTypes DEF Select
<1>7. CASE Deselect
  BY <1>0, <1>7, OtherTypes DEF Deselect, NoState
<1>8. ASSUME NEW mine \in BOOLEAN, Designate(mine) PROVE TypeInv'
  BY <1>0, <1>8, OtherTypes DEF Designate
<1>9. ASSUME NEW i \in Items, NEW done \in BOOLEAN, CompleteTask(i, done) \/ CreateTask(i)
      PROVE  TypeInv'
  BY <1>9, WriteTypes
<1>10. CASE SetCompletedLocal
  <2>1. write \in Writes
    BY <1>0, <1>10 DEF SetCompletedLocal, TypeOK, NoWrite
  <2>2. mirror' \in [Items -> Rows \cup {NONE}]
    BY <1>0, <1>10, <2>1 DEF SetCompletedLocal, Writes, Rows
  <2> QED BY <1>0, <1>10, <2>2, OtherTypes DEF SetCompletedLocal
<1>11. CASE UpsertCreated
  <2>1. write \in Writes
    BY <1>0, <1>11 DEF UpsertCreated, TypeOK, NoWrite
  <2>2. mirror' \in [Items -> Rows \cup {NONE}]
    BY <1>0, <1>11, <2>1 DEF UpsertCreated, Writes
  <2> QED BY <1>0, <1>11, <2>2, OtherTypes DEF UpsertCreated
<1>12. CASE TokensExpire
  BY <1>0, <1>12, OtherTypes DEF TokensExpire
<1>13. ASSUME NEW i \in Items, NEW done \in BOOLEAN, NEW live \in BOOLEAN, RemoteChange(i, done, live)
       PROVE  TypeInv'
  <2>1. version + 1 \in 0..version + 1
    BY <1>0
  <2>2. write \in Writes \cup {NoWrite} /\ (write # NoWrite => kind = "tasks")
    BY <1>0 DEF TypeOK, TokensHeld
  <2> QED BY <1>13, <2>1, <2>2, ChangeTypes DEF RemoteChange, TypeInv
<1>14. CASE UNCHANGED vars
  BY <1>0, <1>14, OtherTypes DEF vars
<1> QED BY <1>1, <1>2, <1>3, <1>4, <1>5, <1>6, <1>7, <1>8, <1>9, <1>10, <1>11, <1>12, <1>13, <1>14
        DEF Next, Member

LEMMA TypesHold == Spec => []TypeInv
BY TypeInit, TypeStep, PTL DEF Spec

(* The state has its types: no sequence of passes, writes, changes of the      *)
(* allowlist and restarts stores a token the provider never handed out.        *)
THEOREM TypeCorrect == Spec => []TypeOK
BY TypesHold, PTL DEF TypeInv
-----------------------------------------------------------------------------
(* ------------------------------------------------ what the steps come to *)
(* A step of one pass leaves the provider, the allowlist, the writes and the   *)
(* other passes alone; only Apply changes the mirror, only Record the token.   *)
LEMMA SyncSteps ==
  ASSUME TypeInv, NEW w \in Passes, Sync(w)
  PROVE  /\ UNCHANGED <<kind, version, oldest, remote, selected, household, write>>
         /\ \A v \in Passes \ {w} : pass'[v] = pass[v]
         /\ \/ SyncStarts(w) \/ Pull(w) \/ Apply(w) \/ Record(w)
            \/ /\ UNCHANGED mirror /\ state'.token = state.token
               /\ pass[w].pc # "idle" /\ pass'[w].pc \in {"idle", "failed"}
<1> USE DEF provider, setup
<1>0. pass \in [Passes -> APass] /\ state \in [token : Tokens, due : BOOLEAN, failing : BOOLEAN]
  BY PassType DEF TypeInv, TypeOK
<1>1. UNCHANGED <<kind, version, oldest, remote, selected, household, write>>
  BY DEF Sync, SyncStarts, Pull, PullUnauthorised, Apply, Record, Throws, RecordFailure
<1>2. \A v \in Passes \ {w} : pass'[v] = pass[v]
  BY <1>0 DEF Sync, SyncStarts, Pull, PullUnauthorised, Apply, Record, Throws, RecordFailure
<1>3. CASE PullUnauthorised(w) \/ Throws(w)
  <2>1. pass'[w].pc = "failed" /\ pass[w].pc # "idle" /\ UNCHANGED <<mirror, state>>
    BY <1>0, <1>3 DEF PullUnauthorised, Throws, NoPass
  <2> QED BY <1>1, <1>2, <2>1
<1>4. CASE RecordFailure(w)
  <2>1. pass'[w].pc = "idle" /\ pass[w].pc = "failed" /\ UNCHANGED mirror
    BY <1>0, <1>4 DEF RecordFailure, NoPass
  <2>2. state'.token = state.token
    BY <1>0, <1>4 DEF RecordFailure
  <2> QED BY <1>1, <1>2, <2>1, <2>2
<1> QED BY <1>1, <1>2, <1>3, <1>4 DEF Sync

LEMMA StartedPass ==
  ASSUME TypeInv, NEW w \in Passes, SyncStarts(w)
  PROVE  /\ pass'[w].pc = "pull" /\ pass'[w].token = state.token
         /\ ~pass'[w].full => state.token # NONE
BY PassType DEF TypeInv, TypeOK, SyncStarts, NoPass

LEMMA PulledPass ==
  ASSUME TypeInv, NEW w \in Passes, Pull(w)
  PROVE  /\ pass'[w].pc = "apply" /\ pass'[w].token = version
         /\ pass'[w].full \in BOOLEAN /\ (~pass'[w].full => ~pass[w].full)
         /\ DOMAIN pass'[w].rows \subseteq Items
         /\ \A i \in Items :
              /\ pass'[w].full => (i \in DOMAIN pass'[w].rows <=> remote[i].live)
              /\ ~pass'[w].full => (i \in DOMAIN pass'[w].rows <=> remote[i].at > pass[w].token)
              /\ i \in DOMAIN pass'[w].rows => pass'[w].rows[i] = RowOf(i)
<1>1. PICK full \in BOOLEAN : /\ full = (pass[w].full \/ pass[w].token < oldest)
                             /\ pass'[w] = [pc |-> "apply", token |-> version, full |-> full,
                                            rows |-> Pulled(full, pass[w].token)]
  BY PassType DEF TypeInv, Pull, APass
<1>2. /\ pass'[w].pc = "apply" /\ pass'[w].token = version /\ pass'[w].full = full
      /\ pass'[w].rows = Pulled(full, pass[w].token)
  BY <1>1
<1>3. ~full => ~pass[w].full
  BY <1>1
<1>4. DOMAIN pass'[w].rows \subseteq Items
  BY <1>2, PulledType, RowMapsType DEF TypeInv
<1> QED BY <1>2, <1>3, <1>4, PulledType DEF TypeInv

LEMMA AppliedPass ==
  ASSUME TypeInv, NEW w \in Passes, Apply(w)
  PROVE  /\ pass[w].pc = "apply" /\ pass'[w].pc = "record" /\ pass'[w].token = pass[w].token
         /\ DOMAIN pass[w].rows \subseteq Items
         /\ \A i \in Items : mirror'[i] = IF i \in DOMAIN pass[w].rows THEN pass[w].rows[i]
                                          ELSE IF pass[w].full THEN NONE ELSE mirror[i]
         /\ UNCHANGED state
BY PassType, RowMapsType DEF TypeInv, APass, Apply

LEMMA RecordedPass ==
  ASSUME TypeInv, NEW w \in Passes, Record(w)
  PROVE  /\ pass[w].pc = "record" /\ pass'[w].pc = "idle"
         /\ state'.token = pass[w].token /\ UNCHANGED mirror
BY PassType DEF TypeInv, Record, NoPass

(* A change at the provider touches one item, which is now newer than every    *)
(* token anybody holds.                                                        *)
LEMMA Changed ==
  ASSUME TypeInv, NEW i \in Items, NEW title, NEW done, NEW live, Change(i, Item(title, done, live))
  PROVE  /\ version \in Nat /\ version' = version + 1
         /\ \A j \in Items : j # i => remote'[j] = remote[j]
         /\ remote'[i] = Item(title, done, live)
         /\ remote'[i].at > version /\ remote'[i].live = live /\ remote'[i].done = done
         /\ remote'[i].title = title
         /\ \A j \in Items : remote[j].at \in Nat /\ remote[j].at <= remote'[j].at
         /\ \A w \in Passes : pass[w].token # NONE => remote'[i].at > pass[w].token
         /\ state.token # NONE => remote'[i].at > state.token
<1>1. version \in Nat /\ version' = version + 1
  BY DEF TypeInv, TypeOK, Change
<1>2. \A j \in Items : j # i => remote'[j] = remote[j]
  BY DEF TypeInv, TypeOK, Change
<1>3. remote'[i] = Item(title, done, live)
  BY DEF TypeInv, TypeOK, Change
<1>4. \A j \in Items : remote[j].at \in Nat /\ remote[j].at <= version
  BY DEF TypeInv, TypeOK
<1>5. \A w \in Passes : pass[w].token \in Tokens /\ (pass[w].token # NONE => pass[w].token <= version)
  BY PassType DEF TypeInv, TokensHeld, APass
<1>6. state.token \in Tokens /\ (state.token # NONE => state.token <= version)
  BY DEF TypeInv, TypeOK
<1> QED BY <1>1, <1>2, <1>3, <1>4, <1>5, <1>6 DEF Item, Tokens

(* The steps of members and of the provider, by what they do to the feed. *)
LEMMA OtherSteps ==
  ASSUME TypeInv, [Next]_vars, \A w \in Passes : ~Sync(w)
  PROVE  /\ UNCHANGED kind
         /\ UNCHANGED pass \/ Restart
         /\ UNCHANGED selected \/ Select \/ Deselect
         /\ UNCHANGED remote \/ \E i \in Items, done, live \in BOOLEAN :
              CreateTask(i) \/ CompleteTask(i, done) \/ RemoteChange(i, done, live)
BY DEF Next, Member, SyncRefused, ResyncFallsDue, Restart, Connect, Disconnect, Select, Deselect,
       Designate, SetCompletedLocal, UpsertCreated, TokensExpire, CreateTask, CompleteTask,
       RemoteChange, vars, provider, setup
-----------------------------------------------------------------------------
(* ---------------------------------------------------- rows that are dropped *)
LEMMA SnapshotStep == TypeInv /\ SnapshotInv /\ [Next]_vars => SnapshotInv'
<1> SUFFICES ASSUME TypeInv, SnapshotInv, [Next]_vars PROVE SnapshotInv'
  OBVIOUS
<1>1. ASSUME NEW w \in Passes, Sync(w) PROVE SnapshotInv'
  <2>1. UNCHANGED remote /\ \A v \in Passes \ {w} : pass'[v] = pass[v]
    BY <1>1, SyncSteps
  <2>2. CASE Pull(w)
    <3>1. \A i \in Items : remote[i].live => RowOf(i) # NONE
      BY LiveRow
    <3>2. \A i \in Items : remote[i].live =>
            IF i \in DOMAIN pass'[w].rows THEN pass'[w].rows[i] # NONE ELSE ~pass'[w].full
      BY <2>2, <3>1, PulledPass
    <3> QED BY <2>1, <3>2 DEF SnapshotInv
  <2>3. CASE ~Pull(w)
    <3>1. pass'[w].pc # "apply"
      BY <1>1, <2>3, SyncSteps, StartedPass, AppliedPass, RecordedPass
    <3> QED BY <2>1, <3>1 DEF SnapshotInv
  <2> QED BY <2>2, <2>3
<1>2. CASE \A w \in Passes : ~Sync(w)
  <2>1. CASE Restart
    BY <2>1 DEF Restart, SnapshotInv, NoPass
  <2>2. CASE UNCHANGED <<pass, remote>>
    BY <2>2 DEF SnapshotInv
  <2>3. ASSUME NEW i \in Items, NEW title, NEW done, NEW live, Change(i, Item(title, done, live)),
               UNCHANGED pass
        PROVE  SnapshotInv'
    <3>1. \A w \in Passes : pass[w].pc = "apply" => pass[w].token # NONE
      BY DEF TypeInv, TokensHeld
    <3>2. \A w \in Passes : pass[w].token \in Tokens
      BY PassType DEF TypeInv, APass
    <3>3. \A w \in Passes : pass[w].pc = "apply" => pass[w].token \in Nat /\ remote'[i].at > pass[w].token
      BY <2>3, <3>1, <3>2, Changed DEF Tokens
    <3>4. \A j \in Items : j # i => remote'[j] = remote[j]
      BY <2>3, Changed
    <3>5. remote'[i].at \in Nat
      BY <2>3, Changed DEF Item
    <3>6. ASSUME NEW w \in Passes, pass[w].pc = "apply", NEW j \in Items,
                 remote'[j].live, remote'[j].at <= pass[w].token
          PROVE  IF j \in DOMAIN pass[w].rows THEN pass[w].rows[j] # NONE ELSE ~pass[w].full
      <4>1. j # i
        BY <3>3, <3>5, <3>6
      <4> QED BY <3>4, <3>6, <4>1 DEF SnapshotInv
    <3> QED BY <2>3, <3>6 DEF SnapshotInv
  <2>4. ASSUME NEW i \in Items, NEW done \in BOOLEAN, NEW live \in BOOLEAN,
               CreateTask(i) \/ CompleteTask(i, done) \/ RemoteChange(i, done, live)
        PROVE  SnapshotInv'
    BY <2>3, <2>4 DEF CreateTask, CompleteTask, RemoteChange
  <2> QED BY <1>2, <2>1, <2>2, <2>4, OtherSteps
<1> QED BY <1>1, <1>2

LEMMA SnapshotsHold == Spec => [](TypeInv /\ SnapshotInv)
<1>1. Init => SnapshotInv
  BY DEF Init, SnapshotInv, NoPass
<1> QED BY <1>1, TypeInit, TypeStep, SnapshotStep, PTL DEF Spec

(* A row leaves the mirror only with its item, with its list, or in favour of  *)
(* a snapshot older than the item: whatever the passes, writes, changes of the *)
(* allowlist and restarts before it, applyMirrorPull and applyTaskPull never   *)
(* take what a delta did not mention for gone.                                 *)
THEOREM RowsStay == Spec => RowsLeaveWithTheirItem
<1> DEFINE A(i) == mirror[i] # NONE /\ mirror'[i] = NONE =>
                     \/ ~selected'
                     \/ ~remote[i].live
                     \/ \E w \in Passes : pass[w].pc = "apply" /\ remote[i].at > pass[w].token
<1>1. ASSUME TypeInv, SnapshotInv, [Next]_vars, NEW i \in Items PROVE A(i)
  <2>1. ASSUME NEW w \in Passes, Sync(w) PROVE A(i)
    <3>1. CASE Apply(w)
      <4>1. pass[w].token \in Nat
        BY <1>1, <3>1, AppliedPass, PassType DEF TypeInv, TokensHeld, APass, Tokens
      <4>2. remote[i].at \in Nat
        BY <1>1 DEF TypeInv, TypeOK
      <4> QED BY <1>1, <3>1, <4>1, <4>2, AppliedPass DEF SnapshotInv
    <3>2. CASE ~Apply(w)
      <4>1. UNCHANGED mirror
        BY <1>1, <2>1, <3>2, SyncSteps DEF SyncStarts, Pull, Record
      <4> QED BY <4>1
    <3> QED BY <3>1, <3>2
  <2>2. CASE Deselect
    BY <2>2 DEF Deselect
  <2>3. CASE SetCompletedLocal \/ UpsertCreated
    <3>1. write \in Writes /\ mirror \in [Items -> Rows \cup {NONE}]
      BY <1>1, <2>3 DEF SetCompletedLocal, UpsertCreated, TypeInv, TypeOK, NoWrite
    <3>2. mirror'[i] # mirror[i] => mirror'[i] \in Rows
      BY <2>3, <3>1 DEF SetCompletedLocal, UpsertCreated, Writes, Rows
    <3> QED BY <3>2 DEF Rows
  <2>4. CASE UNCHANGED mirror
    BY <2>4
  <2> QED
    BY <1>1, <2>1, <2>2, <2>3, <2>4
    DEF Next, Member, SyncRefused, ResyncFallsDue, Restart, Connect, Disconnect, Select,
        Designate, TokensExpire, CreateTask, CompleteTask, RemoteChange, vars
<1>2. TypeInv /\ SnapshotInv /\ [Next]_vars => [\A i \in Items : A(i)]_vars
  BY <1>1
<1> QED BY <1>2, SnapshotsHold, PTL DEF Spec, RowsLeaveWithTheirItem
-----------------------------------------------------------------------------
(* -------------------------------------- whose calendar a row is shown under *)
LEMMA AttributionStep ==
  ASSUME "designate" \notin Races, TypeInv, AttributionInv, [Next]_vars
  PROVE  AttributionInv'
<1> SUFFICES ASSUME kind' = "calendar" PROVE AttributionInv'
  BY DEF AttributionInv
<1> USE DEF provider, setup, Fresh, MirrorFresh
<1>1. ASSUME NEW w \in Passes, Sync(w) PROVE AttributionInv'
  <2>0. /\ UNCHANGED <<kind, version, oldest, remote, selected, household, write>>
        /\ \A v \in Passes \ {w} : pass'[v] = pass[v]
        /\ kind = "calendar"
    BY <1>1, SyncSteps
  <2>1. CASE SyncStarts(w)
    <3>1. UNCHANGED <<mirror, state, household>> /\ pass'[w].pc = "pull"
      BY <2>0, <2>1, StartedPass DEF SyncStarts
    <3>2. ~pass'[w].full => MirrorFresh
      BY <2>0, <2>1, StartedPass DEF AttributionInv
    <3> QED BY <2>0, <3>1, <3>2 DEF AttributionInv
  <2>2. CASE Pull(w)
    <3>1. \A i \in Items : RowOf(i) # NONE => RowOf(i).family = household
      BY <2>0 DEF RowOf, TypeInv, TypeOK
    <3>2. UNCHANGED <<mirror, state, household>> /\ pass[w].pc = "pull"
      BY <2>2 DEF Pull, CanPull
    <3>3. DOMAIN pass'[w].rows \subseteq Items
      BY <2>2, PulledPass
    <3>4. \A i \in DOMAIN pass'[w].rows : pass'[w].rows[i] # NONE => pass'[w].rows[i].family = household
      BY <2>2, <3>1, <3>3, PulledPass
    <3>5. ~pass'[w].full => MirrorFresh
      <4>1. ~pass[w].full => MirrorFresh
        BY <2>0, <3>2 DEF AttributionInv
      <4> QED BY <2>2, <4>1, PulledPass
    <3> QED BY <2>0, <2>2, <3>2, <3>4, <3>5, PulledPass DEF AttributionInv
  <2>3. CASE Apply(w)
    <3>1. MirrorFresh'
      BY <2>0, <2>3, AppliedPass DEF AttributionInv
    <3> QED BY <2>0, <2>3, <3>1, AppliedPass DEF AttributionInv
  <2>4. CASE Record(w)
    <3>1. MirrorFresh'
      BY <2>0, <2>4, RecordedPass DEF AttributionInv
    <3> QED BY <2>0, <2>4, <3>1, RecordedPass DEF AttributionInv
  <2>5. CASE /\ UNCHANGED mirror /\ state'.token = state.token
             /\ pass'[w].pc \in {"idle", "failed"}
    BY <2>0, <2>5 DEF AttributionInv
  <2> QED BY <1>1, <2>1, <2>2, <2>3, <2>4, <2>5, SyncSteps
<1>2. CASE \A w \in Passes : ~Sync(w)
  <2>0. kind = "calendar"
    BY <1>2, OtherSteps
  <2>1. CASE Restart
    BY <2>0, <2>1 DEF Restart, AttributionInv, NoPass
  <2>2. CASE Deselect
    BY <2>0, <2>2 DEF Deselect, AttributionInv, NoState
  <2>3. ASSUME NEW mine \in BOOLEAN, Designate(mine) PROVE AttributionInv'
    <3>1. \A w \in Passes : pass[w].pc = "idle"
      BY <2>3 DEF Designate, InFlight
    <3>2. state'.token = NONE /\ UNCHANGED pass
      BY <2>0, <2>3 DEF Designate, TypeInv, TypeOK
    <3> QED BY <3>1, <3>2 DEF AttributionInv
  <2>4. CASE UNCHANGED <<mirror, household, pass>> /\ state'.token = state.token
    BY <2>0, <2>4 DEF AttributionInv
  <2>5. ~SetCompletedLocal /\ ~UpsertCreated
    BY <2>0 DEF SetCompletedLocal, UpsertCreated, TypeInv, TokensHeld, NoWrite
  <2>6. CASE SyncRefused \/ ResyncFallsDue
    <3>1. state'.token = state.token
      BY <2>6 DEF SyncRefused, ResyncFallsDue, TypeInv, TypeOK
    <3> QED BY <2>4, <2>6, <3>1 DEF SyncRefused, ResyncFallsDue
  <2> QED
    BY <1>2, <2>1, <2>2, <2>3, <2>4, <2>5, <2>6
    DEF Next, Member, Connect, Disconnect, Select, TokensExpire, CreateTask, CompleteTask,
        RemoteChange, vars
<1> QED BY <1>1, <1>2

(* Every row of a calendar shows the calendar as it is designated now, or a    *)
(* full pull is due.  It takes only that the designation does not change under *)
(* a pass in flight (which the code does not prevent): passes may overlap, the *)
(* feed be de-selected and selected again under them.                          *)
THEOREM AttributionHolds ==
  ASSUME "designate" \notin Races
  PROVE  Spec => []AttributionFresh
<1>1. Init => AttributionInv
  BY DEF Init, AttributionInv, NoPass, NoState
<1>2. TypeInv /\ AttributionInv /\ [Next]_vars => AttributionInv'
  BY AttributionStep
<1>3. AttributionInv => AttributionFresh
  BY DEF AttributionInv, AttributionFresh, MirrorFresh, Fresh
<1> QED BY <1>1, <1>2, <1>3, TypesHold, PTL DEF Spec
-----------------------------------------------------------------------------
(* ----------------------------------------------------- no change is lost *)
LEMMA SerialStep ==
  ASSUME Races \subseteq {"designate"}, TypeInv, Serial, [Next]_vars
  PROVE  Serial'
<1> USE DEF provider, setup
<1>1. ASSUME NEW w \in Passes, Sync(w) PROVE Serial'
  <2>1. UNCHANGED selected /\ \A v \in Passes \ {w} : pass'[v] = pass[v]
    BY <1>1, SyncSteps
  <2>2. CASE SyncStarts(w)
    <3>1. selected /\ \A v \in Passes : pass[v].pc = "idle"
      BY <2>2 DEF SyncStarts, InFlight
    <3> QED BY <2>1, <3>1 DEF Serial
  <2>3. CASE ~SyncStarts(w)
    <3>1. pass[w].pc # "idle"
      BY <1>1, <2>3, SyncSteps DEF Pull, CanPull, Apply, Record
    <3> QED BY <2>1, <3>1 DEF Serial
  <2> QED BY <2>2, <2>3
<1>2. CASE \A w \in Passes : ~Sync(w)
  <2>1. CASE Restart
    BY <2>1 DEF Restart, Serial, NoPass
  <2>2. CASE Deselect
    BY <2>2 DEF Deselect, Serial, InFlight
  <2>3. CASE UNCHANGED pass /\ (selected => selected')
    BY <2>3 DEF Serial
  <2> QED BY <1>2, <2>1, <2>2, <2>3, OtherSteps DEF Select
<1> QED BY <1>1, <1>2

LEMMA WriteStandsStep ==
  ASSUME Races \subseteq {"designate"}, TypeInv, WriteStands, [Next]_vars
  PROVE  WriteStands'
<1> USE DEF provider, setup
<1>1. ASSUME NEW w \in Passes, Sync(w) PROVE WriteStands'
  BY <1>1, SyncSteps DEF WriteStands, NoWrite
<1>2. CASE \A w \in Passes : ~Sync(w)
  <2>1. CASE Restart \/ SetCompletedLocal \/ UpsertCreated
    BY <2>1 DEF Restart, SetCompletedLocal, UpsertCreated, WriteStands, NoWrite
  <2>2. ASSUME NEW i \in Items, NEW done \in BOOLEAN, NEW live \in BOOLEAN,
               RemoteChange(i, done, live)
        PROVE  WriteStands'
    <3>1. UNCHANGED write /\ (write # NoWrite => write.item # i)
      BY <2>2 DEF RemoteChange, Pending
    <3>2. write # NoWrite => write.item \in Items
      BY DEF TypeInv, TypeOK, Writes
    <3>3. \A j \in Items : j # i => remote'[j] = remote[j]
      BY <2>2, Changed DEF RemoteChange
    <3> QED BY <3>1, <3>2, <3>3 DEF WriteStands, NoWrite
  <2>3. ASSUME NEW i \in Items, NEW done \in BOOLEAN, CompleteTask(i, done) PROVE WriteStands'
    <3>1. mirror[i] \in Rows
      BY <2>3 DEF TypeInv, TypeOK, CompleteTask
    <3>2. write'.item = i /\ write'.op = "complete" /\ write'.row.done = done
      BY <2>3, <3>1 DEF CompleteTask, Rows
    <3>3. remote'[i].live /\ remote'[i].done = done
      BY <2>3, Changed DEF CompleteTask, Item
    <3> QED BY <3>2, <3>3 DEF WriteStands
  <2>4. ASSUME NEW i \in Items, CreateTask(i) PROVE WriteStands'
    <3>1. /\ write'.item = i /\ write'.row.done = FALSE /\ write'.row.title = version + 1
      BY <2>4 DEF CreateTask
    <3>2. remote'[i].live /\ remote'[i].done = FALSE /\ remote'[i].title = version + 1
      BY <2>4, Changed DEF CreateTask, Item
    <3> QED BY <3>1, <3>2 DEF WriteStands
  <2>5. CASE UNCHANGED <<remote, write>>
    BY <2>5 DEF WriteStands, NoWrite
  <2> QED
    BY <1>2, <2>1, <2>2, <2>3, <2>4, <2>5
    DEF Next, Member, SyncRefused, ResyncFallsDue, Connect, Disconnect, Select, Deselect, Designate,
        TokensExpire, vars
<1> QED BY <1>1, <1>2

(* An item a step leaves as it was, and one it makes newer than every token. *)
Kept(i) ==
  /\ remote'[i].at = remote[i].at /\ remote'[i].live = remote[i].live
  /\ Content(RowOf(i))' = Content(RowOf(i))
  /\ Current(i) => Current(i)'

Renewed(i) ==
  /\ \A w \in Passes : pass[w].token # NONE => remote'[i].at > pass[w].token
  /\ state.token # NONE => remote'[i].at > state.token

(* The content of an item's row is the provider's, whoever it is shown for. *)
LEMMA SameContent ==
  ASSUME TypeInv, TypeInv', NEW i \in Items, remote'[i] = remote[i]
  PROVE  Content(RowOf(i))' = Content(RowOf(i))
<1>1. CASE ~remote[i].live
  BY <1>1 DEF RowOf
<1>2. CASE remote[i].live
  <2>1. RowOf(i) # NONE /\ RowOf(i).title = remote[i].title /\ RowOf(i).done = remote[i].done
    BY <1>2, LiveRow DEF RowOf
  <2>2. RowOf(i)'.title = remote[i].title /\ RowOf(i)'.done = remote[i].done
    BY <1>2 DEF RowOf
  <2>3. RowOf(i)' # NONE
    <3>1. remote'[i] \in [at : 0..version', title : 0..version', done : BOOLEAN, live : BOOLEAN]
      BY DEF TypeInv, TypeOK
    <3>2. version' \in 0..MaxVersion /\ household' \in BOOLEAN
      BY DEF TypeInv, TypeOK
    <3>3. RowOf(i)' \in Rows
      BY <1>2, <3>1, <3>2 DEF RowOf, Rows
    <3> QED BY <3>3 DEF Rows
  <2> QED BY <2>1, <2>2, <2>3 DEF Content
<1> QED BY <1>1, <1>2

(* A step that leaves the passes alone and each item as it was, or makes it    *)
(* newer than every token, loses nothing.                                      *)
LEMMA QuietLosesNothing ==
  ASSUME TypeInv, NoLossInv, Serial', WriteStands', UNCHANGED pass,
         selected' /\ state'.token # NONE => selected,
         state'.token \in {state.token, NONE},
         \A i \in Items : Kept(i) \/ Renewed(i)
  PROVE  NoLossInv'
<1>1. ASSUME NEW i \in Items, state.token # NONE, Caught(i, state.token)
      PROVE  Caught(i, state.token)'  \/ state'.token # state.token
  BY <1>1 DEF Kept, Renewed, Caught, Current
<1>2. selected' /\ state'.token # NONE => \A i \in Items : Caught(i, state.token)'
  BY <1>1 DEF NoLossInv
<1>3. ASSUME NEW w \in Passes, NEW i \in Items, pass[w].token # NONE, Caught(i, pass[w].token)
      PROVE  Caught(i, pass[w].token)'
  BY <1>3 DEF Kept, Renewed, Caught, Current
<1>4. ASSUME NEW w \in Passes, NEW i \in Items, pass[w].token # NONE, Snapshot(w, i)
      PROVE  Snapshot(w, i)'
  <2>1. CASE Renewed(i)
    BY <1>4, <2>1 DEF Renewed, Snapshot, Caught
  <2>2. CASE Kept(i)
    BY <1>3, <1>4, <2>2 DEF Kept, Snapshot
  <2> QED BY <2>1, <2>2
<1>5. ASSUME NEW w \in Passes
      PROVE  /\ pass'[w].pc \in {"apply", "record"} /\ state'.token # NONE => state'.token <= pass'[w].token
             /\ pass'[w].pc = "pull" /\ ~pass'[w].full => \A i \in Items : Caught(i, pass[w].token)'
             /\ pass'[w].pc = "apply" => \A i \in Items : Snapshot(w, i)'
             /\ pass'[w].pc = "record" => \A i \in Items : Caught(i, pass[w].token)'
  <2>1. /\ pass[w].pc \in {"apply", "record"} => pass[w].token # NONE
        /\ pass[w].pc = "pull" /\ ~pass[w].full => pass[w].token # NONE
    BY DEF TypeInv, TokensHeld
  <2> QED BY <1>3, <1>4, <2>1 DEF NoLossInv
<1> QED BY <1>2, <1>5 DEF NoLossInv

(* A pass loses nothing: what it records, the mirror has or a change follows. *)
LEMMA PassLosesNothing ==
  ASSUME TypeInv, NoLossInv, Serial', WriteStands', NEW w \in Passes, Sync(w),
         Races \subseteq {"designate"}
  PROVE  NoLossInv'
<1> USE DEF provider, setup
<1>0. /\ UNCHANGED <<kind, version, oldest, remote, selected, household, write>>
      /\ \A v \in Passes \ {w} : pass'[v] = pass[v]
  BY SyncSteps
<1>1. \A v \in Passes \ {w} : pass'[v].pc = "idle"
  <2>1. pass[w].pc # "idle" \/ \A v \in Passes : pass[v].pc = "idle"
    BY SyncSteps DEF SyncStarts, InFlight, Pull, CanPull, Apply, Record
  <2> QED BY <1>0, <2>1 DEF NoLossInv, Serial
<1>2. \A i \in Items : RowOf(i)' = RowOf(i)
  BY <1>0 DEF RowOf
<1>3. /\ version \in Nat
      /\ \A i \in Items : remote[i].at \in Nat
      /\ state.token \in Tokens /\ (state.token # NONE => state.token <= version)
      /\ pass[w].token \in Tokens
  BY PassType DEF TypeInv, TypeOK, APass
<1>4. CASE SyncStarts(w)
  <2>1. /\ UNCHANGED <<mirror, state>> /\ selected
        /\ pass'[w].pc = "pull" /\ pass'[w].token = state.token
        /\ ~pass'[w].full => state.token # NONE
    BY <1>4, StartedPass DEF SyncStarts
  <2>2. \A i \in Items : Caught(i, state.token)' <=> Caught(i, state.token)
    BY <1>0, <1>2, <2>1 DEF Caught, Current
  <2>3. ~pass'[w].full => \A i \in Items : Caught(i, pass[w].token)'
    BY <2>1, <2>2 DEF NoLossInv
  <2> QED BY <1>0, <1>1, <2>1, <2>2, <2>3 DEF NoLossInv
<1>5. CASE Pull(w)
  <2>1. UNCHANGED <<mirror, state>> /\ pass[w].pc = "pull"
    BY <1>5 DEF Pull, CanPull
  <2>2. \A i \in Items : Current(i)' <=> Current(i)
    BY <1>2, <2>1 DEF Current
  <2>3. ASSUME NEW i \in Items PROVE Snapshot(w, i)'
    <3>1. CASE i \in DOMAIN pass'[w].rows
      BY <1>2, <1>5, <3>1, PulledPass DEF Snapshot
    <3>2. CASE i \notin DOMAIN pass'[w].rows /\ pass'[w].full
      BY <1>0, <1>5, <3>2, PulledPass DEF Snapshot
    <3>3. CASE i \notin DOMAIN pass'[w].rows /\ ~pass'[w].full
      <4>1. ~pass[w].full /\ ~(remote[i].at > pass[w].token)
        BY <1>5, <3>3, PulledPass
      <4>2. Current(i)
        BY <2>1, <4>1 DEF NoLossInv, Caught
      <4> QED BY <2>2, <3>3, <4>2 DEF Snapshot, Caught
    <3> QED BY <1>5, <3>1, <3>2, <3>3, PulledPass
  <2>4. \A i \in Items : Caught(i, state.token)' <=> Caught(i, state.token)
    BY <1>0, <2>1, <2>2 DEF Caught
  <2>5. /\ pass'[w].pc = "apply"
        /\ state.token # NONE => state.token <= pass'[w].token
    BY <1>3, <1>5, PulledPass
  <2> QED BY <1>0, <1>1, <2>1, <2>3, <2>4, <2>5 DEF NoLossInv
<1>6. CASE Apply(w)
  <2>0. /\ pass[w].pc = "apply" /\ pass'[w].pc = "record" /\ pass'[w].token = pass[w].token
        /\ pass[w].token # NONE /\ pass[w].token \in Nat /\ UNCHANGED state
        /\ state.token # NONE => state.token <= pass[w].token
    BY <1>3, <1>6, AppliedPass DEF TypeInv, TokensHeld, Tokens, NoLossInv
  <2>1. ASSUME NEW i \in Items PROVE Caught(i, pass[w].token)'
    <3>0. Snapshot(w, i)
      BY <2>0 DEF NoLossInv
    <3>1. CASE i \in DOMAIN pass[w].rows
      <4>1. mirror'[i] = pass[w].rows[i]
        BY <1>6, <3>1, AppliedPass
      <4> QED BY <1>0, <1>2, <2>0, <3>0, <3>1, <4>1 DEF Snapshot, Caught, Current
    <3>2. CASE i \notin DOMAIN pass[w].rows /\ pass[w].full
      <4>1. mirror'[i] = NONE
        BY <1>6, <3>2, AppliedPass
      <4>2. ~remote[i].live => RowOf(i) = NONE
        BY DEF RowOf
      <4> QED BY <1>0, <1>2, <2>0, <3>0, <3>2, <4>1, <4>2 DEF Snapshot, Caught, Current
    <3>3. CASE i \notin DOMAIN pass[w].rows /\ ~pass[w].full
      <4>1. mirror'[i] = mirror[i]
        BY <1>6, <3>3, AppliedPass
      <4> QED BY <1>0, <1>2, <2>0, <3>0, <3>3, <4>1 DEF Snapshot, Caught, Current
    <3> QED BY <3>1, <3>2, <3>3
  <2>2. state.token # NONE => \A i \in Items : Caught(i, state.token)'
    <3>1. ASSUME state.token # NONE, NEW i \in Items PROVE Caught(i, state.token)'
      <4>1. Current(i)' \/ remote[i].at > pass[w].token
        BY <1>0, <2>0, <2>1 DEF Caught
      <4> QED BY <1>0, <1>3, <2>0, <3>1, <4>1 DEF Caught, Tokens
    <3> QED BY <3>1
  <2> QED BY <1>0, <1>1, <2>0, <2>1, <2>2 DEF NoLossInv
<1>7. CASE Record(w)
  <2>1. /\ pass[w].pc = "record" /\ pass'[w].pc = "idle"
        /\ state'.token = pass[w].token /\ UNCHANGED mirror
    BY <1>7, RecordedPass
  <2>2. \A i \in Items : Caught(i, pass[w].token)
    BY <2>1 DEF NoLossInv
  <2>3. \A i \in Items : Caught(i, state.token)'
    BY <1>0, <1>2, <2>1, <2>2 DEF Caught, Current
  <2> QED BY <1>1, <2>1, <2>3 DEF NoLossInv
<1>8. CASE /\ UNCHANGED mirror /\ state'.token = state.token
           /\ pass'[w].pc \in {"idle", "failed"}
  <2>1. \A i \in Items : Caught(i, state.token)' <=> Caught(i, state.token)
    BY <1>0, <1>2, <1>8 DEF Caught, Current
  <2> QED BY <1>0, <1>1, <1>8, <2>1 DEF NoLossInv
<1> QED BY <1>4, <1>5, <1>6, <1>7, <1>8, SyncSteps

(* A change at the provider makes its item newer than every token. *)
LEMMA ChangeKeeps ==
  ASSUME TypeInv, TypeInv', NEW i \in Items, NEW title, NEW done, NEW live,
         Change(i, Item(title, done, live)), UNCHANGED mirror
  PROVE  \A j \in Items : Kept(j) \/ Renewed(j)
<1>1. Renewed(i)
  BY Changed DEF Renewed
<1>2. ASSUME NEW j \in Items, j # i PROVE Kept(j)
  <2>1. remote'[j] = remote[j]
    BY <1>2, Changed
  <2> QED BY <2>1, SameContent DEF Kept, Current
<1> QED BY <1>1, <1>2

LEMMA NoLossStep ==
  ASSUME Races \subseteq {"designate"}, TypeInv, NoLossInv, [Next]_vars
  PROVE  NoLossInv'
<1> USE DEF provider, setup
<1>0. TypeInv' /\ Serial' /\ WriteStands'
  BY TypeStep, SerialStep, WriteStandsStep DEF NoLossInv
<1>1. ASSUME NEW w \in Passes, Sync(w) PROVE NoLossInv'
  BY <1>0, <1>1, PassLosesNothing
<1>2. ASSUME UNCHANGED remote, NEW i \in Items, mirror'[i] = mirror[i] PROVE Kept(i)
  BY <1>0, <1>2, SameContent DEF Kept, Current
<1>3. CASE UNCHANGED <<remote, mirror, pass>> /\ (selected' /\ state'.token # NONE => selected)
           /\ state'.token \in {state.token, NONE}
  <2>1. \A i \in Items : Kept(i)
    BY <1>2, <1>3
  <2> QED BY <1>0, <1>3, <2>1, QuietLosesNothing
<1>4. CASE Restart
  <2>1. \A i \in Items : Caught(i, state.token)' <=> Caught(i, state.token)
    BY <1>4 DEF Restart, Caught, Current, RowOf
  <2> QED BY <1>0, <1>4, <2>1 DEF Restart, NoLossInv, NoPass
<1>5. CASE Select
  <2>1. state.token = NONE
    BY <1>5 DEF Select
  <2> QED BY <1>3, <1>5, <2>1 DEF Select
<1>6. CASE Deselect
  <2>1. \A w \in Passes : pass'[w].pc = "idle"
    BY <1>6 DEF Deselect, InFlight
  <2>2. ~selected'
    BY <1>6 DEF Deselect
  <2> QED BY <1>0, <2>1, <2>2 DEF NoLossInv
<1>7. ASSUME NEW mine \in BOOLEAN, Designate(mine) PROVE NoLossInv'
  <2>1. state'.token \in {state.token, NONE}
    BY <1>7 DEF Designate, TypeInv, TypeOK
  <2> QED BY <1>3, <1>7, <2>1 DEF Designate
<1>8. CASE SyncRefused \/ ResyncFallsDue
  <2>1. state'.token = state.token
    BY <1>8 DEF SyncRefused, ResyncFallsDue, TypeInv, TypeOK
  <2> QED BY <1>3, <1>8, <2>1 DEF SyncRefused, ResyncFallsDue
<1>9. ASSUME NEW i \in Items, NEW title, NEW done, NEW live, Change(i, Item(title, done, live)),
             UNCHANGED <<mirror, selected, state, pass>>
      PROVE  NoLossInv'
  BY <1>0, <1>9, ChangeKeeps, QuietLosesNothing
<1>10. ASSUME NEW i \in Items, NEW done \in BOOLEAN, NEW live \in BOOLEAN,
              CreateTask(i) \/ CompleteTask(i, done) \/ RemoteChange(i, done, live)
       PROVE  NoLossInv'
  BY <1>9, <1>10 DEF CreateTask, CompleteTask, RemoteChange
<1>11. CASE SetCompletedLocal \/ UpsertCreated
  <2>a. /\ write \in Writes /\ write.item \in Items /\ write # NoWrite
        /\ mirror \in [Items -> Rows \cup {NONE}]
        /\ UNCHANGED <<kind, remote, selected, household, state, pass>>
    BY <1>11 DEF SetCompletedLocal, UpsertCreated, TypeInv, TypeOK, NoWrite, Writes
  <2>b. PICK j \in Items : j = write.item
    BY <2>a
  <2>0. /\ write \in Writes /\ write.item = j /\ write # NoWrite
        /\ mirror \in [Items -> Rows \cup {NONE}]
        /\ UNCHANGED <<kind, remote, selected, household, state, pass>>
    BY <2>a, <2>b
  <2>1. remote[j].live /\ RowOf(j) # NONE /\ RowOf(j)' = RowOf(j)
        /\ RowOf(j).title = remote[j].title /\ RowOf(j).done = remote[j].done
    BY <2>0, LiveRow DEF NoLossInv, WriteStands, RowOf
  <2>2. \A i \in Items : i # j => mirror'[i] = mirror[i]
    BY <1>11, <2>0 DEF SetCompletedLocal, UpsertCreated
  <2>3. Current(j) => Current(j)'
    <3>1. CASE UpsertCreated
      <4>1. mirror'[j] = write.row /\ write.row \in Rows /\ write.row # NONE
        BY <2>0, <3>1 DEF UpsertCreated, Writes, Rows
      <4>2. write.row.title = remote[j].title /\ write.row.done = remote[j].done
        BY <2>0, <3>1 DEF UpsertCreated, NoLossInv, WriteStands
      <4> QED BY <2>1, <4>1, <4>2 DEF Current, Content
    <3>2. CASE SetCompletedLocal /\ mirror[j] = NONE
      BY <2>1, <3>2 DEF SetCompletedLocal, Current
    <3>3. CASE SetCompletedLocal /\ mirror[j] # NONE
      <4>1. /\ mirror[j] \in Rows
            /\ mirror'[j] = [mirror[j] EXCEPT !.done = write.row.done]
        BY <2>0, <3>3 DEF SetCompletedLocal
      <4>2. write.row.done = remote[j].done /\ write.row.done \in BOOLEAN
        BY <2>0 DEF NoLossInv, WriteStands, Writes, Rows
      <4>3. mirror'[j] \in Rows /\ mirror'[j].title = mirror[j].title /\ mirror'[j].done = remote[j].done
        BY <4>1, <4>2 DEF Rows
      <4>4. mirror'[j] # NONE
        BY <4>3 DEF Rows
      <4>5. Current(j) => mirror[j].title = RowOf(j).title
        BY <2>1, <3>3 DEF Current, Content
      <4> QED BY <2>1, <4>3, <4>4, <4>5 DEF Current, Content
    <3> QED BY <1>11, <3>1, <3>2, <3>3
  <2>4. Kept(j)
    BY <2>0, <2>1, <2>3 DEF Kept
  <2>5. \A i \in Items : Kept(i)
    BY <1>2, <2>0, <2>2, <2>4
  <2> QED BY <1>0, <2>0, <2>5, QuietLosesNothing
<1>12. CASE Connect \/ Disconnect \/ TokensExpire \/ UNCHANGED vars
  BY <1>3, <1>12 DEF Connect, Disconnect, TokensExpire, vars
<1> QED
  BY <1>1, <1>4, <1>5, <1>6, <1>7, <1>8, <1>10, <1>11, <1>12 DEF Next, Member

(* Nothing that changes at the provider is lost to the mirror, for any number  *)
(* of items and changes, through failed passes, refused tokens, crashes, tasks *)
(* written from here and a designation that changes under a pass: what the     *)
(* mirror has otherwise, the token on record is older than.  It takes one pass *)
(* at a time, over a feed that is not de-selected or written to elsewhere      *)
(* under it, and that comes back without its old token (the races the code     *)
(* leaves open).                                                               *)
THEOREM NothingLost ==
  ASSUME Races \subseteq {"designate"}
  PROVE  Spec => []NoChangeLost
<1>1. Init => NoLossInv
  BY DEF Init, NoLossInv, Serial, WriteStands, NoPass, NoState, NoWrite
<1>2. TypeInv /\ NoLossInv /\ [Next]_vars => NoLossInv'
  BY NoLossStep
<1>3. NoLossInv => NoChangeLost
  BY DEF NoLossInv, NoChangeLost, Caught
<1> QED BY <1>1, <1>2, <1>3, TypesHold, PTL DEF Spec
=============================================================================
