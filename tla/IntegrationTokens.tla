--------------------------- MODULE IntegrationTokens ---------------------------
(***************************************************************************)
(* One member's connection to a provider: integrations/routes.ts connects  *)
(* and disconnects, the provider's client (google/oauth.ts,                *)
(* m365/delegated.ts) refreshes the stored token and caches access tokens  *)
(* in memory, integrations/store.ts keeps the row.                         *)
(*                                                                         *)
(* A refresh token is named by the account it was granted for.  A member   *)
(* may connect again, the same account or another, while refreshes of the  *)
(* token stored before are under way; overtaken remembers which those are, *)
(* and no action looks at it.                                              *)
(***************************************************************************)
EXTENDS Integers

CONSTANTS Accounts,   \* the accounts the member has with the provider
          Rotating,   \* whether a refresh may return a new refresh token: m365 does, google does not
          Procs,      \* callbacks, feed ticks and write-backs in flight
          NONE

VARIABLES conn,     \* the row of integration_connections, or NONE
          cached,   \* the account of the access token in memory, or NONE
          revoked,  \* accounts whose grant the provider refuses
          calls,    \* what each request is doing
          overtaken \* history: refreshes whose token is no longer the one stored

tokenVars == <<conn, cached, revoked, calls, overtaken>>
-----------------------------------------------------------------------------
Statuses == {"active", "needs_reauth", "error"}

Row(a) == [label |-> a, token |-> a, status |-> "active", readable |-> TRUE]

TokenTypeOK ==
  /\ conn = NONE \/ conn \in [label : Accounts, token : Accounts, status : Statuses, readable : BOOLEAN]
  /\ cached \in Accounts \cup {NONE}
  /\ revoked \subseteq Accounts
  /\ overtaken \subseteq Procs
  /\ \A p \in Procs : calls[p] = NONE \/ calls[p] \in
       [pc : {"exchange", "upsert", "cache", "read", "post", "unreadable"}, account : Accounts \cup {NONE}]
       \cup [pc : {"record"}, account : Accounts, outcome : {"granted", "refused", "failed"}]

TokenInit ==
  /\ conn = NONE /\ cached = NONE /\ revoked = {} /\ overtaken = {}
  /\ calls = [p \in Procs |-> NONE]
-----------------------------------------------------------------------------
At(p, pc)     == calls[p] # NONE /\ calls[p].pc = pc
Does(p, c)    == calls' = [calls EXCEPT ![p] = c]
Answers(p)    == Does(p, NONE)
Account(p)    == calls[p].account

(* p has read a stored token and has not recorded what became of it. *)
Refreshing(p) == At(p, "post") \/ At(p, "record") \/ At(p, "unreadable")
-----------------------------------------------------------------------------
(* GET /:provider/callback: the state names the member, the code an account. *)
Callback(p, a) ==
  /\ calls[p] = NONE
  /\ Does(p, [pc |-> "exchange", account |-> a])
  /\ UNCHANGED <<conn, cached, revoked, overtaken>>

(* completeConnect: a new grant, or nothing at all (no refresh token, an error). *)
Exchange(p) ==
  /\ At(p, "exchange")
  /\ \/ Does(p, [pc |-> "upsert", account |-> Account(p)]) /\ revoked' = revoked \ {Account(p)}
     \/ Answers(p) /\ UNCHANGED revoked
  /\ UNCHANGED <<conn, cached, overtaken>>

(* upsertConnection: the memory cache and the refreshes under way are left as   *)
(* they are.                                                                    *)
upsertConnection(p) ==
  /\ At(p, "upsert")
  /\ conn' = Row(Account(p))
  /\ overtaken' = {q \in Procs : Refreshing(q)}
  /\ Answers(p)
  /\ UNCHANGED <<cached, revoked>>

deleteConnection ==
  /\ conn # NONE
  /\ conn' = NONE
  /\ UNCHANGED <<cached, revoked, calls, overtaken>>
-----------------------------------------------------------------------------
(* getAccessToken. *)
Wanted(p) ==
  /\ calls[p] = NONE
  /\ Does(p, [pc |-> "cache", account |-> NONE])
  /\ UNCHANGED <<conn, cached, revoked, overtaken>>

FromCache(p) ==
  /\ At(p, "cache")
  /\ IF cached # NONE THEN Answers(p) ELSE Does(p, [pc |-> "read", account |-> NONE])
  /\ UNCHANGED <<conn, cached, revoked, overtaken>>

(* getRefreshToken: no connection, a token that cannot be decrypted, or a token. *)
ReadToken(p) ==
  /\ At(p, "read")
  /\ CASE conn = NONE     -> Answers(p)
       [] conn # NONE     -> Does(p, [pc |-> IF conn.readable THEN "post" ELSE "unreadable",
                                      account |-> conn.token])
  /\ UNCHANGED <<conn, cached, revoked, overtaken>>

(* The token endpoint: 400 or 401 for a grant that was revoked, else a grant or *)
(* an error on the way.                                                         *)
PostToken(p) ==
  /\ At(p, "post")
  /\ LET comes(o) == Does(p, [pc |-> "record", account |-> Account(p), outcome |-> o])
     IN  \/ comes(IF Account(p) \in revoked THEN "refused" ELSE "granted")
         \/ comes("failed")
  /\ UNCHANGED <<conn, cached, revoked, overtaken>>

(* An update of the member's row, whatever it is by now, and of none if there is none. *)
Updated(row) == conn' = IF conn = NONE THEN NONE ELSE row

(* Seeded fault: the row is written anew. *)
StoredAnew(a, rotated) == Row(a)

(* recordRefreshSuccess: the rotated token, if there is one. *)
RefreshedRow(a, rotated) ==
  IF conn = NONE THEN NONE
  ELSE IF rotated THEN [conn EXCEPT !.status = "active", !.token = a, !.readable = TRUE]
  ELSE [conn EXCEPT !.status = "active"]

(* A rotated token of another account than the row's is now the one stored. *)
recordRefreshSuccess(p) ==
  /\ At(p, "record") /\ calls[p].outcome = "granted"
  /\ \E rotated \in BOOLEAN :
       /\ rotated => Rotating
       /\ conn' = RefreshedRow(Account(p), rotated)
       /\ overtaken' = (overtaken \cup {q \in Procs : /\ rotated /\ Refreshing(q)
                                                      /\ Account(q) # Account(p)}) \ {p}
  /\ cached' = Account(p)
  /\ Answers(p)
  /\ UNCHANGED revoked

(* Seeded fault: every refresh that fails is taken for a revoked grant. *)
AlwaysReauth(outcome) == "needs_reauth"

(* A refusal asks for a new consent, another error is tried again. *)
StatusAfter(outcome) == IF outcome = "failed" THEN "error" ELSE "needs_reauth"

recordRefreshError(p) ==
  /\ \/ At(p, "unreadable") /\ Updated([conn EXCEPT !.status = "needs_reauth"])
     \/ /\ At(p, "record") /\ calls[p].outcome # "granted"
        /\ LET status == StatusAfter(calls[p].outcome)
           IN  conn' = IF conn = NONE THEN NONE ELSE [conn EXCEPT !.status = status]
  /\ cached' = NONE
  /\ overtaken' = overtaken \ {p}
  /\ Answers(p)
  /\ UNCHANGED revoked
-----------------------------------------------------------------------------
(* An hour passes since the cached token was granted. *)
Expire == cached # NONE /\ cached' = NONE /\ UNCHANGED <<conn, revoked, calls, overtaken>>

Revoke(a) == a \notin revoked /\ revoked' = revoked \cup {a} /\ UNCHANGED <<conn, cached, calls, overtaken>>

(* The process starts again, with the same JWT_SECRET or another one. *)
Restart ==
  /\ \E same \in BOOLEAN :
       conn' = IF conn = NONE THEN NONE ELSE [conn EXCEPT !.readable = conn.readable /\ same]
  /\ cached' = NONE
  /\ calls' = [p \in Procs |-> NONE] /\ overtaken' = {}
  /\ UNCHANGED revoked

TokenNext ==
  \/ \E p \in Procs, a \in Accounts : Callback(p, a)
  \/ \E p \in Procs : \/ Exchange(p) \/ upsertConnection(p)
                      \/ Wanted(p) \/ FromCache(p) \/ ReadToken(p) \/ PostToken(p)
                      \/ recordRefreshSuccess(p) \/ recordRefreshError(p)
  \/ deleteConnection
  \/ Expire
  \/ \E a \in Accounts : Revoke(a)
  \/ Restart

TokenSpec == TokenInit /\ [][TokenNext]_tokenVars
-----------------------------------------------------------------------------
(* A connection is marked needs_reauth only for its own sake: the provider refused *)
(* the token it holds, or that token cannot be read; an outage leaves it to be     *)
(* tried again (schema.ts:5-11).  The one other way is a refresh that a consent    *)
(* has overtaken, whose refusal is recorded by member, on the new connection.      *)
OutageStep ==
  conn # NONE /\ conn' # NONE /\ conn'.status = "needs_reauth" /\ conn.status # "needs_reauth"
    => \E p \in Procs :
         \/ At(p, "unreadable") /\ (p \in overtaken \/ ~conn.readable)
         \/ /\ At(p, "record") /\ calls[p].outcome = "refused"
            /\ p \in overtaken \/ Account(p) = conn.token

(* Only a member's consent makes a connection or names its account: a refresh that *)
(* ends after a disconnect brings nothing back (store.ts:103-120 update, and never  *)
(* insert).  The stored token changes account by consent too, but for one case:     *)
(* where tokens rotate, a refresh that a consent has overtaken still stores its own.*)
Consents(a) == \E p \in Procs : At(p, "upsert") /\ Account(p) = a

ConsentStep ==
  \A a \in Accounts :
    /\ conn' # NONE /\ conn'.label = a /\ (IF conn = NONE THEN TRUE ELSE conn.label # a)
         => Consents(a) /\ conn'.token = a
    /\ conn' # NONE /\ conn'.token = a /\ (IF conn = NONE THEN TRUE ELSE conn.token # a)
         => \/ Consents(a) /\ conn'.label = a
            \/ /\ Rotating
               /\ \E p \in overtaken : At(p, "record") /\ calls[p].outcome = "granted" /\ Account(p) = a
=============================================================================
