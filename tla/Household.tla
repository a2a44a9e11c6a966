------------------------------- MODULE Household -------------------------------
(***************************************************************************)
(* The household's members, what they own, and what their credentials      *)
(* allow: service.ts, routes.ts and maintenance-admin.ts of src/household, *)
(* bootstrap of src/index.ts, the identity of src/wiring.ts and the token  *)
(* exchange of src/satellite.                                              *)
(*                                                                         *)
(* The maintenance account is anchored on its handle, which nothing        *)
(* changes, so its guards cannot go stale; a login token carries the role  *)
(* it was issued with, and can.                                            *)
(***************************************************************************)
EXTENDS Integers, FiniteSets

CONSTANTS Members,        \* ordinary members
          Maint,          \* the account whose handle is 'admin'
          Providers,
          Belongings,     \* content rows: events, recipes, bookings, plan entries, routines
          KindOf,         \* what a row's member column is
          LoginLife, SatelliteLife,
          NONE

VARIABLES up,
          role,           \* users.role, NONE without a row
          holder,         \* whose email is the configured ADMIN_EMAIL
          owner,          \* the member a content row names, NONE without the row
          conns,          \* integration_connections: <<member, provider>>
          synced,         \* integration_sync_state of the members' default calendars
          registered,     \* providers that registered in this process
          leaving,        \* deletions that have checked and not yet deleted
          keys,           \* members with an API key
          login, satellite  \* a login token and a satellite token, or NONE

householdVars == <<up, role, holder, owner, conns, synced, registered, leaving, keys, login, satellite>>
data   == <<owner, conns, synced, registered>>
tokens == <<keys, login, satellite>>
-----------------------------------------------------------------------------
Users == Members \cup {Maint}
Roles == {"admin", "adult", "child"}
Kinds == {"created",    \* events.created_by, recipes.created_by: NOT NULL, ON DELETE CASCADE
          "assigned",   \* attendees, cook, helper, mirrors, allowlists: removed or cleared
          "booked",     \* transactions.created_by, splits: ON DELETE RESTRICT
          "routine"}    \* routines.owner_member_id: ON DELETE SET NULL

Tokens == [member : Users, role : Roles, left : Nat, gone : Nat]

HouseholdTypeOK ==
  /\ up \in BOOLEAN
  /\ role \in [Users -> Roles \cup {NONE}]
  /\ holder \in {u \in Users : role[u] # NONE} \cup {NONE}
  /\ owner \in [Belongings -> Users \cup {NONE}]
  /\ \A r \in Belongings : owner[r] # NONE => role[owner[r]] # NONE
  /\ conns \subseteq Users \X Providers /\ synced \subseteq Users \X Providers
  /\ registered \subseteq Providers
  /\ leaving \subseteq Members /\ keys \subseteq {u \in Users : role[u] # NONE}
  /\ login \in Tokens \cup {NONE} /\ satellite \in Tokens \cup {NONE}

(* A database from before the account was kept apart: it may own anything a    *)
(* member may, and be missing or demoted.                                      *)
HouseholdInit ==
  /\ up = FALSE /\ registered = {} /\ leaving = {}
  /\ role \in {r \in [Users -> Roles \cup {NONE}] : \A m \in Members : r[m] \in {"adult", NONE}}
  /\ holder \in {u \in Users : role[u] # NONE} \cup {NONE}
  /\ owner \in [Belongings -> {u \in {Maint} : role[u] # NONE} \cup {NONE}]
  /\ conns \in SUBSET ({u \in {Maint} : role[u] # NONE} \X Providers)
  /\ synced \in SUBSET ({u \in {Maint} : role[u] # NONE} \X Providers)
  /\ keys = {} /\ login = NONE /\ satellite = NONE
-----------------------------------------------------------------------------
isMaintenanceAdmin(u) == u = Maint

RowsOf(u, kinds) == {r \in Belongings : owner[r] = u /\ KindOf[r] \in kinds}
Cleared(rs)      == [r \in Belongings |-> IF r \in rs THEN NONE ELSE owner[r]]

SweptRegistered == registered  \* seeded fault: only the providers of this process

(* stripAdminOwnedData: what a member column names, connections, and the sync   *)
(* state of the providers that are registered or were connected; rows that must *)
(* have a creator go to an heir, if there is one.                               *)
SweptProviders == registered \cup {p \in Providers : <<Maint, p>> \in conns}

Heirs == {m \in Members : role[m] # NONE}

Stripped ==
  \E heir \in IF Heirs = {} THEN {NONE} ELSE Heirs :
    /\ owner' = [r \in Belongings |->
                   IF r \in RowsOf(Maint, {"assigned"}) THEN NONE
                   ELSE IF r \in RowsOf(Maint, {"created"}) /\ heir # NONE THEN heir
                   ELSE owner[r]]
    /\ conns'  = {c \in conns : c[1] # Maint}
    /\ synced' = {s \in synced : ~(s[1] = Maint /\ s[2] \in SweptProviders)}

(* The registry is the process's: a provider registers when its env is present. *)
registerProviders(reg) == registered' = reg

(* bootstrap: repairMaintenanceAdmin in a transaction; it throws, and nothing   *)
(* starts, when somebody else holds the configured email.  Only then do the     *)
(* modules of the app register the providers that have their env.               *)
Boot(reg) ==
  /\ ~up /\ holder \in {Maint, NONE}
  /\ up' = TRUE /\ registerProviders(reg)
  /\ role' = [role EXCEPT ![Maint] = "admin"]
  /\ holder' = Maint
  /\ Stripped
  /\ UNCHANGED <<leaving, tokens>>

(* The operator sets ADMIN_EMAIL to an address a member has, or nobody. *)
RotateEmail(u) ==
  /\ ~up /\ u # holder /\ u \in {v \in Users : role[v] # NONE} \cup {NONE}
  /\ holder' = u
  /\ UNCHANGED <<up, role, data, leaving, tokens>>

Stop ==
  /\ up /\ up' = FALSE /\ leaving' = {} /\ registerProviders({})
  /\ UNCHANGED <<role, holder, owner, conns, synced, tokens>>
-----------------------------------------------------------------------------
(* Who a request can come from: the bearer of the login token, with the role it *)
(* says, or of an API key, with the role the member has now.                    *)
Principals ==
  {[member |-> t.member, role |-> t.role, jwt |-> TRUE] : t \in {login} \ {NONE}} \cup
  {[member |-> u, role |-> role[u], jwt |-> FALSE] : u \in keys}

Admins == {p \in Principals : p.role = "admin"}
Grown  == {p \in Principals : p.role \in {"admin", "adult"}}

Login(u) ==
  /\ up /\ role[u] # NONE
  /\ login' = [member |-> u, role |-> role[u], left |-> LoginLife, gone |-> 0]
  /\ UNCHANGED <<up, role, holder, data, leaving, keys, satellite>>

(* Seeded fault: the exchange takes the satellite's own token as a credential. *)
AnyBearer == {login, satellite} \ {NONE}

Bearers == {login} \ {NONE}

(* mintSatelliteToken: the member and the role of the caller, for a short life. *)
Mint ==
  /\ up
  /\ \/ \E t \in Bearers : satellite' = [t EXCEPT !.left = SatelliteLife]
     \/ \E u \in keys : satellite' = [member |-> u, role |-> role[u], left |-> SatelliteLife, gone |-> 0]
  /\ UNCHANGED <<up, role, holder, data, leaving, keys, login>>

createApiKey ==
  /\ up /\ \E p \in Grown : p.jwt /\ role[p.member] # NONE /\ keys' = keys \cup {p.member}
  /\ UNCHANGED <<up, role, holder, data, leaving, login, satellite>>

revokeApiKey(u) ==
  /\ up /\ u \in keys
  /\ \E p \in Grown : p.jwt /\ (p.member = u \/ p.role = "admin")
  /\ keys' = keys \ {u}
  /\ UNCHANGED <<up, role, holder, data, leaving, login, satellite>>

(* Time passes: a token ages, also while its member no longer has its role. *)
Aged(t) ==
  IF t = NONE \/ t.left = 0 THEN NONE
  ELSE [t EXCEPT !.left = @ - 1, !.gone = IF role[t.member] = t.role THEN 0 ELSE @ + 1]

Tick ==
  /\ login # NONE \/ satellite # NONE
  /\ login' = Aged(login) /\ satellite' = Aged(satellite)
  /\ UNCHANGED <<up, role, holder, data, leaving, keys>>
-----------------------------------------------------------------------------
createMember(m, r) ==
  /\ up /\ Admins # {} /\ role[m] = NONE /\ r \in {"adult", "child"}
  /\ role' = [role EXCEPT ![m] = r]
  /\ UNCHANGED <<up, holder, data, leaving, tokens>>

(* A member changes an email away from ADMIN_EMAIL; the account's own is the env's. *)
updateMember(m) ==
  /\ up /\ ~isMaintenanceAdmin(m)
  /\ \E p \in Principals : p.member = m \/ p.role = "admin"
  /\ holder = m /\ holder' = NONE
  /\ UNCHANGED <<up, role, data, leaving, tokens>>

(* Seeded fault: anybody but oneself can be given another role. *)
NotOneself(u) == \E p \in Admins : p.member # u

MayDemote(u) == ~isMaintenanceAdmin(u)

setMemberRole(u, r) ==
  /\ up /\ Admins # {} /\ MayDemote(u) /\ role[u] # NONE
  /\ role' = [role EXCEPT ![u] = r]
  /\ UNCHANGED <<up, holder, data, leaving, tokens>>

(* deleteMember lists the members and checks, then deletes by id. *)
StartDelete(m) ==
  /\ up /\ \E p \in Admins : p.member # m
  /\ role[m] # NONE /\ m \notin leaving
  /\ role[m] = "admin" => Cardinality({u \in Users : role[u] = "admin"}) > 1
  /\ leaving' = leaving \cup {m}
  /\ UNCHANGED <<up, role, holder, data, tokens>>

FinishDelete(m) ==
  /\ up /\ m \in leaving
  /\ leaving' = leaving \ {m}
  /\ IF RowsOf(m, {"booked"}) # {} \/ role[m] = NONE
     THEN UNCHANGED <<role, holder, owner, conns, keys>>
     ELSE /\ role'   = [role EXCEPT ![m] = NONE]
          /\ holder' = IF holder = m THEN NONE ELSE holder
          /\ owner'  = Cleared(RowsOf(m, Kinds))
          /\ conns'  = {c \in conns : c[1] # m}
          /\ keys'   = keys \ {m}
  /\ UNCHANGED <<up, synced, registered, login, satellite>>
-----------------------------------------------------------------------------
(* Seeded fault: a row may be assigned to whoever asks for it. *)
AssertsOwner(p, u) == u = p.member \/ ~isMaintenanceAdmin(u)

(* assertNotMaintenanceAdmin, before every write that names a member. *)
NotMaintenance(p, u) == ~isMaintenanceAdmin(u)

(* A write of content: its creator is the caller; who it is for, anybody the     *)
(* caller names.  A routine's owner is not guarded.  Bound: a row is written once. *)
WriteRow(r, p, u) ==
  /\ up /\ owner[r] = NONE /\ role[u] # NONE
  /\ KindOf[r] = "created" => u = p.member
  /\ KindOf[r] = "booked"  => u = p.member /\ p.role \in {"admin", "adult"}
  /\ KindOf[r] # "routine" => NotMaintenance(p, u)
  /\ owner' = [owner EXCEPT ![r] = u]
  /\ UNCHANGED <<up, role, holder, conns, synced, registered, leaving, tokens>>

(* The consent callback of a provider, its polls, and a disconnection. *)
Connect(u, pr) ==
  /\ up /\ pr \in registered /\ role[u] # NONE /\ ~isMaintenanceAdmin(u)
  /\ conns' = conns \cup {<<u, pr>>}
  /\ UNCHANGED <<up, role, holder, owner, synced, registered, leaving, tokens>>

Poll(u, pr) ==
  /\ up /\ pr \in registered /\ <<u, pr>> \in conns
  /\ synced' = synced \cup {<<u, pr>>}
  /\ UNCHANGED <<up, role, holder, owner, conns, registered, leaving, tokens>>

Disconnect(u, pr) ==
  /\ up /\ pr \in registered /\ <<u, pr>> \in conns
  /\ \E p \in Principals : p.member = u
  /\ conns' = conns \ {<<u, pr>>}
  /\ UNCHANGED <<up, role, holder, owner, synced, registered, leaving, tokens>>

HouseholdNext ==
  \/ \E reg \in SUBSET Providers : Boot(reg)
  \/ \E u \in Users \cup {NONE} : RotateEmail(u)
  \/ Stop \/ Tick \/ Mint \/ createApiKey
  \/ \E u \in Users : Login(u) \/ revokeApiKey(u) \/ \E r \in Roles : setMemberRole(u, r)
  \/ \E m \in Members : updateMember(m) \/ StartDelete(m) \/ FinishDelete(m)
                        \/ \E r \in Roles : createMember(m, r)
  \/ \E r \in Belongings, p \in Principals, u \in Users : WriteRow(r, p, u)
  \/ \E u \in Users, pr \in Providers : Connect(u, pr) \/ Poll(u, pr) \/ Disconnect(u, pr)

HouseholdSpec == HouseholdInit /\ [][HouseholdNext]_householdVars
-----------------------------------------------------------------------------
(* While the process runs the maintenance account administers and is kept apart  *)
(* from the household (maintenance-admin.ts:59-76, 145-148): it is named by no    *)
(* assignment and holds no connection.  A routine's owner and an old booking are *)
(* not swept.                                                                    *)
Quarantined ==
  up => /\ role[Maint] = "admin"
        /\ RowsOf(Maint, {"assigned"}) = {}
        /\ \A pr \in Providers : <<Maint, pr>> \notin conns

(* No feed of the account is left frozen in the status of a registered provider   *)
(* (maintenance-admin.ts:172-180).  It does not hold: when the account has no     *)
(* connection any more, the sweep would have to know the registered providers,    *)
(* and runs before they register (index.ts:23-28).                                *)
NoFrozenFeed == up => \A pr \in registered : <<Maint, pr>> \notin synced

(* A start of the process leaves no sync state of a provider the account was     *)
(* connected to, and repoints what it created as soon as there is a member; and  *)
(* nothing later gives it anything (index.ts:21-26).                             *)
SweptStep ==
  /\ (~up /\ up') =>
       /\ \A pr \in Providers : <<Maint, pr>> \in conns => <<Maint, pr>> \notin synced'
       /\ (\E m \in Members : role[m] # NONE) =>
            \A r \in Belongings : KindOf[r] = "created" => owner'[r] # Maint
  /\ \A r \in Belongings : KindOf[r] # "routine" /\ owner'[r] = Maint => owner[r] = Maint

(* No credential outlives the role it grants by more than its own life and that  *)
(* of the token it was exchanged for (satellite/token.ts:16-19, 31-36).          *)
RightsEnd == \A t \in {login, satellite} \ {NONE} : t.gone <= LoginLife + SatelliteLife
=============================================================================
