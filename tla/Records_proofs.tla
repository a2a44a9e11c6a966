---------------------------- MODULE Records_proofs ----------------------------
(* Proofs of what the services of Records promise, each for any number of     *)
(* requests, members and rows of its own.                                      *)
EXTENDS Records, TLAPS

(* ---------------------------------------------------------------- Household *)

(* What a login token and a satellite token have left of their lives, and have spent *)
(* without the role they name, are no more than the lives they were given.           *)
Lives ==
  /\ login # NONE => login.gone + login.left <= LoginLife
  /\ satellite # NONE => satellite.gone + satellite.left <= LoginLife + SatelliteLife

PeopleInv == People!HouseholdTypeOK /\ People!Quarantined /\ Lives

LEMMA PeopleStart == People!HouseholdInit => PeopleInv
BY RecordsAssumption
   DEF People!HouseholdInit, PeopleInv, People!HouseholdTypeOK, People!Quarantined, Lives,
       People!Users, People!Roles

(* ------------------------------------------------------------------- tokens *)
LEMMA AgedType ==
  ASSUME NEW t \in People!Tokens \cup {NONE}
  PROVE  /\ People!Aged(t) \in People!Tokens \cup {NONE}
         /\ People!Aged(t) # NONE => /\ t \in People!Tokens
                                     /\ People!Aged(t).gone + People!Aged(t).left <= t.gone + t.left
<1>1. CASE t = NONE \/ t.left = 0
  BY <1>1 DEF People!Aged
<1>2. CASE t # NONE /\ t.left # 0
  <2> DEFINE g == IF role[t.member] = t.role THEN 0 ELSE t.gone + 1
  <2>1. /\ t \in People!Tokens /\ t.left \in Nat /\ t.gone \in Nat /\ t.left - 1 \in Nat
        /\ t.member \in People!Users /\ t.role \in People!Roles
    BY <1>2 DEF People!Tokens
  <2>2. g \in Nat /\ g + (t.left - 1) <= t.gone + t.left
    BY <2>1
  <2>3. People!Aged(t) = [t EXCEPT !.left = t.left - 1, !.gone = g]
    BY <1>2 DEF People!Aged
  <2> HIDE DEF g
  <2>4. /\ [t EXCEPT !.left = t.left - 1, !.gone = g] \in People!Tokens
        /\ [t EXCEPT !.left = t.left - 1, !.gone = g].left = t.left - 1
        /\ [t EXCEPT !.left = t.left - 1, !.gone = g].gone = g
    BY <2>1, <2>2 DEF People!Tokens
  <2> QED BY <2>1, <2>2, <2>3, <2>4
<1> QED BY <1>1, <1>2

LEMMA TickLives ==
  ASSUME PeopleInv, People!Tick
  PROVE  PeopleInv'
<1>1. /\ login \in People!Tokens \cup {NONE} /\ satellite \in People!Tokens \cup {NONE}
      /\ login' = People!Aged(login) /\ satellite' = People!Aged(satellite)
      /\ UNCHANGED <<up, role, holder, owner, conns, synced, registered, leaving, keys>>
  BY DEF PeopleInv, People!HouseholdTypeOK, People!Tick, People!data
<1>2. /\ login' \in People!Tokens \cup {NONE}
      /\ login' # NONE => /\ login # NONE /\ login \in People!Tokens
                          /\ login'.gone + login'.left <= login.gone + login.left
  BY <1>1, AgedType DEF People!Aged
<1>3. /\ satellite' \in People!Tokens \cup {NONE}
      /\ satellite' # NONE => /\ satellite # NONE /\ satellite \in People!Tokens
                              /\ satellite'.gone + satellite'.left <= satellite.gone + satellite.left
  BY <1>1, AgedType DEF People!Aged
<1>4. Lives'
  BY <1>2, <1>3, RecordsAssumption DEF PeopleInv, Lives, People!Tokens
<1> QED BY <1>1, <1>2, <1>3, <1>4
        DEF PeopleInv, People!HouseholdTypeOK, People!Quarantined, People!RowsOf, People!Tokens

(* A new token has its whole life before it, or what is left to the one it is exchanged for. *)
LEMMA CredentialSteps ==
  ASSUME PeopleInv, \/ \E u \in People!Users : People!Login(u)
                    \/ People!Mint
  PROVE  PeopleInv'
<1> USE RecordsAssumption
<1>1. ASSUME NEW u \in People!Users, People!Login(u) PROVE PeopleInv'
  <2>1. /\ login' = [member |-> u, role |-> role[u], left |-> LoginLife, gone |-> 0]
        /\ role[u] \in People!Roles
        /\ UNCHANGED <<up, role, holder, owner, conns, synced, registered, leaving, keys, satellite>>
    BY <1>1 DEF PeopleInv, People!HouseholdTypeOK, People!Login, People!data
  <2>2. login' \in People!Tokens /\ login'.gone + login'.left <= LoginLife
    BY <2>1 DEF People!Tokens
  <2> QED BY <2>1, <2>2
          DEF PeopleInv, Lives, People!HouseholdTypeOK, People!Quarantined, People!RowsOf
<1>2. ASSUME People!Mint PROVE PeopleInv'
  <2>1. UNCHANGED <<up, role, holder, owner, conns, synced, registered, leaving, keys, login>>
    BY <1>2 DEF People!Mint, People!data
  <2>2. /\ satellite' \in People!Tokens
        /\ satellite'.gone + satellite'.left <= LoginLife + SatelliteLife
    <3>1. ASSUME NEW t \in People!Bearers, satellite' = [t EXCEPT !.left = SatelliteLife]
          PROVE  <2>2!1 /\ <2>2!2
      <4>1. t \in People!Tokens /\ t.gone + t.left <= LoginLife
        BY <3>1 DEF People!Bearers, PeopleInv, Lives, People!HouseholdTypeOK
      <4>2. t.gone \in Nat /\ t.left \in Nat
        BY <4>1 DEF People!Tokens
      <4>3. /\ satellite' \in People!Tokens
            /\ satellite'.gone = t.gone /\ satellite'.left = SatelliteLife
        BY <3>1, <4>1 DEF People!Tokens
      <4> QED BY <4>1, <4>2, <4>3
    <3>2. ASSUME NEW u \in keys,
                 satellite' = [member |-> u, role |-> role[u], left |-> SatelliteLife, gone |-> 0]
          PROVE  <2>2!1 /\ <2>2!2
      <4>1. u \in People!Users /\ role[u] \in People!Roles
        BY DEF PeopleInv, People!HouseholdTypeOK
      <4> QED BY <3>2, <4>1 DEF People!Tokens
    <3> QED BY <1>2, <3>1, <3>2 DEF People!Mint
  <2> QED BY <2>1, <2>2
          DEF PeopleInv, Lives, People!HouseholdTypeOK, People!Quarantined, People!RowsOf
<1> QED BY <1>1, <1>2

(* A start of the process cleans up what the account owns; what it is given instead goes *)
(* to a member there is.                                                                *)
LEMMA BootSweeps ==
  ASSUME PeopleInv, NEW reg \in SUBSET Providers, People!Boot(reg)
  PROVE  PeopleInv' /\ People!SweptStep
<1> USE RecordsAssumption
<1>1. PICK heir \in (IF People!Heirs = {} THEN {NONE} ELSE People!Heirs) :
         /\ owner' = [r \in Belongings |->
                        IF r \in People!RowsOf(Maint, {"assigned"}) THEN NONE
                        ELSE IF r \in People!RowsOf(Maint, {"created"}) /\ heir # NONE THEN heir
                        ELSE owner[r]]
         /\ conns'  = {c \in conns : c[1] # Maint}
         /\ synced' = {s \in synced : ~(s[1] = Maint /\ s[2] \in People!SweptProviders)}
  BY DEF People!Boot, People!Stripped
<1>2. heir # NONE => heir \in Persons /\ role[heir] # NONE
  BY DEF People!Heirs
<1>3. (\E m \in Persons : role[m] # NONE) => heir # NONE
  BY DEF People!Heirs
<1>4. /\ ~up /\ up' = TRUE /\ registered' = reg /\ holder' = Maint
      /\ role' = [role EXCEPT ![Maint] = "admin"]
      /\ UNCHANGED <<leaving, keys, login, satellite>>
  BY DEF People!Boot, People!registerProviders, People!tokens
<1>5. /\ role \in [People!Users -> People!Roles \cup {NONE}]
      /\ owner \in [Belongings -> People!Users \cup {NONE}]
      /\ \A r \in Belongings : owner[r] # NONE => role[owner[r]] # NONE
      /\ conns \subseteq People!Users \X Providers /\ synced \subseteq People!Users \X Providers
  BY DEF PeopleInv, People!HouseholdTypeOK
<1>6. /\ role' \in [People!Users -> People!Roles \cup {NONE}] /\ role'[Maint] = "admin"
      /\ \A u \in People!Users : u # Maint => role'[u] = role[u]
  BY <1>4, <1>5 DEF People!Users, People!Roles
<1>7. ASSUME NEW r \in Belongings
      PROVE  \/ owner'[r] = NONE
             \/ owner'[r] \in Persons /\ role[owner'[r]] # NONE
             \/ /\ owner'[r] = owner[r] /\ owner[r] \in People!Users /\ role[owner[r]] # NONE
                /\ owner[r] = Maint =>
                     /\ KindOf[r] # "assigned"
                     /\ KindOf[r] = "created" => heir = NONE
  <2>1. owner'[r] = (IF r \in People!RowsOf(Maint, {"assigned"}) THEN NONE
                     ELSE IF r \in People!RowsOf(Maint, {"created"}) /\ heir # NONE THEN heir
                     ELSE owner[r])
    BY <1>1
  <2> QED BY <2>1, <1>2, <1>5 DEF People!RowsOf
<1>8. owner' \in [Belongings -> People!Users \cup {NONE}]
  <2>1. owner' = [r \in Belongings |-> owner'[r]]
    BY <1>1
  <2>2. \A r \in Belongings : owner'[r] \in People!Users \cup {NONE}
    BY <1>7 DEF People!Users
  <2> QED BY <2>1, <2>2
<1>9. \A r \in Belongings : owner'[r] # NONE => role'[owner'[r]] # NONE
  BY <1>6, <1>7 DEF People!Users
<1>10. People!HouseholdTypeOK'
  <2>1. /\ holder' \in {u \in People!Users : role'[u] # NONE} \cup {NONE}
        /\ keys' \subseteq {u \in People!Users : role'[u] # NONE}
    BY <1>4, <1>6 DEF PeopleInv, People!HouseholdTypeOK, People!Users
  <2>2. conns' \subseteq People!Users \X Providers /\ synced' \subseteq People!Users \X Providers
    BY <1>1, <1>5
  <2> QED BY <1>4, <1>6, <1>8, <1>9, <2>1, <2>2 DEF PeopleInv, People!HouseholdTypeOK
<1>11. People!Quarantined'
  <2>1. \A r \in Belongings : owner'[r] = Maint => KindOf[r] # "assigned"
    BY <1>7
  <2> QED BY <1>1, <1>6, <2>1 DEF People!Quarantined, People!RowsOf
<1>12. Lives'
  BY <1>4 DEF PeopleInv, Lives
<1>13. People!SweptStep
  <2>1. \A pr \in Providers : <<Maint, pr>> \in conns => <<Maint, pr>> \notin synced'
    BY <1>1 DEF People!SweptProviders
  <2>2. ASSUME NEW r \in Belongings, owner'[r] = Maint
        PROVE  /\ owner[r] = Maint
               /\ (\E m \in Persons : role[m] # NONE) => KindOf[r] # "created"
    BY <1>3, <1>7, <2>2
  <2> QED BY <2>1, <2>2 DEF People!SweptStep
<1> QED BY <1>10, <1>11, <1>12, <1>13 DEF PeopleInv

(* Nothing but a start of the process, a deletion and a write changes whom a row names. *)
LEMMA SameOwners ==
  ASSUME PeopleInv, owner' = owner, up' => up
  PROVE  People!SweptStep
BY DEF People!SweptStep

LEMMA OtherSteps ==
  ASSUME PeopleInv, \/ \E u \in People!Users \cup {NONE} : People!RotateEmail(u)
                    \/ People!Stop \/ People!createApiKey
                    \/ \E u \in People!Users : People!revokeApiKey(u)
                    \/ \E m \in Persons : People!updateMember(m) \/ People!StartDelete(m)
                    \/ \E u \in People!Users, pr \in Providers :
                         People!Poll(u, pr) \/ People!Disconnect(u, pr)
  PROVE  PeopleInv' /\ owner' = owner /\ (up' => up)
<1> USE RecordsAssumption
        DEF PeopleInv, Lives, People!HouseholdTypeOK, People!Quarantined, People!RowsOf,
            People!data, People!tokens
<1>1. ASSUME NEW u \in People!Users \cup {NONE}, People!RotateEmail(u)
      PROVE  PeopleInv' /\ owner' = owner /\ (up' => up)
  BY <1>1 DEF People!RotateEmail
<1>2. ASSUME People!Stop PROVE PeopleInv' /\ owner' = owner /\ (up' => up)
  BY <1>2 DEF People!Stop, People!registerProviders
<1>3. ASSUME People!createApiKey PROVE PeopleInv' /\ owner' = owner /\ (up' => up)
  <2>1. PICK p \in People!Grown :
          /\ role[p.member] # NONE /\ keys' = keys \cup {p.member}
          /\ UNCHANGED <<up, role, holder, owner, conns, synced, registered, leaving, login, satellite>>
    BY <1>3 DEF People!createApiKey
  <2>2. p.member \in People!Users
    BY DEF People!Grown, People!Principals, People!Tokens
  <2> QED BY <2>1, <2>2
<1>4. ASSUME NEW u \in People!Users, People!revokeApiKey(u)
      PROVE  PeopleInv' /\ owner' = owner /\ (up' => up)
  BY <1>4 DEF People!revokeApiKey
<1>5. ASSUME NEW m \in Persons, People!updateMember(m) \/ People!StartDelete(m)
      PROVE  PeopleInv' /\ owner' = owner /\ (up' => up)
  BY <1>5 DEF People!updateMember, People!StartDelete
<1>6. ASSUME NEW u \in People!Users, NEW pr \in Providers, People!Poll(u, pr) \/ People!Disconnect(u, pr)
      PROVE  PeopleInv' /\ owner' = owner /\ (up' => up)
  BY <1>6 DEF People!Poll, People!Disconnect
<1> QED BY <1>1, <1>2, <1>3, <1>4, <1>5, <1>6

(* A connection is a member's, never the account's. *)
LEMMA ConnectStep ==
  ASSUME PeopleInv, NEW u \in People!Users, NEW pr \in Providers, People!Connect(u, pr)
  PROVE  PeopleInv' /\ owner' = owner /\ (up' => up)
<1> USE RecordsAssumption
<1>1. /\ u # Maint /\ conns' = conns \cup {<<u, pr>>}
      /\ UNCHANGED <<up, role, holder, owner, synced, registered, leaving, keys, login, satellite>>
  BY DEF People!Connect, People!isMaintenanceAdmin, People!tokens
<1> QED BY <1>1
        DEF PeopleInv, Lives, People!HouseholdTypeOK, People!Quarantined, People!RowsOf

(* Nobody gives the account another role. *)
LEMMA RoleSteps ==
  ASSUME PeopleInv, NEW r \in People!Roles,
         \/ \E m \in Persons : People!createMember(m, r)
         \/ \E u \in People!Users : People!setMemberRole(u, r)
  PROVE  PeopleInv' /\ owner' = owner /\ (up' => up)
<1> USE RecordsAssumption
<1>1. PICK u \in People!Users :
         /\ u # Maint /\ role' = [role EXCEPT ![u] = r]
         /\ UNCHANGED <<up, holder, owner, conns, synced, registered, leaving, keys, login, satellite>>
  BY DEF People!createMember, People!setMemberRole, People!MayDemote, People!isMaintenanceAdmin,
         People!Users, People!data, People!tokens
<1>2. /\ role \in [People!Users -> People!Roles \cup {NONE}]
      /\ r # NONE /\ Maint \in People!Users
  BY DEF PeopleInv, People!HouseholdTypeOK, People!Roles, People!Users
<1>3. /\ role' \in [People!Users -> People!Roles \cup {NONE}] /\ role'[u] = r
      /\ \A v \in People!Users : v # u => role'[v] = role[v]
      /\ \A v \in People!Users : role[v] # NONE => role'[v] # NONE
  BY <1>1, <1>2
<1>4. People!HouseholdTypeOK'
  BY <1>1, <1>2, <1>3 DEF PeopleInv, People!HouseholdTypeOK
<1> QED BY <1>1, <1>2, <1>3, <1>4 DEF PeopleInv, Lives, People!Quarantined, People!RowsOf

(* A deletion clears every column that names the member, who is not the account. *)
LEMMA DeleteStep ==
  ASSUME PeopleInv, NEW m \in Persons, People!FinishDelete(m)
  PROVE  PeopleInv' /\ People!SweptStep
<1> USE RecordsAssumption
<1>1. /\ leaving' = leaving \ {m}
      /\ UNCHANGED <<up, synced, registered, login, satellite>>
      /\ m # Maint /\ m \in People!Users /\ Maint \in People!Users
  BY DEF People!FinishDelete, People!Users
<1>2. CASE People!RowsOf(m, {"booked"}) # {} \/ role[m] = NONE
  <2>1. UNCHANGED <<role, holder, owner, conns, keys>>
    BY <1>2 DEF People!FinishDelete
  <2> QED BY <1>1, <2>1
          DEF PeopleInv, Lives, People!HouseholdTypeOK, People!Quarantined, People!RowsOf, People!SweptStep
<1>3. CASE ~(People!RowsOf(m, {"booked"}) # {} \/ role[m] = NONE)
  <2>1. /\ role'   = [role EXCEPT ![m] = NONE]
        /\ holder' = (IF holder = m THEN NONE ELSE holder)
        /\ owner'  = People!Cleared(People!RowsOf(m, People!Kinds))
        /\ conns'  = {c \in conns : c[1] # m}
        /\ keys'   = keys \ {m}
    BY <1>3 DEF People!FinishDelete
  <2>2. /\ role \in [People!Users -> People!Roles \cup {NONE}]
        /\ owner \in [Belongings -> People!Users \cup {NONE}]
        /\ \A r \in Belongings : owner[r] # NONE => role[owner[r]] # NONE
    BY DEF PeopleInv, People!HouseholdTypeOK
  <2>3. /\ role' \in [People!Users -> People!Roles \cup {NONE}]
        /\ \A u \in People!Users : u # m => role'[u] = role[u]
    BY <1>1, <2>1, <2>2
  <2>4. /\ owner' = [r \in Belongings |-> owner'[r]]
        /\ \A r \in Belongings : owner'[r] = (IF owner[r] = m THEN NONE ELSE owner[r])
    BY <2>1 DEF People!Cleared, People!RowsOf, People!Kinds
  <2>5. owner' \in [Belongings -> People!Users \cup {NONE}]
    <3>1. \A r \in Belongings : owner'[r] \in People!Users \cup {NONE}
      BY <2>2, <2>4
    <3> QED BY <2>4, <3>1
  <2>6. People!HouseholdTypeOK'
    <3>1. \A r \in Belongings : owner'[r] # NONE => role'[owner'[r]] # NONE
      BY <2>2, <2>3, <2>4
    <3>2. /\ holder' \in {u \in People!Users : role'[u] # NONE} \cup {NONE}
          /\ keys' \subseteq {u \in People!Users : role'[u] # NONE}
      BY <2>1, <2>3 DEF PeopleInv, People!HouseholdTypeOK
    <3> QED BY <1>1, <2>1, <2>3, <2>5, <3>1, <3>2 DEF PeopleInv, People!HouseholdTypeOK
  <2>7. People!Quarantined'
    BY <1>1, <2>1, <2>3, <2>4 DEF PeopleInv, People!Quarantined, People!RowsOf
  <2>8. People!SweptStep
    BY <1>1, <2>4 DEF People!SweptStep
  <2> QED BY <1>1, <2>6, <2>7, <2>8 DEF PeopleInv, Lives
<1> QED BY <1>2, <1>3

(* Every write that names a member refuses the account, but a routine's owner. *)
LEMMA WriteStep ==
  ASSUME PeopleInv, NEW r \in Belongings, NEW p \in People!Principals, NEW u \in People!Users,
         People!WriteRow(r, p, u)
  PROVE  PeopleInv' /\ People!SweptStep
<1> USE RecordsAssumption
<1>1. /\ role[u] # NONE /\ (u = Maint => KindOf[r] = "routine")
      /\ owner' = [owner EXCEPT ![r] = u]
      /\ UNCHANGED <<up, role, holder, conns, synced, registered, leaving, keys, login, satellite>>
  BY DEF People!WriteRow, People!NotMaintenance, People!isMaintenanceAdmin, People!tokens
<1>2. owner \in [Belongings -> People!Users \cup {NONE}]
  BY DEF PeopleInv, People!HouseholdTypeOK
<1>3. /\ owner' \in [Belongings -> People!Users \cup {NONE}] /\ owner'[r] = u
      /\ \A s \in Belongings : s # r => owner'[s] = owner[s]
  BY <1>1, <1>2
<1>4. People!HouseholdTypeOK'
  BY <1>1, <1>3 DEF PeopleInv, People!HouseholdTypeOK
<1>5. People!Quarantined'
  BY <1>1, <1>3 DEF PeopleInv, People!Quarantined, People!RowsOf
<1>6. People!SweptStep
  BY <1>1, <1>3 DEF People!SweptStep
<1> QED BY <1>1, <1>4, <1>5, <1>6 DEF PeopleInv, Lives

LEMMA PeopleStep ==
  ASSUME PeopleInv, [People!HouseholdNext]_people
  PROVE  PeopleInv' /\ (people' # people => People!SweptStep)
<1>1. CASE UNCHANGED people
  BY <1>1 DEF people, PeopleInv, Lives, People!HouseholdTypeOK, People!Quarantined, People!RowsOf
<1>2. CASE People!Tick
  <2>1. owner' = owner /\ up' = up
    BY <1>2 DEF People!Tick, People!data
  <2> QED BY <1>2, <2>1, TickLives, SameOwners
<1>3. CASE People!Mint \/ \E u \in People!Users : People!Login(u)
  <2>1. owner' = owner /\ up' = up
    BY <1>3 DEF People!Mint, People!Login, People!data
  <2> QED BY <1>3, <2>1, CredentialSteps, SameOwners
<1>4. CASE People!HouseholdNext
  BY <1>2, <1>3, <1>4, BootSweeps, OtherSteps, ConnectStep, RoleSteps, DeleteStep, WriteStep, SameOwners
     DEF People!HouseholdNext
<1> QED BY <1>1, <1>4

(* The maintenance account is kept apart while the process runs, whatever was in the *)
(* database before; a start cleans up what is the account's, and no request of        *)
(* anybody gives it anything but a routine (repairMaintenanceAdmin, the guards of     *)
(* the routers).                                                                      *)
THEOREM AdminKeptApart == People!HouseholdSpec => Secluded
<1>1. PeopleInv /\ [People!HouseholdNext]_people
        => PeopleInv' /\ (people' # people => People!SweptStep /\ People!Quarantined')
  BY PeopleStep DEF PeopleInv
<1> QED BY <1>1, PeopleStart, PTL
        DEF People!HouseholdSpec, Secluded, People!householdVars, people

(* Whatever a token was exchanged for, renewed with or demoted from, no credential    *)
(* grants a role for longer than two lives of a token after its member lost it        *)
(* (mintSatelliteToken).                                                              *)
THEOREM CredentialsEnd == People!HouseholdSpec => []CredentialsHold
<1>1. PeopleInv => CredentialsHold
  <2> SUFFICES ASSUME PeopleInv, NEW t \in {login, satellite} \ {NONE}
               PROVE  t.gone <= LoginLife + SatelliteLife
    BY DEF CredentialsHold, People!RightsEnd
  <2>1. t \in People!Tokens /\ t.gone + t.left <= LoginLife + SatelliteLife
    BY RecordsAssumption DEF PeopleInv, Lives, People!HouseholdTypeOK, People!Tokens
  <2> QED BY <2>1, RecordsAssumption DEF People!Tokens
<1>2. PeopleInv /\ [People!HouseholdNext]_people => PeopleInv'
  BY PeopleStep
<1> QED BY <1>1, <1>2, PeopleStart, PTL DEF People!HouseholdSpec, People!householdVars, people

(* Every variable of the household keeps its type: among them, no row, key or email is *)
(* ever a member's who is not there.                                                  *)
THEOREM HouseholdTypes == People!HouseholdSpec => []People!HouseholdTypeOK
<1>1. PeopleInv /\ [People!HouseholdNext]_people => PeopleInv'
  BY PeopleStep
<1>2. PeopleInv => People!HouseholdTypeOK
  BY DEF PeopleInv
<1> QED BY <1>1, <1>2, PeopleStart, PTL DEF People!HouseholdSpec, People!householdVars, people

(* --------------------------------------------------------------- Selections *)

(* What a request works on, by the point it has reached. *)
PickRequests ==
  [pc : {"discover"}, member : Picks!Members, entries : SUBSET Picks!Entries, todo : SUBSET ListProviders]
  \cup
  [pc : {"begin"}, member : Picks!Members, entries : SUBSET Picks!Entries, todo : SUBSET ListProviders,
   at : ListProviders, live : SUBSET Lists]
  \cup
  [pc : {"replace"}, member : Picks!Members, entries : SUBSET Picks!Entries, todo : SUBSET ListProviders,
   at : ListProviders, live : SUBSET Lists, gone : SUBSET Picks!AllRows,
   flagged : Picks!AllRows \cup {NONE}]
  \cup
  [pc : {"designate"}, row : Picks!AllRows]

(* A transaction that has read found its provider connected, and deletes rows of its *)
(* member there that the member did not ask for and that it did not read as the      *)
(* household's.                                                                      *)
Spares(r) ==
  r.pc = "replace" =>
    /\ r.live # {} /\ r.flagged \notin r.gone
    /\ \A x \in r.gone : /\ x.member = r.member /\ x.provider = r.at
                         /\ [provider |-> x.provider, list |-> x.list] \notin r.entries

PicksInv ==
  /\ allowed \subseteq Picks!AllRows /\ household \in allowed \cup {NONE}
  /\ offered \in [Picks!Members \X ListProviders -> SUBSET Lists]
  /\ request \in [Callers -> PickRequests \cup {NONE}]
  /\ \A p \in Callers : request[p] # NONE =>
       /\ request[p].pc = "begin" => request[p].live # {}
       /\ Spares(request[p])

LEMMA PicksStart == Picks!SelectionInit => PicksInv
BY DEF Picks!SelectionInit, PicksInv

(* A step of one request that writes nothing. *)
LEMMA RequestMoves ==
  ASSUME PicksInv, NEW p \in Callers, NEW r \in PickRequests \cup {NONE},
         request' = [request EXCEPT ![p] = r],
         r # NONE => (r.pc = "begin" => r.live # {}) /\ Spares(r),
         UNCHANGED <<allowed, household, offered>>
  PROVE  PicksInv' /\ Picks!SelectionStep
<1>1. request' \in [Callers -> PickRequests \cup {NONE}]
  BY DEF PicksInv
<1>2. ASSUME NEW q \in Callers, request'[q] # NONE
      PROVE  /\ request'[q].pc = "begin" => request'[q].live # {}
             /\ Spares(request'[q])
  <2>1. CASE q = p
    <3>1. request'[q] = r
      BY <2>1 DEF PicksInv
    <3> QED BY <1>2, <3>1 DEF Spares
  <2>2. CASE q # p
    <3>1. request'[q] = request[q]
      BY <2>2 DEF PicksInv
    <3> QED BY <1>2, <3>1 DEF PicksInv, Spares
  <2> QED BY <2>1, <2>2
<1> QED BY <1>1, <1>2 DEF PicksInv, Picks!SelectionStep

LEMMA DiscoverStep ==
  ASSUME PicksInv, NEW p \in Callers, Picks!Discover(p)
  PROVE  PicksInv' /\ Picks!SelectionStep
<1> DEFINE r == request[p]
<1>1. /\ r # NONE /\ r.pc = "discover" /\ UNCHANGED <<allowed, household, offered>>
      /\ r \in [pc : {"discover"}, member : Picks!Members, entries : SUBSET Picks!Entries,
                todo : SUBSET ListProviders]
  BY DEF Picks!Discover, Picks!At, PicksInv, PickRequests
<1>2. PICK pr \in r.todo :
        LET live == offered[<<r.member, pr>>]
        IN  \/ live = {} /\ Picks!NotOffered(p, pr)
            \/ Picks!Answers(p)
            \/ live # {} /\ Picks!Chosen(p, pr) \subseteq live /\ Picks!Chose(p, pr, live)
  BY DEF Picks!Discover
<1>3. CASE Picks!NotOffered(p, pr)
  <2> DEFINE n == [r EXCEPT !.todo = r.todo \ {pr}]
  <2>1. /\ request' = [request EXCEPT ![p] = n]
        /\ n \in PickRequests /\ n.pc = "discover"
    BY <1>1, <1>3 DEF Picks!NotOffered, Picks!Does, PickRequests
  <2> QED BY <1>1, <2>1, RequestMoves DEF Spares
<1>4. CASE Picks!Answers(p)
  BY <1>1, <1>4, RequestMoves DEF Picks!Answers, Picks!Does
<1>5. ASSUME NEW live, live = offered[<<r.member, pr>>], live # {}, Picks!Chose(p, pr, live)
      PROVE  PicksInv' /\ Picks!SelectionStep
  <2> DEFINE n == [pc |-> "begin", member |-> r.member, entries |-> r.entries,
                   todo |-> r.todo, at |-> pr, live |-> live]
  <2>1. live \in SUBSET Lists
    <3>1. r.member \in Picks!Members /\ pr \in ListProviders
      BY <1>1
    <3>2. <<r.member, pr>> \in Picks!Members \X ListProviders
      BY <3>1
    <3> QED BY <1>5, <3>2 DEF PicksInv
  <2>2. request' = [request EXCEPT ![p] = n]
    BY <1>5 DEF Picks!Chose, Picks!Does
  <2>3. n \in PickRequests /\ n.pc = "begin" /\ n.live = live
    BY <1>1, <2>1 DEF PickRequests
  <2> HIDE DEF n
  <2> QED BY <1>1, <1>5, <2>2, <2>3, RequestMoves DEF Spares
<1> QED BY <1>2, <1>3, <1>4, <1>5

LEMMA BeginStep ==
  ASSUME PicksInv, NEW p \in Callers, Picks!BeginReplace(p)
  PROVE  PicksInv' /\ Picks!SelectionStep
<1> DEFINE r == request[p]
           gone == {x \in Picks!RowsOf(r.member, r.at) : x.list \notin Picks!Chosen(p, r.at)}
           n == [pc |-> "replace", member |-> r.member, entries |-> r.entries,
                 todo |-> r.todo, at |-> r.at, live |-> r.live, gone |-> gone, flagged |-> household]
<1>1. /\ r # NONE /\ r.pc = "begin" /\ UNCHANGED <<allowed, household, offered>>
      /\ r \in [pc : {"begin"}, member : Picks!Members, entries : SUBSET Picks!Entries,
                todo : SUBSET ListProviders, at : ListProviders, live : SUBSET Lists]
      /\ r.live # {}
  BY DEF Picks!BeginReplace, Picks!At, PicksInv, PickRequests
<1>2. gone \in SUBSET Picks!AllRows
  BY DEF PicksInv, Picks!RowsOf
<1>3. ASSUME NEW x \in gone
      PROVE  /\ x.member = r.member /\ x.provider = r.at
             /\ [provider |-> x.provider, list |-> x.list] \notin r.entries
  <2>1. /\ x.member = r.member /\ x.provider = r.at
        /\ \A e \in r.entries : e.provider = r.at => e.list # x.list
    BY DEF Picks!RowsOf, Picks!Chosen
  <2> QED BY <2>1
<1>4. CASE household \in gone
  BY <1>1, <1>4, RequestMoves DEF Picks!BeginReplace, Picks!InUse, Picks!Answers, Picks!Does
<1>5. CASE household \notin gone
  <2>1. request' = [request EXCEPT ![p] = n]
    BY <1>5 DEF Picks!BeginReplace, Picks!InUse, Picks!Does
  <2> HIDE DEF gone
  <2> household \in Picks!AllRows \cup {NONE}
    BY DEF PicksInv
  <2>2. /\ n \in PickRequests /\ n.pc = "replace" /\ n.live = r.live /\ n.gone = gone /\ n.flagged = household
        /\ n.member = r.member /\ n.at = r.at /\ n.entries = r.entries
    BY <1>1, <1>2 DEF PickRequests
  <2> HIDE DEF n
  <2>3. Spares(n)
    BY <1>1, <1>3, <1>5, <2>2 DEF Spares
  <2> QED BY <1>1, <2>1, <2>2, <2>3, RequestMoves
<1> QED BY <1>4, <1>5

(* The rest of the transaction drops what it read, and takes the household's row only when *)
(* that was designated since: the one it read as the household's is not among them.        *)
LEMMA ReplaceStep ==
  ASSUME PicksInv, NEW p \in Callers, Picks!Replace(p)
  PROVE  PicksInv' /\ Picks!SelectionStep
<1> USE RecordsAssumption
<1> DEFINE r == request[p]
           n == [pc |-> "discover", member |-> r.member, entries |-> r.entries, todo |-> r.todo \ {r.at}]
           m == IF r.todo = {r.at} THEN NONE ELSE n
           left(q) == [request[q] EXCEPT !.gone = request[q].gone \ r.gone]
           new == Picks!AsRows(r.member, r.at, Picks!Chosen(p, r.at))
<1>1. /\ r # NONE /\ r.pc = "replace" /\ UNCHANGED offered
      /\ r \in [pc : {"replace"}, member : Picks!Members, entries : SUBSET Picks!Entries,
                todo : SUBSET ListProviders, at : ListProviders, live : SUBSET Lists,
                gone : SUBSET Picks!AllRows, flagged : Picks!AllRows \cup {NONE}]
      /\ allowed' = (allowed \ r.gone) \cup new
      /\ household' = (IF household \in r.gone THEN NONE ELSE household)
      /\ request' = [q \in Callers |-> IF q = p THEN m
                                       ELSE IF Picks!At(q, "replace") THEN left(q) ELSE request[q]]
  BY DEF Picks!Replace, Picks!Replaced, Picks!At, PicksInv, PickRequests
<1>2. n \in PickRequests /\ n.pc = "discover"
  BY <1>1 DEF PickRequests
<1>3. new \subseteq Picks!AllRows
  BY <1>1 DEF Picks!AsRows, Picks!Chosen, Picks!Entries, Picks!AllRows, Picks!Members
<1>4. Spares(r)
  BY <1>1 DEF PicksInv
<1>5. ASSUME NEW q \in Callers, Picks!At(q, "replace")
      PROVE  left(q) \in PickRequests /\ left(q).pc = "replace" /\ Spares(left(q))
  <2>1. /\ request[q] \in [pc : {"replace"}, member : Picks!Members, entries : SUBSET Picks!Entries,
                           todo : SUBSET ListProviders, at : ListProviders, live : SUBSET Lists,
                           gone : SUBSET Picks!AllRows, flagged : Picks!AllRows \cup {NONE}]
        /\ Spares(request[q])
    BY <1>5 DEF Picks!At, PicksInv, PickRequests
  <2>2. /\ left(q).gone \subseteq request[q].gone /\ left(q).pc = request[q].pc
        /\ left(q).live = request[q].live /\ left(q).flagged = request[q].flagged
        /\ left(q).member = request[q].member /\ left(q).at = request[q].at
        /\ left(q).entries = request[q].entries
    BY <2>1
  <2>3. left(q) \in PickRequests
    BY <2>1 DEF PickRequests
  <2> HIDE DEF left
  <2> QED BY <2>1, <2>2, <2>3 DEF Spares
<1> HIDE DEF new, n, left
<1>6. /\ allowed' \subseteq Picks!AllRows /\ household' \in allowed' \cup {NONE}
      /\ offered' \in [Picks!Members \X ListProviders -> SUBSET Lists]
  BY <1>1, <1>3 DEF PicksInv
<1>7. request' \in [Callers -> PickRequests \cup {NONE}]
  BY <1>1, <1>2, <1>5 DEF PicksInv
<1>8. ASSUME NEW q \in Callers, request'[q] # NONE
      PROVE  /\ request'[q].pc = "begin" => request'[q].live # {}
             /\ Spares(request'[q])
  <2>1. CASE q = p
    <3>1. request'[q].pc = "discover"
      BY <1>1, <1>2, <1>8, <2>1
    <3> QED BY <3>1 DEF Spares
  <2>2. CASE q # p /\ Picks!At(q, "replace")
    <3>1. request'[q] = left(q)
      BY <1>1, <2>2
    <3> QED BY <1>5, <2>2, <3>1
  <2>3. CASE q # p /\ ~Picks!At(q, "replace")
    <3>1. request'[q] = request[q]
      BY <1>1, <2>3
    <3> QED BY <1>8, <3>1 DEF PicksInv
  <2> QED BY <2>1, <2>2, <2>3
<1>9. Picks!SelectionStep
  <2>1. Picks!At(p, "replace")
    BY <1>1 DEF Picks!At
  <2>2. ASSUME NEW row \in allowed \ allowed'
        PROVE  \E q \in Callers : /\ Picks!At(q, "replace") /\ request[q].live # {}
                                  /\ request[q].at = row.provider /\ request[q].member = row.member
                                  /\ [provider |-> row.provider, list |-> row.list] \notin request[q].entries
    <3>1. row \in r.gone
      BY <1>1
    <3> QED BY <1>1, <1>4, <2>1, <3>1 DEF Spares
  <2>3. household # NONE /\ household' = NONE => r.flagged # household /\ household \in r.gone
    BY <1>1, <1>4 DEF Spares
  <2> QED BY <2>1, <2>2, <2>3 DEF Picks!SelectionStep
<1> QED BY <1>6, <1>7, <1>8, <1>9 DEF PicksInv

(* A designation that meets no row leaves a calendar where it was, and clears a list. *)
LEMMA DesignateStep ==
  ASSUME PicksInv, NEW p \in Callers, Picks!Designate(p)
  PROVE  PicksInv' /\ Picks!SelectionStep
<1> USE RecordsAssumption
<1> DEFINE row == request[p].row
<1>1. /\ request[p] # NONE /\ request[p].pc = "designate" /\ row \in Picks!AllRows
      /\ household' = (IF row \in allowed THEN row ELSE IF Checked THEN household ELSE NONE)
      /\ request' = [request EXCEPT ![p] = NONE]
      /\ UNCHANGED <<allowed, offered>>
  BY DEF Picks!Designate, Picks!Designated, Picks!At, Picks!Answers, Picks!Does, PicksInv, PickRequests
<1>2. row # NONE
  BY <1>1 DEF Picks!AllRows, Picks!Members
<1>3. household' \in allowed' \cup {NONE}
  BY <1>1 DEF PicksInv
<1>4. ASSUME NEW q \in Callers, request'[q] # NONE
      PROVE  /\ request'[q].pc = "begin" => request'[q].live # {}
             /\ Spares(request'[q])
  <2>1. q # p /\ request'[q] = request[q]
    BY <1>1, <1>4 DEF PicksInv
  <2> QED BY <1>4, <2>1 DEF PicksInv
<1>5. request' \in [Callers -> PickRequests \cup {NONE}]
  BY <1>1 DEF PicksInv
<1>6. Picks!SelectionStep
  <2>1. Picks!At(p, "designate")
    BY <1>1 DEF Picks!At
  <2>2. household # NONE /\ household' = NONE => ~Checked /\ row \notin allowed
    BY <1>1, <1>2
  <2> QED BY <1>1, <2>1, <2>2 DEF Picks!SelectionStep
<1> QED BY <1>1, <1>3, <1>4, <1>5, <1>6 DEF PicksInv

LEMMA PicksStep ==
  ASSUME PicksInv, [Picks!SelectionNext]_selections
  PROVE  PicksInv' /\ (selections' # selections => Picks!SelectionStep)
<1>1. CASE UNCHANGED selections
  BY <1>1 DEF selections, PicksInv, Spares
<1>2. ASSUME NEW p \in Callers, NEW m \in Picks!Members, NEW entries \in SUBSET Picks!Entries,
             Picks!StartSelect(p, m, entries)
      PROVE  PicksInv' /\ Picks!SelectionStep
  <2> DEFINE n == [pc |-> "discover", member |-> m, entries |-> entries, todo |-> ListProviders]
  <2>1. n \in PickRequests /\ n.pc = "discover"
    BY DEF PickRequests
  <2>2. request' = [request EXCEPT ![p] = n] /\ UNCHANGED <<allowed, household, offered>>
    BY <1>2 DEF Picks!StartSelect, Picks!Does
  <2> HIDE DEF n
  <2> QED BY <2>1, <2>2, RequestMoves DEF Spares
<1>3. ASSUME NEW p \in Callers, NEW m \in Picks!Members, NEW row \in allowed,
             Picks!StartDesignate(p, m, row)
      PROVE  PicksInv' /\ Picks!SelectionStep
  <2> DEFINE n == [pc |-> "designate", row |-> row]
  <2>1. n \in PickRequests /\ n.pc = "designate"
    BY DEF PickRequests, PicksInv
  <2>2. request' = [request EXCEPT ![p] = n] /\ UNCHANGED <<allowed, household, offered>>
    BY <1>3 DEF Picks!StartDesignate, Picks!Does
  <2> HIDE DEF n
  <2> QED BY <2>1, <2>2, RequestMoves DEF Spares
<1>4. ASSUME NEW p \in Callers, Picks!FinishSelect(p) PROVE PicksInv' /\ Picks!SelectionStep
  BY <1>4, RequestMoves DEF Picks!FinishSelect, Picks!Answers, Picks!Does
<1>5. ASSUME NEW m \in Picks!Members, NEW pr \in ListProviders, NEW lists \in SUBSET Lists,
             Picks!AccountChanges(m, pr, lists)
      PROVE  PicksInv' /\ Picks!SelectionStep
  <2>1. /\ UNCHANGED <<allowed, household, request>>
        /\ offered' = [offered EXCEPT ![<<m, pr>>] = lists]
    BY <1>5 DEF Picks!AccountChanges
  <2>2. offered' \in [Picks!Members \X ListProviders -> SUBSET Lists]
    BY <2>1 DEF PicksInv
  <2> QED BY <2>1, <2>2 DEF PicksInv, Spares, Picks!SelectionStep
<1>6. ASSUME Picks!StopSelections PROVE PicksInv' /\ Picks!SelectionStep
  BY <1>6 DEF Picks!StopSelections, PicksInv, Picks!SelectionStep
<1>7. CASE Picks!SelectionNext
  BY <1>2, <1>3, <1>4, <1>5, <1>6, <1>7, DiscoverStep, BeginStep, ReplaceStep, DesignateStep
     DEF Picks!SelectionNext
<1> QED BY <1>1, <1>7

(* A selection drops only rows of its own member, at a provider it found connected, that   *)
(* the member did not choose, however many selections and designations are in flight       *)
(* (setAllowlist); and a household loses the list it has only to a selection that had read *)
(* the row before it was designated, or, where a designation is not checked, to one of a   *)
(* list de-selected since it was asked for (setHouseholdList).                             *)
THEOREM SelectionsKept == Picks!SelectionSpec => SelectionKept
<1>1. PicksInv /\ [Picks!SelectionNext]_selections
        => PicksInv' /\ (selections' # selections => Picks!SelectionStep)
  BY PicksStep
<1> QED BY <1>1, PicksStart, PTL
        DEF Picks!SelectionSpec, SelectionKept, Picks!selectionVars, selections

(* -------------------------------------------------------------- LibrarySync *)

(* A sync writes what it fetched, all of it before it sweeps, and deletes nothing of it. *)
SyncOK(j) ==
  /\ \/ /\ j.pc \in {"fetch", "pages", "write", "sweep"} /\ j.deleted = {}
        /\ j = [pc |-> j.pc, token |-> j.token, got |-> j.got, wrote |-> j.wrote,
                deleted |-> j.deleted, rotated |-> j.rotated]
     \/ /\ j.pc \in {"delete", "commit"}
        /\ j = [pc |-> j.pc, doomed |-> j.doomed, token |-> j.token, got |-> j.got, wrote |-> j.wrote,
                deleted |-> j.deleted, rotated |-> j.rotated]
        /\ j.doomed \cap j.got = {} /\ j.deleted \subseteq j.doomed
  /\ j.wrote \subseteq j.got
  /\ j.pc \in {"fetch", "pages"} => j.wrote = {}
  /\ j.pc \in {"sweep", "delete", "commit"} => j.wrote = j.got

SyncsInv ==
  /\ DOMAIN syncJob = Callers
  /\ \A p \in Callers : syncJob[p] # NONE => SyncOK(syncJob[p])

(* The updates of more than one field of a job. *)
LEMMA JobFetched ==
  ASSUME NEW j, SyncOK(j), j.pc = "pages", NEW y, NEW k, k = [j EXCEPT !.pc = "write", !.got = y]
  PROVE  SyncOK(k)
<1>1. /\ j.deleted = {} /\ j.wrote = {}
      /\ j = [pc |-> j.pc, token |-> j.token, got |-> j.got, wrote |-> j.wrote,
              deleted |-> j.deleted, rotated |-> j.rotated]
  BY DEF SyncOK
<1>2. PICK pc, token, got, wrote, deleted, rotated :
        /\ deleted = {} /\ wrote = {}
        /\ j = [pc |-> pc, token |-> token, got |-> got, wrote |-> wrote, deleted |-> deleted,
                rotated |-> rotated]
  BY <1>1
<1>3. k = [pc |-> "write", token |-> token, got |-> y, wrote |-> wrote, deleted |-> deleted,
           rotated |-> rotated]
  BY <1>2
<1> QED BY <1>2, <1>3 DEF SyncOK

LEMMA JobRotated ==
  ASSUME NEW j, SyncOK(j), j.pc = "fetch", NEW y,
         NEW k, k = [j EXCEPT !.pc = "pages", !.token = y, !.rotated = TRUE]
  PROVE  SyncOK(k)
<1>1. /\ j.deleted = {} /\ j.wrote = {}
      /\ j = [pc |-> j.pc, token |-> j.token, got |-> j.got, wrote |-> j.wrote,
              deleted |-> j.deleted, rotated |-> j.rotated]
  BY DEF SyncOK
<1>2. PICK pc, token, got, wrote, deleted, rotated :
        /\ deleted = {} /\ wrote = {}
        /\ j = [pc |-> pc, token |-> token, got |-> got, wrote |-> wrote, deleted |-> deleted,
                rotated |-> rotated]
  BY <1>1
<1>3. k = [pc |-> "pages", token |-> y, got |-> got, wrote |-> wrote, deleted |-> deleted,
           rotated |-> TRUE]
  BY <1>2
<1> QED BY <1>2, <1>3 DEF SyncOK

LEMMA SyncsStart == Syncs!LibraryInit => SyncsInv
BY DEF Syncs!LibraryInit, SyncsInv

(* A step of one sync that is not its commit leaves the library as it is. *)
LEMMA SyncMoves ==
  ASSUME SyncsInv, NEW p \in Callers, ~Syncs!At(p, "commit"),
         NEW j, syncJob' = [syncJob EXCEPT ![p] = j], j # NONE => SyncOK(j), items' = items
  PROVE  SyncsInv' /\ Syncs!LibraryStep
<1>1. DOMAIN syncJob' = Callers
  BY DEF SyncsInv
<1>2. ASSUME NEW q \in Callers
      PROVE  syncJob'[q] = IF q = p THEN j ELSE syncJob[q]
  BY DEF SyncsInv
<1>3. SyncsInv'
  BY <1>1, <1>2 DEF SyncsInv
<1>4. Syncs!LibraryStep
  BY <1>2 DEF Syncs!LibraryStep, Syncs!At
<1> QED BY <1>3, <1>4

LEMMA FetchSteps ==
  ASSUME SyncsInv, NEW p \in Callers,
         \/ Syncs!StartSync(p) \/ Syncs!Probe(p) \/ Syncs!Pages(p) \/ Syncs!FetchFails(p)
  PROVE  SyncsInv' /\ Syncs!LibraryStep
<1> DEFINE j == syncJob[p]
<1>1. ASSUME Syncs!StartSync(p) PROVE SyncsInv' /\ Syncs!LibraryStep
  <2> DEFINE n == [pc |-> "fetch", token |-> library.token, got |-> {}, wrote |-> {}, deleted |-> {},
                   rotated |-> FALSE]
  <2>1. syncJob' = [syncJob EXCEPT ![p] = n] /\ items' = items /\ ~Syncs!At(p, "commit")
    BY <1>1 DEF Syncs!StartSync, Syncs!Does, Syncs!At
  <2>2. SyncOK(n)
    BY DEF SyncOK
  <2> HIDE DEF n
  <2> QED BY <2>1, <2>2, SyncMoves
<1>2. ASSUME Syncs!Probe(p) PROVE SyncsInv' /\ Syncs!LibraryStep
  <2>1. /\ j # NONE /\ j.pc = "fetch" /\ SyncOK(j) /\ items' = items /\ ~Syncs!At(p, "commit")
        /\ \/ syncJob' = [syncJob EXCEPT ![p] = [j EXCEPT !.pc = "pages"]]
           \/ \E k : /\ k = [j EXCEPT !.pc = "pages", !.token = valid.token + 1, !.rotated = TRUE]
                    /\ syncJob' = [syncJob EXCEPT ![p] = k]
           \/ syncJob' = [syncJob EXCEPT ![p] = NONE]
    BY <1>2 DEF Syncs!Probe, Syncs!Does, Syncs!Ends, Syncs!At, SyncsInv
  <2>2. SyncOK([j EXCEPT !.pc = "pages"])
    BY <2>1 DEF SyncOK
  <2>3. ASSUME NEW k, k = [j EXCEPT !.pc = "pages", !.token = valid.token + 1, !.rotated = TRUE]
        PROVE  SyncOK(k)
    BY <2>1, <2>3, JobRotated
  <2> QED BY <2>1, <2>2, <2>3, SyncMoves
<1>3. ASSUME Syncs!Pages(p) PROVE SyncsInv' /\ Syncs!LibraryStep
  <2>1. /\ j # NONE /\ j.pc = "pages" /\ SyncOK(j) /\ items' = items /\ ~Syncs!At(p, "commit")
        /\ \/ \E k : /\ k = [j EXCEPT !.pc = "write", !.got = account]
                    /\ syncJob' = [syncJob EXCEPT ![p] = k]
           \/ syncJob' = [syncJob EXCEPT ![p] = NONE]
    BY <1>3 DEF Syncs!Pages, Syncs!Does, Syncs!Ends, Syncs!At, SyncsInv
  <2>2. ASSUME NEW k, k = [j EXCEPT !.pc = "write", !.got = account]
        PROVE  SyncOK(k)
    BY <2>1, <2>2, JobFetched
  <2> QED BY <2>1, <2>2, SyncMoves
<1>4. ASSUME Syncs!FetchFails(p) PROVE SyncsInv' /\ Syncs!LibraryStep
  BY <1>4, SyncMoves DEF Syncs!FetchFails, Syncs!Ends, Syncs!Does, Syncs!At
<1> QED BY <1>1, <1>2, <1>3, <1>4

LEMMA WriteSteps ==
  ASSUME SyncsInv, NEW p \in Callers,
         \/ Syncs!Upsert(p) \/ Syncs!Upserted(p) \/ Syncs!Sweep(p) \/ Syncs!DeleteVanished(p)
         \/ Syncs!Deadlocked(p)
  PROVE  SyncsInv' /\ Syncs!LibraryStep
<1> DEFINE j == syncJob[p]
<1>1. ASSUME Syncs!Upsert(p) PROVE SyncsInv' /\ Syncs!LibraryStep
  <2>1. /\ j # NONE /\ j.pc = "write" /\ SyncOK(j) /\ items' = items /\ ~Syncs!At(p, "commit")
        /\ \E t \in j.got \ j.wrote :
             syncJob' = [syncJob EXCEPT ![p] = [j EXCEPT !.wrote = j.wrote \cup {t}]]
    BY <1>1 DEF Syncs!Upsert, Syncs!Does, Syncs!At, SyncsInv
  <2>2. ASSUME NEW t \in j.got \ j.wrote PROVE SyncOK([j EXCEPT !.wrote = j.wrote \cup {t}])
    BY <2>1 DEF SyncOK
  <2> QED BY <2>1, <2>2, SyncMoves
<1>2. ASSUME Syncs!Upserted(p) PROVE SyncsInv' /\ Syncs!LibraryStep
  <2>1. /\ j # NONE /\ j.pc = "write" /\ SyncOK(j) /\ items' = items /\ ~Syncs!At(p, "commit")
        /\ j.wrote = j.got /\ syncJob' = [syncJob EXCEPT ![p] = [j EXCEPT !.pc = "sweep"]]
    BY <1>2 DEF Syncs!Upserted, Syncs!Does, Syncs!At, SyncsInv
  <2>2. SyncOK([j EXCEPT !.pc = "sweep"])
    BY <2>1 DEF SyncOK
  <2> QED BY <2>1, <2>2, SyncMoves
<1>3. ASSUME Syncs!Sweep(p) PROVE SyncsInv' /\ Syncs!LibraryStep
  <2> DEFINE n == [pc |-> "delete", doomed |-> Syncs!Vanished(p), token |-> j.token, got |-> j.got,
                   wrote |-> j.wrote, deleted |-> {}, rotated |-> j.rotated]
  <2>1. /\ j # NONE /\ j.pc = "sweep" /\ SyncOK(j) /\ items' = items /\ ~Syncs!At(p, "commit")
        /\ syncJob' = [syncJob EXCEPT ![p] = n]
    BY <1>3 DEF Syncs!Sweep, Syncs!Does, Syncs!At, SyncsInv
  <2>2. Syncs!Vanished(p) \cap j.got = {}
    BY DEF Syncs!Vanished
  <2>3. SyncOK(n)
    BY <2>1, <2>2 DEF SyncOK
  <2> HIDE DEF n
  <2> QED BY <2>1, <2>3, SyncMoves
<1>4. ASSUME Syncs!DeleteVanished(p) PROVE SyncsInv' /\ Syncs!LibraryStep
  <2>1. /\ j # NONE /\ j.pc = "delete" /\ SyncOK(j) /\ items' = items /\ ~Syncs!At(p, "commit")
        /\ \/ syncJob' = [syncJob EXCEPT ![p] = [j EXCEPT !.pc = "commit"]]
           \/ \E t \in j.doomed \ j.deleted :
                syncJob' = [syncJob EXCEPT ![p] = [j EXCEPT !.deleted = j.deleted \cup {t}]]
    BY <1>4 DEF Syncs!DeleteVanished, Syncs!Does, Syncs!At, SyncsInv
  <2>2. SyncOK([j EXCEPT !.pc = "commit"])
    BY <2>1 DEF SyncOK
  <2>3. ASSUME NEW t \in j.doomed \ j.deleted PROVE SyncOK([j EXCEPT !.deleted = j.deleted \cup {t}])
    <3>1. /\ j = [pc |-> "delete", doomed |-> j.doomed, token |-> j.token, got |-> j.got,
                  wrote |-> j.wrote, deleted |-> j.deleted, rotated |-> j.rotated]
          /\ j.doomed \cap j.got = {} /\ j.deleted \subseteq j.doomed /\ j.wrote = j.got
      BY <2>1 DEF SyncOK
    <3> DEFINE d == j.deleted \cup {t}
    <3>2. d \subseteq j.doomed
      BY <3>1
    <3> HIDE DEF d
    <3>3. [j EXCEPT !.deleted = d]
            = [pc |-> "delete", doomed |-> j.doomed, token |-> j.token, got |-> j.got,
               wrote |-> j.wrote, deleted |-> d, rotated |-> j.rotated]
      BY <3>1
    <3>4. SyncOK([j EXCEPT !.deleted = d])
      BY <3>1, <3>2, <3>3 DEF SyncOK
    <3> QED BY <3>4 DEF d
  <2> QED BY <2>1, <2>2, <2>3, SyncMoves
<1>5. ASSUME Syncs!Deadlocked(p) PROVE SyncsInv' /\ Syncs!LibraryStep
  <2>1. items' = items /\ syncJob' = [syncJob EXCEPT ![p] = NONE] /\ ~Syncs!At(p, "commit")
    BY <1>5 DEF Syncs!Deadlocked, Syncs!Waits, Syncs!Ends, Syncs!Does, Syncs!At
  <2> QED BY <2>1, SyncMoves
<1> QED BY <1>1, <1>2, <1>3, <1>4, <1>5

(* What a sync deletes at its commit it did not fetch; what it fetched it has written. *)
LEMMA CommitStep ==
  ASSUME SyncsInv, NEW p \in Callers, Syncs!Commit(p)
  PROVE  SyncsInv' /\ Syncs!LibraryStep
<1> DEFINE j == syncJob[p]
<1>1. /\ Syncs!At(p, "commit") /\ j # NONE /\ j.pc = "commit" /\ SyncOK(j)
      /\ items' = (items \cup j.wrote) \ j.deleted
      /\ syncJob' = [syncJob EXCEPT ![p] = NONE]
  BY DEF Syncs!Commit, Syncs!At, Syncs!Ends, Syncs!Does, SyncsInv
<1>2. \A q \in Callers : syncJob'[q] = IF q = p THEN NONE ELSE syncJob[q]
  BY <1>1 DEF SyncsInv
<1>3. SyncsInv'
  BY <1>1, <1>2 DEF SyncsInv
<1>4. j.wrote = j.got /\ j.deleted \cap j.got = {}
  BY <1>1 DEF SyncOK
<1>5. \A q \in Callers : Syncs!At(q, "commit") /\ syncJob'[q] = NONE => q = p
  BY <1>2 DEF Syncs!At
<1>6. j.got \subseteq items'
  BY <1>1, <1>4
<1>7. \A t \in items \ items' : t \notin j.got
  BY <1>1, <1>4
<1>8. Syncs!LibraryStep
  BY <1>1, <1>5, <1>6, <1>7 DEF Syncs!LibraryStep
<1> QED BY <1>3, <1>8

LEMMA SyncsStep ==
  ASSUME SyncsInv, [Syncs!LibraryNext]_titles
  PROVE  SyncsInv' /\ (titles' # titles => Syncs!LibraryStep)
<1>1. CASE UNCHANGED titles
  BY <1>1 DEF titles, SyncsInv
<1>2. ASSUME Syncs!Delete \/ Syncs!StopLibrary PROVE SyncsInv' /\ Syncs!LibraryStep
  BY <1>2 DEF Syncs!Delete, Syncs!StopLibrary, SyncsInv, Syncs!LibraryStep, Syncs!At
<1>3. ASSUME \/ Syncs!Connect \/ Syncs!Expire
             \/ \E ts \in SUBSET Media : Syncs!importFile(ts) \/ Syncs!AccountChanges(ts)
      PROVE  SyncsInv' /\ Syncs!LibraryStep
  <2>1. syncJob' = syncJob
    BY <1>3 DEF Syncs!Connect, Syncs!Expire, Syncs!importFile, Syncs!AccountChanges
  <2> QED BY <2>1 DEF SyncsInv, Syncs!LibraryStep, Syncs!At
<1>4. CASE Syncs!LibraryNext
  BY <1>2, <1>3, <1>4, FetchSteps, WriteSteps, CommitStep DEF Syncs!LibraryNext
<1> QED BY <1>1, <1>4

(* When a sync commits, all it fetched is in the library and only what it did not find is *)
(* gone, whatever other syncs, imports and refreshes of the tokens do meanwhile; for an    *)
(* account of either kind and any number of syncs at once (runSync).                      *)
THEOREM LibrariesKept == Syncs!LibrarySpec => SyncsKept
<1>1. SyncsInv /\ [Syncs!LibraryNext]_titles
        => SyncsInv' /\ (titles' # titles => Syncs!LibraryStep)
  BY SyncsStep
<1> QED BY <1>1, SyncsStart, PTL
        DEF Syncs!LibrarySpec, SyncsKept, Syncs!libraryVars, titles

(* ---------------------------------------------------------------- FeohBills *)

(* A row of an occurrence: of a bill and a transaction there are, not both paid and skipped. *)
DueRow == [bill : Bills, due : DueDates, txn : Payments \cup {NONE}, skipped : BOOLEAN,
           override : Amounts \cup {NONE}]

RowOK(row, billRows, paid) ==
  /\ row \in DueRow /\ row.bill \in billRows /\ row.txn \in paid \cup {NONE}
  /\ ~ (row.txn # NONE /\ row.skipped)

DuesOK ==
  /\ DOMAIN schedule \subseteq Bills /\ \A b \in DOMAIN schedule : schedule[b] \in Schedules
  /\ txns \subseteq Payments
  /\ DOMAIN occ \subseteq RowIds
  /\ \A r \in DOMAIN occ : RowOK(occ[r], DOMAIN schedule, txns)
  /\ \A r, s \in DOMAIN occ : occ[r].bill = occ[s].bill /\ occ[r].due = occ[s].due => r = s

(* What a request holds: a call on one occurrence, or one of the deletions. *)
DueCall == [op : Dues!Calls, pc : {"bill", "row", "txn", "write", "prune"}, bill : Bills, due : DueDates,
            txn : Payments \cup {NONE}, amount : Amounts \cup {NONE}, row : RowIds \cup {NONE},
            settled : BOOLEAN, dates : SUBSET DueDates]

Deletion == [op : {"deleteTransaction"}, pc : {"remove"}, txn : Payments, row : {NONE},
             touched : SUBSET RowIds]
            \cup [op : {"deleteBill"}, pc : {"drop"}, bill : Bills, row : {NONE}]

BillJobsOK ==
  /\ DOMAIN billJob = Callers
  /\ \A p \in Callers : billJob[p] \in {Dues!NoJob} \cup DueCall \cup Deletion

BillsInv == DuesOK /\ BillJobsOK

LEMMA BillsStart == Dues!Init => BillsInv
<1> SUFFICES ASSUME Dues!Init PROVE BillsInv
  OBVIOUS
<1>1. DOMAIN schedule = {} /\ DOMAIN occ = {} /\ txns = {}
  BY DEF Dues!Init
<1>2. BillJobsOK
  BY DEF Dues!Init, BillJobsOK
<1> QED BY <1>1, <1>2 DEF BillsInv, DuesOK

LEMMA BillTypes == BillsInv => Dues!TypeOK
<1> SUFFICES ASSUME BillsInv PROVE Dues!TypeOK
  OBVIOUS
<1>1. \A r \in DOMAIN occ :
        /\ occ[r].bill \in DOMAIN schedule /\ occ[r].due \in DueDates
        /\ occ[r].txn \in txns \cup {NONE} /\ occ[r].override \in Amounts \cup {NONE}
        /\ ~ (occ[r].txn # NONE /\ occ[r].skipped)
  BY DEF BillsInv, DuesOK, RowOK, DueRow
<1>2. \A p \in Callers :
        billJob[p] = Dues!NoJob
          \/ billJob[p].pc \in {"bill", "row", "txn", "write", "prune", "drop", "remove"}
  BY DEF BillsInv, BillJobsOK, DueCall, Deletion
<1> QED BY <1>1, <1>2 DEF BillsInv, DuesOK, Dues!TypeOK, Dues!BillRows, Dues!OccRows

(* The job of one request moves. *)
LEMMA BillJobMoves ==
  ASSUME BillJobsOK, NEW p \in Callers, NEW j \in {Dues!NoJob} \cup DueCall \cup Deletion,
         billJob' = [billJob EXCEPT ![p] = j]
  PROVE  BillJobsOK'
<1>1. DOMAIN billJob' = Callers
  BY DEF BillJobsOK
<1>2. ASSUME NEW q \in Callers PROVE billJob'[q] = IF q = p THEN j ELSE billJob[q]
  BY DEF BillJobsOK
<1> QED BY <1>1, <1>2 DEF BillJobsOK, Dues!NoJob, DueCall, Deletion, Dues!Calls

(* The rows stay, and with them all a member decided. *)
LEMMA RowsStay ==
  ASSUME DuesOK, schedule' = schedule, txns' = txns, occ' = occ
  PROVE  DuesOK' /\ Dues!TouchedStep
BY DEF DuesOK, RowOK, DueRow, Dues!TouchedStep, Dues!Now, Dues!OccRows

(* The calls that read. *)
LEMMA BillReads ==
  ASSUME BillsInv, RecordsAssumption, NEW p \in Callers,
         \/ Dues!Asks(p) \/ Dues!ReadBill(p) \/ Dues!ReadRow(p) \/ Dues!ReadTransaction(p)
         \/ \E t \in Payments : Dues!StartDelete(p, t)
  PROVE  BillsInv' /\ Dues!TouchedStep
<1> DEFINE j == billJob[p]
<1>1. schedule' = schedule /\ txns' = txns /\ occ' = occ
  BY DEF Dues!Asks, Dues!Request, Dues!StartDeleteBill, Dues!StartDelete, Dues!ReadBill, Dues!ReadRow,
         Dues!ReadTransaction
<1>2. DuesOK' /\ Dues!TouchedStep
  BY <1>1, RowsStay DEF BillsInv
<1>3. j \in {Dues!NoJob} \cup DueCall \cup Deletion
  BY DEF BillsInv, BillJobsOK
<1>4. Dues!NoJob \in {Dues!NoJob} \cup DueCall \cup Deletion
  OBVIOUS
<1>5. \E k \in {Dues!NoJob} \cup DueCall \cup Deletion : billJob' = [billJob EXCEPT ![p] = k]
  <2>1. CASE Dues!Asks(p)
    <3>1. ASSUME NEW b \in Bills, NEW d \in DueDates, NEW op \in Dues!Calls,
                 NEW t \in Payments \cup {NONE}, NEW a \in Amounts \cup {NONE},
                 Dues!Request(p, op, b, d, t, a)
          PROVE  \E k \in DueCall : billJob' = [billJob EXCEPT ![p] = k]
      BY <3>1 DEF Dues!Request, Dues!Becomes, DueCall
    <3>2. ASSUME NEW b \in Bills, Dues!StartDeleteBill(p, b)
          PROVE  \E k \in Deletion : billJob' = [billJob EXCEPT ![p] = k]
      BY <3>2 DEF Dues!StartDeleteBill, Dues!Becomes, Deletion
    <3> QED BY <2>1, <3>1, <3>2 DEF Dues!Asks, Dues!Calls
  <2>2. CASE Dues!ReadBill(p)
    <3>1. j \in DueCall /\ Dues!At(p, "bill")
      BY <2>2, <1>3 DEF Dues!ReadBill, Dues!At, Deletion
    <3>2. CASE j.bill \in DOMAIN schedule
      <4> DEFINE k == [j EXCEPT !.pc = "row", !.dates = schedule[j.bill]]
      <4>1. schedule[j.bill] \in SUBSET DueDates
        BY <3>2 DEF BillsInv, DuesOK, RecordsAssumption
      <4>2. k \in DueCall
        BY <3>1, <4>1 DEF DueCall
      <4>3. billJob' = [billJob EXCEPT ![p] = k]
        BY <2>2, <3>2 DEF Dues!ReadBill, Dues!Becomes, Dues!BillRows
      <4> QED BY <4>2, <4>3
    <3>3. CASE j.bill \notin DOMAIN schedule
      BY <2>2, <3>3, <1>4 DEF Dues!ReadBill, Dues!Answers, Dues!Becomes, Dues!BillRows
    <3> QED BY <3>2, <3>3
  <2>3. CASE Dues!ReadRow(p)
    <3>1. j \in DueCall
      BY <2>3, <1>3 DEF Dues!ReadRow, Dues!At, Deletion
    <3> DEFINE found   == Dues!RowAt(j.bill, j.due)
               row     == IF found = {} THEN NONE ELSE CHOOSE r \in found : TRUE
               settled == found # {} /\ (occ[row].txn # NONE \/ occ[row].skipped)
               k(pc)   == [j EXCEPT !.pc = pc, !.row = row, !.settled = settled, !.dates = {}]
    <3>2. \/ billJob' = [billJob EXCEPT ![p] = Dues!NoJob]
          \/ /\ Dues!Onward(j, row, settled) # "answer"
             /\ billJob' = [billJob EXCEPT ![p] = k(Dues!Onward(j, row, settled))]
      BY <2>3 DEF Dues!ReadRow, Dues!Answers, Dues!Becomes
    <3>3. row \in RowIds \cup {NONE}
      BY DEF Dues!RowAt, Dues!OccRows, BillsInv, DuesOK
    <3>4. settled \in BOOLEAN
      OBVIOUS
    <3> HIDE DEF found, row, settled
    <3>5. Dues!Onward(j, row, settled) \in {"txn", "write", "answer"}
      BY DEF Dues!Onward
    <3>6. ASSUME NEW pc \in {"txn", "write"} PROVE k(pc) \in DueCall
      BY <3>1, <3>3, <3>4 DEF DueCall
    <3> QED BY <3>2, <3>5, <3>6, <1>4
  <2>4. CASE Dues!ReadTransaction(p)
    <3>1. j \in DueCall
      BY <2>4, <1>3 DEF Dues!ReadTransaction, Dues!At, Deletion
    <3>2. [j EXCEPT !.pc = "write"] \in DueCall
      BY <3>1 DEF DueCall
    <3> QED BY <2>4, <3>2, <1>4 DEF Dues!ReadTransaction, Dues!GoesTo, Dues!Answers, Dues!Becomes
  <2>5. ASSUME NEW t \in Payments, Dues!StartDelete(p, t)
        PROVE  \E k \in Deletion : billJob' = [billJob EXCEPT ![p] = k]
    <3>1. {r \in DOMAIN occ : occ[r].txn = t} \in SUBSET RowIds
      BY DEF BillsInv, DuesOK
    <3> QED BY <2>5, <3>1 DEF Dues!StartDelete, Dues!Becomes, Dues!OccRows, Deletion
  <2> QED BY <2>1, <2>2, <2>3, <2>4, <2>5
<1> QED BY <1>2, <1>5, BillJobMoves DEF BillsInv

(* A call writes the row it read, as that row is by now: the column it is about, and no other. *)
LEMMA WriteRow ==
  ASSUME BillsInv, RecordsAssumption, NEW p \in Callers, Dues!Update(p)
  PROVE  BillsInv' /\ Dues!TouchedStep
<1> DEFINE j == billJob[p]
           r == j.row
           new == Dues!Touched(j, occ[r])
<1>1. j \in DueCall /\ j.pc = "write" /\ Dues!At(p, "write")
  BY DEF Dues!Update, Dues!At, BillsInv, BillJobsOK, Deletion, DueCall
<1>2. schedule' = schedule /\ txns' = txns
  BY DEF Dues!Update
<1>3. [j EXCEPT !.pc = "prune"] \in DueCall /\ [j EXCEPT !.pc = "prune"] # j
  BY <1>1 DEF DueCall
<1>4. \E k \in {Dues!NoJob} \cup DueCall : k # j /\ billJob' = [billJob EXCEPT ![p] = k]
  BY <1>1, <1>3 DEF Dues!Update, Dues!Answers, Dues!GoesTo, Dues!Becomes, Dues!At
<1>5. BillJobsOK' /\ billJob'[p] # j
  BY <1>4, BillJobMoves DEF BillsInv, BillJobsOK
<1>6. CASE occ' = occ
  BY <1>2, <1>5, <1>6, RowsStay DEF BillsInv
<1>7. CASE r \in DOMAIN occ /\ Dues!Accepted(new) /\ occ' = [occ EXCEPT ![r] = new]
  <2>1. /\ DOMAIN occ' = DOMAIN occ
        /\ \A s \in DOMAIN occ : occ'[s] = IF s = r THEN new ELSE occ[s]
    BY <1>7
  <2>2. RowOK(occ[r], DOMAIN schedule, txns)
    BY <1>7 DEF BillsInv, DuesOK
  <2>3. new \in DueRow /\ new.bill = occ[r].bill /\ new.due = occ[r].due
    BY <1>1, <2>2 DEF RowOK, DueRow, DueCall, Dues!Touched, Dues!Calls
  <2>4. RowOK(new, DOMAIN schedule, txns)
    BY <1>7, <2>2, <2>3 DEF RowOK, Dues!Accepted
  <2>5. DuesOK'
    <3>1. \A s \in DOMAIN occ' : RowOK(occ'[s], DOMAIN schedule', txns')
      BY <1>2, <2>1, <2>4 DEF BillsInv, DuesOK
    <3>2. \A s, q \in DOMAIN occ' : occ'[s].bill = occ'[q].bill /\ occ'[s].due = occ'[q].due => s = q
      BY <2>1, <2>3 DEF BillsInv, DuesOK
    <3> QED BY <1>2, <2>1, <3>1, <3>2 DEF BillsInv, DuesOK, RowOK
  <2>6. /\ new.override # occ[r].override => j.op = "override"
        /\ occ[r].skipped /\ ~new.skipped => j.op = "unskip"
        /\ new.txn # occ[r].txn => j.op \in {"link", "unlink"}
    BY <1>1, <2>2 DEF RowOK, DueRow, DueCall, Dues!Touched, Dues!Calls
  <2>7. Dues!By(j.op, r)
    BY <1>1, <1>5 DEF Dues!By
  <2>8. Dues!TouchedStep
    BY <2>1, <2>6, <2>7 DEF Dues!TouchedStep, Dues!Now, Dues!OccRows
  <2> QED BY <1>5, <2>5, <2>8 DEF BillsInv
<1> QED BY <1>6, <1>7 DEF Dues!Update, Dues!OccRows

(* An insert touches no row there is. *)
LEMMA AddRow ==
  ASSUME BillsInv, RecordsAssumption, NEW p \in Callers, Dues!Insert(p)
  PROVE  BillsInv' /\ Dues!TouchedStep
<1> DEFINE j == billJob[p]
           blank == [bill |-> j.bill, due |-> j.due, txn |-> NONE, skipped |-> FALSE, override |-> NONE]
           new == Dues!Touched(j, blank)
<1>1. j \in DueCall
  BY DEF Dues!Insert, Dues!At, BillsInv, BillJobsOK, Deletion, DueCall
<1>2. schedule' = schedule /\ txns' = txns
  BY DEF Dues!Insert
<1>3. BillJobsOK'
  BY BillJobMoves DEF Dues!Insert, Dues!Answers, Dues!Becomes, BillsInv
<1>4. CASE occ' = occ
  BY <1>2, <1>3, <1>4, RowsStay DEF BillsInv
<1>5. CASE /\ Dues!RowAt(j.bill, j.due) = {} /\ j.bill \in DOMAIN schedule /\ Dues!Accepted(new)
           /\ \E r \in RowIds \ DOMAIN occ :
                occ' = [s \in DOMAIN occ \cup {r} |-> IF s = r THEN new ELSE occ[s]]
  <2>1. PICK r \in RowIds \ DOMAIN occ :
          occ' = [s \in DOMAIN occ \cup {r} |-> IF s = r THEN new ELSE occ[s]]
    BY <1>5
  <2>2. new \in DueRow /\ new.bill = j.bill /\ new.due = j.due
    <3>1. blank \in DueRow /\ blank.bill = j.bill /\ blank.due = j.due
      BY <1>1 DEF DueRow, DueCall
    <3> HIDE DEF blank
    <3> QED BY <1>1, <3>1 DEF DueRow, DueCall, Dues!Touched, Dues!Calls
  <2>3. RowOK(new, DOMAIN schedule, txns)
    BY <1>5, <2>2 DEF RowOK, Dues!Accepted
  <2> HIDE DEF new
  <2>4. /\ DOMAIN occ' = DOMAIN occ \cup {r} /\ occ'[r] = new
        /\ \A s \in DOMAIN occ : occ'[s] = occ[s]
    BY <2>1
  <2>5. DuesOK'
    <3>1. \A s \in DOMAIN occ' : RowOK(occ'[s], DOMAIN schedule', txns')
      BY <1>2, <2>3, <2>4 DEF BillsInv, DuesOK
    <3>2. ASSUME NEW s \in DOMAIN occ PROVE ~ (occ[s].bill = new.bill /\ occ[s].due = new.due)
      BY <1>5, <2>2 DEF Dues!RowAt, Dues!OccRows
    <3>3. \A s, q \in DOMAIN occ' : occ'[s].bill = occ'[q].bill /\ occ'[s].due = occ'[q].due => s = q
      BY <2>4, <3>2 DEF BillsInv, DuesOK
    <3> QED BY <1>2, <2>4, <3>1, <3>3 DEF BillsInv, DuesOK, RowOK
  <2>6. Dues!TouchedStep
    BY <2>4 DEF Dues!TouchedStep, Dues!Now, Dues!OccRows
  <2> QED BY <1>3, <2>5, <2>6 DEF BillsInv
<1> QED BY <1>4, <1>5 DEF Dues!Insert, Dues!OccRows, Dues!BillRows

(* A row that goes is one nobody touched, as it is when it goes. *)
LEMMA PruneRow ==
  ASSUME BillsInv, RecordsAssumption, NEW p \in Callers, Dues!Prune(p)
  PROVE  BillsInv' /\ Dues!TouchedStep
<1>1. schedule' = schedule /\ txns' = txns /\ BillJobsOK'
  BY BillJobMoves DEF Dues!Prune, Dues!Answers, Dues!Becomes, BillsInv
<1> DEFINE gone == Dues!pruneIfUntouched(p)
<1>2. /\ DOMAIN occ' = DOMAIN occ \ gone /\ \A s \in DOMAIN occ' : occ'[s] = occ[s]
  BY DEF Dues!Prune, Dues!Without, Dues!OccRows
<1>3. \A s \in DOMAIN occ \cap gone : Dues!Untouched(occ[s])
  BY DEF Dues!pruneIfUntouched, Dues!OccRows
<1> HIDE DEF gone
<1>4. DuesOK'
  BY <1>1, <1>2 DEF BillsInv, DuesOK, RowOK
<1>5. Dues!TouchedStep
  BY <1>2, <1>3 DEF Dues!TouchedStep, Dues!Now, Dues!OccRows, Dues!Untouched
<1> QED BY <1>1, <1>4, <1>5 DEF BillsInv

(* With a transaction goes what it paid, and nothing else that was decided. *)
LEMMA DropTransaction ==
  ASSUME BillsInv, RecordsAssumption, NEW p \in Callers, Dues!deleteTransaction(p)
  PROVE  BillsInv' /\ Dues!TouchedStep
<1> DEFINE t == billJob[p].txn
           left == Dues!SetNull(t)
           gone == {s \in billJob[p].touched \cap DOMAIN occ : Dues!Untouched(left[s])}
<1>1. schedule' = schedule /\ BillJobsOK'
  BY BillJobMoves DEF Dues!deleteTransaction, Dues!Answers, Dues!Becomes, BillsInv
<1>2. CASE txns' = txns /\ occ' = occ
  BY <1>1, <1>2, RowsStay DEF BillsInv
<1>3. CASE txns' = txns \ {t} /\ occ' = [r \in DOMAIN occ \ gone |-> left[r]]
  <2>1. /\ DOMAIN occ' = DOMAIN occ \ gone /\ \A s \in DOMAIN occ' : occ'[s] = left[s]
        /\ \A s \in gone : Dues!Untouched(left[s])
    BY <1>3
  <2>2. \A s \in DOMAIN occ : left[s] = IF occ[s].txn = t THEN [occ[s] EXCEPT !.txn = NONE] ELSE occ[s]
    BY DEF Dues!SetNull, Dues!OccRows
  <2> HIDE DEF gone, left
  <2>3. ASSUME NEW s \in DOMAIN occ
        PROVE  /\ left[s] \in DueRow /\ left[s].bill = occ[s].bill /\ left[s].due = occ[s].due
               /\ left[s].skipped = occ[s].skipped /\ left[s].override = occ[s].override
               /\ left[s].txn = IF occ[s].txn = t THEN NONE ELSE occ[s].txn
    <3>1. occ[s] \in DueRow
      BY DEF BillsInv, DuesOK, RowOK
    <3>2. [occ[s] EXCEPT !.txn = NONE] \in DueRow
      BY <3>1 DEF DueRow
    <3>3. CASE occ[s].txn = t
      BY <2>2, <3>1, <3>2, <3>3 DEF DueRow
    <3>4. CASE occ[s].txn # t
      BY <2>2, <3>1, <3>4
    <3> QED BY <3>3, <3>4
  <2>4. DuesOK'
    <3>1. \A s \in DOMAIN occ' : RowOK(occ'[s], DOMAIN schedule', txns')
      BY <1>1, <1>3, <2>1, <2>3 DEF BillsInv, DuesOK, RowOK
    <3>2. \A s, q \in DOMAIN occ' : occ'[s].bill = occ'[q].bill /\ occ'[s].due = occ'[q].due => s = q
      BY <2>1, <2>3 DEF BillsInv, DuesOK
    <3> QED BY <1>1, <1>3, <2>1, <3>1, <3>2 DEF BillsInv, DuesOK, RowOK
  <2>5. Dues!TouchedStep
    <3> SUFFICES ASSUME NEW r \in DOMAIN occ
                 PROVE  /\ occ[r].override # NONE => Dues!Now(r).override = occ[r].override
                        /\ occ[r].skipped => Dues!Now(r).skipped
                        /\ occ[r].txn # NONE /\ Dues!Now(r).txn # occ[r].txn => occ[r].txn \notin txns'
      BY DEF Dues!TouchedStep, Dues!OccRows
    <3>1. CASE r \in gone
      BY <1>3, <2>1, <2>3, <3>1 DEF Dues!Untouched
    <3>2. CASE r \notin gone
      BY <1>3, <2>1, <2>3, <3>2 DEF Dues!Now
    <3> QED BY <3>1, <3>2
  <2> QED BY <1>1, <2>4, <2>5 DEF BillsInv
<1> QED BY <1>2, <1>3 DEF Dues!deleteTransaction, Dues!OccRows

(* Bills and transactions come and go around the rows, and a crash ends the calls. *)
LEMMA BillsChange ==
  ASSUME BillsInv, RecordsAssumption,
         \/ \E t \in Payments : Dues!RecordTransaction(t)
         \/ \E b \in Bills, s \in Schedules : Dues!createBill(b, s) \/ Dues!updateBill(b, s)
         \/ \E p \in Callers : Dues!deleteBill(p)
         \/ Dues!Crash
  PROVE  BillsInv' /\ Dues!TouchedStep
<1>1. occ' = occ /\ txns \subseteq txns' /\ txns' \subseteq Payments
  BY DEF Dues!RecordTransaction, Dues!createBill, Dues!updateBill, Dues!deleteBill, Dues!Crash,
         BillsInv, DuesOK
<1>2. BillJobsOK'
  <2>1. ASSUME billJob' = billJob PROVE BillJobsOK'
    BY <2>1 DEF BillsInv, BillJobsOK
  <2>2. ASSUME NEW p \in Callers, Dues!deleteBill(p) PROVE BillJobsOK'
    BY <2>2, BillJobMoves DEF Dues!deleteBill, Dues!Answers, Dues!Becomes, BillsInv
  <2>3. ASSUME Dues!Crash PROVE BillJobsOK'
    BY <2>3 DEF Dues!Crash, BillJobsOK
  <2> QED BY <2>1, <2>2, <2>3 DEF Dues!RecordTransaction, Dues!createBill, Dues!updateBill
<1> DEFINE BillsFit == /\ DOMAIN schedule' \subseteq Bills
                       /\ \A b \in DOMAIN schedule' : schedule'[b] \in Schedules
                       /\ \A r \in DOMAIN occ : occ[r].bill \in DOMAIN schedule'
<1>3. BillsFit
  <2>1. ASSUME schedule' = schedule PROVE  BillsFit
    BY <2>1 DEF BillsInv, DuesOK, RowOK
  <2>2. ASSUME NEW b \in Bills, NEW s \in Schedules, Dues!createBill(b, s) \/ Dues!updateBill(b, s)
        PROVE  BillsFit
    <3>1. /\ DOMAIN schedule' = DOMAIN schedule \cup {b}
          /\ \A c \in DOMAIN schedule' : schedule'[c] = IF c = b THEN s ELSE schedule[c]
      BY <2>2 DEF Dues!createBill, Dues!updateBill, Dues!BillRows
    <3> QED BY <3>1 DEF BillsInv, DuesOK, RowOK
  <2>3. ASSUME NEW p \in Callers, Dues!deleteBill(p) PROVE  BillsFit
    <3>1. CASE \E r \in DOMAIN occ : occ[r].bill = billJob[p].bill
      BY <2>1, <2>3, <3>1 DEF Dues!deleteBill, Dues!OccRows
    <3>2. CASE ~ \E r \in DOMAIN occ : occ[r].bill = billJob[p].bill
      <4>1. schedule' = [c \in DOMAIN schedule \ {billJob[p].bill} |-> schedule[c]]
        BY <2>3, <3>2 DEF Dues!deleteBill, Dues!OccRows, Dues!BillRows
      <4> QED BY <3>2, <4>1 DEF BillsInv, DuesOK, RowOK
    <3> QED BY <3>1, <3>2
  <2> QED BY <2>1, <2>2, <2>3 DEF Dues!RecordTransaction, Dues!Crash
<1>4. DuesOK'
  BY <1>1, <1>3 DEF BillsInv, DuesOK, RowOK
<1>5. Dues!TouchedStep
  BY <1>1 DEF Dues!TouchedStep, Dues!Now, Dues!OccRows
<1> QED BY <1>2, <1>4, <1>5 DEF BillsInv

LEMMA BillsStep ==
  ASSUME BillsInv, RecordsAssumption, [Dues!Next]_bills
  PROVE  BillsInv' /\ (bills' # bills => Dues!TouchedStep)
<1>1. ASSUME UNCHANGED bills PROVE BillsInv'
  BY <1>1 DEF bills, BillsInv, DuesOK, BillJobsOK, RowOK
<1>2. ASSUME Dues!Next PROVE BillsInv' /\ Dues!TouchedStep
  BY <1>2, BillReads, WriteRow, AddRow, PruneRow, DropTransaction, BillsChange
     DEF Dues!Next, Dues!Works
<1> QED BY <1>1, <1>2

(* FeohBills: an amount, a skip or a payment of an occurrence ends only by the call    *)
(* that undoes it, or a payment with its transaction (occurrences.ts): a row that was  *)
(* read earlier is written and pruned as it is by then.                                *)
THEOREM OccurrencesKept == Dues!Spec => TouchedKept
<1>1. BillsInv /\ [Dues!Next]_bills => BillsInv' /\ (bills' # bills => Dues!TouchedStep)
  BY BillsStep, RecordsAssumption
<1> QED BY <1>1, BillsStart, PTL DEF Dues!Spec, TouchedKept, Dues!vars, bills

(* FeohBills: the rows of occurrences refer to bills and transactions there are, one   *)
(* to a bill and date, and none is both paid and skipped (the constraints of          *)
(* schema.ts under every order of the calls).                                          *)
THEOREM OccurrenceTypes == Dues!Spec => []Dues!TypeOK
<1>1. BillsInv /\ [Dues!Next]_bills => BillsInv'
  BY BillsStep, RecordsAssumption
<1> QED BY <1>1, BillsStart, BillTypes, PTL DEF Dues!Spec, Dues!vars, bills

(* -------------------------------------------------------- IntegrationTokens *)

(* A request that is granted or refreshing knows its account. *)
GrantCall ==
  [pc : {"cache", "read"}, account : {NONE}]
  \cup [pc : {"exchange", "upsert", "post", "unreadable"}, account : Accounts]
  \cup [pc : {"record"}, account : Accounts, outcome : {"granted", "refused", "failed"}]

Connection == [label : Accounts, token : Accounts, status : Grants!Statuses, readable : BOOLEAN]

InStep(p, c) ==
  /\ c # NONE /\ c.pc \in {"post", "record"} => conn.readable
  /\ c # NONE /\ c.pc \in {"post", "record", "unreadable"} /\ p \notin overtaken =>
       c.account = conn.token
  /\ c # NONE /\ c.pc = "unreadable" /\ p \notin overtaken => ~conn.readable

(* A refresh that no consent has overtaken is of the token the row holds, if there is a row; *)
(* and none is under way while that token cannot be read.                                    *)
GrantsInv ==
  /\ conn = NONE \/ conn \in Connection
  /\ cached \in Accounts \cup {NONE}
  /\ revoked \subseteq Accounts
  /\ DOMAIN calls = Callers
  /\ \A p \in Callers : calls[p] = NONE \/ calls[p] \in GrantCall
  /\ overtaken \subseteq Callers
  /\ conn # NONE => \A p \in Callers : InStep(p, calls[p])

LEMMA GrantsStart == Grants!TokenInit => GrantsInv
BY DEF Grants!TokenInit, GrantsInv, Grants!At

LEMMA GrantTypes == GrantsInv => Grants!TokenTypeOK
<1> SUFFICES ASSUME GrantsInv PROVE Grants!TokenTypeOK
  OBVIOUS
<1>1. ASSUME NEW p \in Callers, calls[p] \in GrantCall
      PROVE  calls[p] \in [pc : {"exchange", "upsert", "cache", "read", "post", "unreadable"},
                           account : Accounts \cup {NONE}]
                          \cup [pc : {"record"}, account : Accounts,
                                outcome : {"granted", "refused", "failed"}]
  BY <1>1 DEF GrantCall
<1> QED BY <1>1 DEF GrantsInv, Grants!TokenTypeOK, Connection

(* One request goes on to c. *)
LEMMA CallMoves ==
  ASSUME GrantsInv, NEW p \in Callers, NEW c, calls' = [calls EXCEPT ![p] = c]
  PROVE  /\ DOMAIN calls' = Callers
         /\ \A q \in Callers : calls'[q] = IF q = p THEN c ELSE calls[q]
BY DEF GrantsInv

(* Requests that leave the row as it is. *)
LEMMA GrantReads ==
  ASSUME GrantsInv, RecordsAssumption, NEW p \in Callers,
         \/ \E a \in Accounts : Grants!Callback(p, a)
         \/ Grants!Exchange(p) \/ Grants!Wanted(p) \/ Grants!FromCache(p)
         \/ Grants!ReadToken(p) \/ Grants!PostToken(p)
  PROVE  GrantsInv' /\ conn' = conn
<1>1. conn' = conn /\ cached' = cached /\ overtaken' = overtaken
  BY DEF Grants!Callback, Grants!Exchange, Grants!Wanted, Grants!FromCache, Grants!ReadToken, Grants!PostToken
<1>2. revoked' \subseteq Accounts
  BY DEF Grants!Callback, Grants!Exchange, Grants!Wanted, Grants!FromCache, Grants!ReadToken,
         Grants!PostToken, GrantsInv
<1>3. \E c \in {NONE} \cup GrantCall :
        /\ calls' = [calls EXCEPT ![p] = c]
        /\ conn # NONE => InStep(p, c)
  <2>1. CASE \E a \in Accounts : Grants!Callback(p, a)
    BY <2>1 DEF Grants!Callback, Grants!Does, GrantCall, InStep
  <2>2. CASE Grants!Exchange(p)
    <3>1. calls[p].account \in Accounts
      BY <2>2 DEF Grants!Exchange, Grants!At, GrantsInv, GrantCall
    <3> QED BY <2>2, <3>1 DEF Grants!Exchange, Grants!Does, Grants!Answers, Grants!Account, GrantCall,
                          InStep
  <2>3. CASE Grants!Wanted(p) \/ Grants!FromCache(p)
    BY <2>3 DEF Grants!Wanted, Grants!FromCache, Grants!Does, Grants!Answers, GrantCall,
                  InStep
  <2>4. CASE Grants!ReadToken(p)
    <3>1. CASE conn = NONE
      BY <2>4, <3>1 DEF Grants!ReadToken, Grants!Does, Grants!Answers, InStep
    <3>2. CASE conn # NONE
      <4>1. conn.token \in Accounts /\ conn.readable \in BOOLEAN
        BY <3>2 DEF GrantsInv, Connection
      <4> DEFINE c(pc) == [pc |-> pc, account |-> conn.token]
      <4>2. calls' = [calls EXCEPT ![p] = c(IF conn.readable THEN "post" ELSE "unreadable")]
        BY <2>4, <3>2 DEF Grants!ReadToken, Grants!Does
      <4>3. CASE conn.readable
        <5>1. calls' = [calls EXCEPT ![p] = c("post")]
          BY <4>2, <4>3
        <5>2. c("post") \in GrantCall /\ InStep(p, c("post"))
          BY <4>1, <4>3 DEF GrantCall, InStep
        <5> HIDE DEF c
        <5> QED BY <5>1, <5>2
      <4>4. CASE ~conn.readable
        <5>1. calls' = [calls EXCEPT ![p] = c("unreadable")]
          BY <4>2, <4>4
        <5>2. c("unreadable") \in GrantCall /\ InStep(p, c("unreadable"))
          BY <4>1, <4>4 DEF GrantCall, InStep
        <5> HIDE DEF c
        <5> QED BY <5>1, <5>2
      <4> QED BY <4>3, <4>4
    <3> QED BY <3>1, <3>2
  <2>5. CASE Grants!PostToken(p)
    <3>1. calls[p].account \in Accounts /\ Grants!At(p, "post")
      BY <2>5 DEF Grants!PostToken, Grants!At, GrantsInv, GrantCall
    <3>2. conn # NONE => conn.readable /\ (p \notin overtaken => calls[p].account = conn.token)
      BY <3>1 DEF GrantsInv, Grants!At, InStep
    <3>3. PICK o \in {"granted", "refused", "failed"} :
            calls' = [calls EXCEPT ![p] = [pc |-> "record", account |-> calls[p].account, outcome |-> o]]
      BY <2>5 DEF Grants!PostToken, Grants!Does, Grants!Account
    <3> DEFINE c == [pc |-> "record", account |-> calls[p].account, outcome |-> o]
    <3>4. /\ c \in GrantCall /\ c.pc = "record" /\ c.account = calls[p].account
          /\ calls' = [calls EXCEPT ![p] = c]
      BY <3>1, <3>3 DEF GrantCall
    <3> HIDE DEF c
    <3>5. conn # NONE => InStep(p, c)
      BY <3>2, <3>4 DEF InStep
    <3> QED BY <3>4, <3>5
  <2> QED BY <2>1, <2>2, <2>3, <2>4, <2>5
<1>4. PICK c \in {NONE} \cup GrantCall :
        /\ calls' = [calls EXCEPT ![p] = c]
        /\ conn # NONE => InStep(p, c)
  BY <1>3
<1>5. /\ DOMAIN calls' = Callers
      /\ \A q \in Callers : calls'[q] = IF q = p THEN c ELSE calls[q]
  BY <1>4, CallMoves
<1>6. conn' # NONE => \A q \in Callers : InStep(q, calls[q])' 
  BY <1>1, <1>4, <1>5 DEF GrantsInv, InStep
<1> QED BY <1>1, <1>2, <1>4, <1>5, <1>6 DEF GrantsInv

(* Consent, which makes a row, and overtakes every refresh under way. *)
LEMMA GrantConsents ==
  ASSUME GrantsInv, RecordsAssumption, NEW p \in Callers, Grants!upsertConnection(p)
  PROVE  GrantsInv' /\ Grants!ConsentStep /\ Grants!OutageStep
<1> DEFINE a == calls[p].account
<1>1. a \in Accounts /\ Grants!At(p, "upsert")
  BY DEF Grants!upsertConnection, Grants!At, GrantsInv, GrantCall
<1>2. conn' = [label |-> a, token |-> a, status |-> "active", readable |-> TRUE]
  BY DEF Grants!upsertConnection, Grants!Row, Grants!Account
<1>3. /\ DOMAIN calls' = Callers
      /\ \A q \in Callers : calls'[q] = IF q = p THEN NONE ELSE calls[q]
  BY CallMoves DEF Grants!upsertConnection, Grants!Answers, Grants!Does
<1>4. cached' = cached /\ revoked' = revoked
  BY DEF Grants!upsertConnection
<1>5. overtaken' = {q \in Callers : Grants!Refreshing(q)}
  BY DEF Grants!upsertConnection
<1>6. conn' \in Connection
  BY <1>1, <1>2 DEF Connection, Grants!Statuses
<1>7. GrantsInv'
  <2>1. \A q \in Callers : calls'[q] = NONE \/ calls'[q] \in GrantCall
    BY <1>3 DEF GrantsInv
  <2>2. \A q \in Callers : InStep(q, calls[q])'
    BY <1>2, <1>3, <1>5 DEF Grants!At, Grants!Refreshing, InStep
  <2> QED BY <1>3, <1>4, <1>5, <1>6, <2>1, <2>2 DEF GrantsInv
<1>8. Grants!ConsentStep
  BY <1>1, <1>2 DEF Grants!ConsentStep, Grants!Consents, Grants!Account
<1>9. Grants!OutageStep
  BY <1>2 DEF Grants!OutageStep
<1> QED BY <1>7, <1>8, <1>9

(* A refresh writes the row there is by now, and makes none; it asks for consent only when  *)
(* its token was refused or unreadable, and the token is the stored one unless overtaken.   *)
LEMMA GrantSucceeds ==
  ASSUME GrantsInv, RecordsAssumption, NEW p \in Callers, Grants!recordRefreshSuccess(p), conn # NONE
  PROVE  /\ conn' \in Connection /\ conn'.label = conn.label /\ conn'.status = "active"
         /\ conn'.readable = conn.readable /\ overtaken' \subseteq Callers
         /\ \A q \in Callers \ {p} : InStep(q, calls[q])'
         /\ conn'.token # conn.token => /\ Rotating /\ p \in overtaken /\ Grants!At(p, "record")
                                       /\ calls[p].outcome = "granted" /\ conn'.token = calls[p].account
<1>1. /\ conn \in Connection /\ Grants!At(p, "record") /\ calls[p].account \in Accounts
      /\ calls[p].outcome = "granted" /\ overtaken \subseteq Callers
      /\ \A q \in Callers : InStep(q, calls[q])
  BY DEF Grants!recordRefreshSuccess, Grants!At, GrantsInv, GrantCall
<1>2. conn.readable /\ (p \notin overtaken => calls[p].account = conn.token)
  BY <1>1 DEF InStep, Grants!At
<1>3. \A q \in Callers \ {p} : calls'[q] = calls[q]
  BY CallMoves DEF Grants!recordRefreshSuccess, Grants!Answers, Grants!Does
<1>4. PICK rotated \in BOOLEAN :
        /\ rotated => Rotating
        /\ conn' = Grants!RefreshedRow(calls[p].account, rotated)
        /\ overtaken' = (overtaken \cup {q \in Callers : /\ rotated /\ Grants!Refreshing(q)
                                                        /\ calls[q].account # calls[p].account}) \ {p}
  BY DEF Grants!recordRefreshSuccess, Grants!Account
<1>5. CASE rotated
  <2> DEFINE k == [conn EXCEPT !.status = "active", !.token = calls[p].account, !.readable = TRUE]
  <2>1. conn' = k
    BY <1>4, <1>5 DEF Grants!RefreshedRow
  <2>2. /\ k \in Connection /\ k.label = conn.label /\ k.status = "active" /\ k.readable
        /\ k.token = calls[p].account
    BY <1>1 DEF Connection, Grants!Statuses
  <2> HIDE DEF k
  <2>3. ASSUME NEW q \in Callers \ {p} PROVE InStep(q, calls[q])'
    <3>1. q \notin overtaken' /\ Grants!Refreshing(q) =>
            q \notin overtaken /\ calls[q].account = calls[p].account
      BY <1>4, <1>5
    <3>2. InStep(q, calls[q])
      BY <1>1
    <3> QED BY <1>2, <1>3, <2>1, <2>2, <3>1, <3>2 DEF InStep, Grants!Refreshing, Grants!At
  <2>4. conn.readable = TRUE /\ conn'.readable = TRUE
    BY <1>1, <1>2, <2>1, <2>2 DEF Connection
  <2> QED BY <1>1, <1>2, <1>4, <1>5, <2>1, <2>2, <2>3, <2>4
<1>6. CASE ~rotated
  <2> DEFINE k == [conn EXCEPT !.status = "active"]
  <2>1. conn' = k
    BY <1>4, <1>6 DEF Grants!RefreshedRow
  <2>2. /\ k \in Connection /\ k.label = conn.label /\ k.status = "active"
        /\ k.readable = conn.readable /\ k.token = conn.token
    BY <1>1 DEF Connection, Grants!Statuses
  <2> HIDE DEF k
  <2>3. overtaken' = overtaken \ {p}
    BY <1>4, <1>6
  <2>4. \A q \in Callers \ {p} : InStep(q, calls[q])'
    BY <1>1, <1>3, <2>1, <2>2, <2>3 DEF InStep
  <2> QED BY <1>1, <2>1, <2>2, <2>3, <2>4
<1> QED BY <1>5, <1>6

LEMMA GrantFails ==
  ASSUME GrantsInv, RecordsAssumption, NEW p \in Callers, Grants!recordRefreshError(p), conn # NONE
  PROVE  /\ conn' \in Connection /\ conn'.label = conn.label /\ conn'.token = conn.token
         /\ conn'.readable = conn.readable /\ overtaken' \subseteq Callers
         /\ \A q \in Callers \ {p} : InStep(q, calls[q])'
         /\ Grants!OutageStep
<1>1. conn \in Connection /\ overtaken \subseteq Callers /\ \A q \in Callers : InStep(q, calls[q])
  BY DEF GrantsInv
<1>2. overtaken' = overtaken \ {p} /\ \A q \in Callers \ {p} : calls'[q] = calls[q]
  BY CallMoves DEF Grants!recordRefreshError, Grants!Answers, Grants!Does
<1>3. \E s \in Grants!Statuses :
        /\ conn' = [conn EXCEPT !.status = s]
        /\ s = "needs_reauth" => \/ Grants!At(p, "unreadable")
                                 \/ Grants!At(p, "record") /\ calls[p].outcome = "refused"
  <2>1. CASE Grants!At(p, "unreadable") /\ conn' = [conn EXCEPT !.status = "needs_reauth"]
    BY <2>1 DEF Grants!Statuses
  <2>2. CASE /\ Grants!At(p, "record") /\ calls[p].outcome # "granted"
             /\ conn' = [conn EXCEPT !.status = Grants!StatusAfter(calls[p].outcome)]
    <3>1. calls[p].outcome \in {"refused", "failed"}
      BY <2>2 DEF Grants!At, GrantsInv, GrantCall
    <3> QED BY <2>2, <3>1 DEF Grants!StatusAfter, Grants!Statuses
  <2> QED BY <2>1, <2>2 DEF Grants!recordRefreshError, Grants!Updated
<1>4. PICK s \in Grants!Statuses :
        /\ conn' = [conn EXCEPT !.status = s]
        /\ s = "needs_reauth" => \/ Grants!At(p, "unreadable")
                                 \/ Grants!At(p, "record") /\ calls[p].outcome = "refused"
  BY <1>3
<1>5. /\ conn' \in Connection /\ conn'.label = conn.label /\ conn'.token = conn.token
      /\ conn'.readable = conn.readable /\ conn'.status = s
  BY <1>1, <1>4 DEF Connection
<1>6. \A q \in Callers \ {p} : InStep(q, calls[q])'
  BY <1>1, <1>2, <1>5 DEF InStep
<1>7. Grants!OutageStep
  BY <1>1, <1>4, <1>5 DEF Grants!OutageStep, Grants!At, Grants!Account, InStep
<1> QED BY <1>1, <1>2, <1>5, <1>6, <1>7

LEMMA GrantRecords ==
  ASSUME GrantsInv, RecordsAssumption, NEW p \in Callers,
         Grants!recordRefreshSuccess(p) \/ Grants!recordRefreshError(p)
  PROVE  GrantsInv' /\ Grants!ConsentStep /\ Grants!OutageStep
<1>1. /\ DOMAIN calls' = Callers
      /\ \A q \in Callers : calls'[q] = IF q = p THEN NONE ELSE calls[q]
  BY CallMoves DEF Grants!recordRefreshSuccess, Grants!recordRefreshError, Grants!Answers, Grants!Does
<1>2. revoked' = revoked /\ cached' \in Accounts \cup {NONE}
  <2>1. ASSUME Grants!recordRefreshSuccess(p) PROVE calls[p].account \in Accounts
    BY <2>1 DEF Grants!recordRefreshSuccess, Grants!At, GrantsInv, GrantCall
  <2> QED BY <2>1 DEF Grants!recordRefreshSuccess, Grants!recordRefreshError, Grants!Account
<1>3. \A q \in Callers : calls'[q] = NONE \/ calls'[q] \in GrantCall
  BY <1>1 DEF GrantsInv
<1>4. overtaken' \subseteq Callers
  BY DEF GrantsInv, Grants!recordRefreshSuccess, Grants!recordRefreshError
<1>5. CASE conn = NONE
  <2>1. conn' = NONE
    BY <1>5 DEF Grants!recordRefreshSuccess, Grants!recordRefreshError, Grants!RefreshedRow, Grants!Updated
  <2> QED BY <1>1, <1>2, <1>3, <1>4, <2>1 DEF GrantsInv, Grants!ConsentStep, Grants!OutageStep
<1>6. CASE conn # NONE
  <2>1. conn' \in Connection /\ conn'.label = conn.label /\ \A q \in Callers \ {p} : InStep(q, calls[q])'
    BY <1>6, GrantSucceeds, GrantFails
  <2>2. InStep(p, calls[p])'
    BY <1>1 DEF InStep
  <2>3. GrantsInv'
    BY <1>1, <1>2, <1>3, <1>4, <2>1, <2>2 DEF GrantsInv
  <2>4. Grants!OutageStep
    BY <1>6, GrantSucceeds, GrantFails DEF Grants!OutageStep
  <2>5. Grants!ConsentStep
    <3>1. conn'.token # conn.token =>
            /\ Rotating /\ p \in overtaken /\ Grants!At(p, "record")
            /\ calls[p].outcome = "granted" /\ conn'.token = calls[p].account
      BY <1>6, GrantSucceeds, GrantFails
    <3> QED BY <1>6, <2>1, <3>1 DEF Grants!ConsentStep, Grants!Account
  <2> QED BY <2>3, <2>4, <2>5
<1> QED BY <1>5, <1>6

(* What else happens: a disconnect, an hour, a revocation, a restart. *)
LEMMA GrantsChange ==
  ASSUME GrantsInv, RecordsAssumption,
         \/ Grants!deleteConnection \/ Grants!Expire \/ Grants!Restart
         \/ \E a \in Accounts : Grants!Revoke(a)
  PROVE  GrantsInv' /\ Grants!ConsentStep /\ Grants!OutageStep
<1>1. CASE Grants!deleteConnection
  BY <1>1 DEF Grants!deleteConnection, GrantsInv, Grants!ConsentStep, Grants!OutageStep
<1>2. CASE Grants!Expire \/ \E a \in Accounts : Grants!Revoke(a)
  <2>1. conn' = conn /\ calls' = calls /\ overtaken' = overtaken /\ revoked' \subseteq Accounts /\ cached' \in Accounts \cup {NONE}
    BY <1>2 DEF Grants!Expire, Grants!Revoke, GrantsInv
  <2> QED BY <2>1 DEF GrantsInv, InStep, Grants!ConsentStep, Grants!OutageStep
<1>3. CASE Grants!Restart
  <2>1. /\ DOMAIN calls' = Callers /\ \A q \in Callers : calls'[q] = NONE
        /\ cached' = NONE /\ revoked' = revoked /\ overtaken' = {}
    BY <1>3 DEF Grants!Restart
  <2>2. CASE conn = NONE
    <3>1. conn' = NONE
      BY <1>3, <2>2 DEF Grants!Restart
    <3> QED BY <2>1, <3>1 DEF GrantsInv, Grants!ConsentStep, Grants!OutageStep
  <2>3. CASE conn # NONE
    <3>1. conn \in Connection
      BY <2>3 DEF GrantsInv
    <3>2. PICK same \in BOOLEAN : conn' = [conn EXCEPT !.readable = conn.readable /\ same]
      BY <1>3, <2>3 DEF Grants!Restart
    <3>3. (conn.readable /\ same) \in BOOLEAN
      BY <3>1, <3>2 DEF Connection
    <3>4. /\ conn' \in Connection /\ conn'.token = conn.token /\ conn'.label = conn.label
          /\ conn'.status = conn.status
      BY <3>1, <3>2, <3>3 DEF Connection
    <3> QED BY <2>1, <2>3, <3>4
            DEF GrantsInv, InStep, Grants!ConsentStep, Grants!OutageStep
  <2> QED BY <2>2, <2>3
<1> QED BY <1>1, <1>2, <1>3

LEMMA GrantsStep ==
  ASSUME GrantsInv, RecordsAssumption, [Grants!TokenNext]_tokens
  PROVE  GrantsInv' /\ (tokens' # tokens => Grants!ConsentStep /\ Grants!OutageStep)
<1>1. ASSUME UNCHANGED tokens PROVE GrantsInv'
  BY <1>1 DEF tokens, GrantsInv, InStep
<1>2. ASSUME conn' = conn PROVE Grants!ConsentStep /\ Grants!OutageStep
  BY <1>2 DEF Grants!ConsentStep, Grants!OutageStep
<1>3. ASSUME Grants!TokenNext PROVE GrantsInv' /\ Grants!ConsentStep /\ Grants!OutageStep
  BY <1>2, <1>3, GrantReads, GrantConsents, GrantRecords, GrantsChange DEF Grants!TokenNext
<1> QED BY <1>1, <1>3

(* IntegrationTokens: only a member's consent makes a connection or names its account, a  *)
(* connection asks for consent again only when the token it holds was refused or cannot be*)
(* read (store.ts:103-120), and a refresh that ends after a disconnect writes no row anew; *)
(* a refresh that a consent has overtaken may still store its token, where tokens rotate,  *)
(* and may still have its refusal recorded.                                                *)
THEOREM ConsentKept == Grants!TokenSpec => TokensKept
<1>1. GrantsInv /\ [Grants!TokenNext]_tokens
        => GrantsInv' /\ (tokens' # tokens => Grants!ConsentStep /\ Grants!OutageStep)
  BY GrantsStep, RecordsAssumption
<1> QED BY <1>1, GrantsStart, PTL DEF Grants!TokenSpec, TokensKept, Grants!tokenVars, tokens

(* IntegrationTokens: the rows and requests have their types.                            *)
THEOREM GrantsTyped == Grants!TokenSpec => []Grants!TokenTypeOK
<1>1. GrantsInv /\ [Grants!TokenNext]_tokens => GrantsInv'
  BY GrantsStep, RecordsAssumption
<1> QED BY <1>1, GrantsStart, GrantTypes, PTL DEF Grants!TokenSpec, Grants!tokenVars, tokens

(* ------------------------------------------------------------------- Gewrit *)

NewLink  == [doc : Docs, element : Homes, role : LinkRoles]
PaperRow == [status : {"available", "missing"}, due : BOOLEAN, old : BOOLEAN]

(* The rows: links of documents and elements there are, no two of them alike. *)
PaperRowsOK ==
  /\ paperless \subseteq Docs /\ elements \subseteq Homes
  /\ DOMAIN docs \subseteq Docs /\ \A d \in DOMAIN docs : docs[d] \in PaperRow
  /\ DOMAIN links \subseteq LinkIds
  /\ \A l \in DOMAIN links :
       links[l] \in NewLink /\ links[l].doc \in DOMAIN docs /\ links[l].element \in elements
  /\ \A l, k \in DOMAIN links : links[l] = links[k] => l = k

CreateJob == [op : {"createLink"}, pc : {"element", "ask", "upsert", "insert"}, locked : SUBSET Docs,
              new : NewLink]
DeleteJob == [op : {"deleteLink"}, pc : {"read", "lock", "delete", "last"}, link : LinkIds,
              doc : Docs \cup {NONE}, locked : SUBSET Docs, deleted : SUBSET LinkIds]
ListJob   == [op : {"list"}, pc : {"sweep"}, element : Homes, orphans : SUBSET Docs]
             \cup [op : {"list"}, pc : {"list"}, due : SUBSET Docs]
             \cup [op : {"list"}, pc : {"refresh"}, due : SUBSET Docs, found : SUBSET Docs]

(* A transaction locks its document before it deletes a link, and the document goes next. *)
PaperJobOK(j) ==
  \/ j = Papers!NoJob
  \/ j \in CreateJob /\ (j.pc # "insert" => j.locked = {})
  \/ /\ j \in DeleteJob
     /\ j.pc \in {"read", "lock"} => j.locked = {}
     /\ j.deleted = IF j.pc = "last" THEN {j.link} ELSE {}
     /\ j.pc # "read" => j.doc \in Docs
  \/ j \in ListJob

PaperJobsOK == DOMAIN paperJob = Callers /\ \A p \in Callers : PaperJobOK(paperJob[p])

(* What a sweep found without a link has none while its row is the old one. *)
Linkless(d) == \A l \in DOMAIN links : links[l].doc # d

OrphansOK ==
  \A p \in Callers :
    Papers!At(p, "sweep") =>
      \A d \in paperJob[p].orphans : d \in DOMAIN docs /\ docs[d].old => Linkless(d)

PapersInv == PaperRowsOK /\ PaperJobsOK /\ OrphansOK

LEMMA PapersStart == Papers!Init => PapersInv
<1> SUFFICES ASSUME Papers!Init PROVE PapersInv
  OBVIOUS
<1>1. DOMAIN docs = {} /\ DOMAIN links = {} /\ paperless = Docs /\ elements = Homes
  BY DEF Papers!Init
<1>2. PaperJobsOK /\ OrphansOK
  BY DEF Papers!Init, PaperJobsOK, PaperJobOK, OrphansOK, Papers!At
<1> QED BY <1>1, <1>2 DEF PapersInv, PaperRowsOK

LEMMA PaperTypes == PapersInv => Papers!TypeOK
<1> SUFFICES ASSUME PapersInv PROVE Papers!TypeOK
  OBVIOUS
<1>1. \A p \in Callers : paperJob[p] = Papers!NoJob \/ paperJob[p].pc \in
        {"element", "ask", "upsert", "insert", "read", "lock", "delete", "last", "sweep", "list", "refresh"}
  BY DEF PapersInv, PaperJobsOK, PaperJobOK, CreateJob, DeleteJob, ListJob
<1>2. \A l \in DOMAIN links :
        links[l].doc \in DOMAIN docs /\ links[l].element \in elements /\ links[l].role \in LinkRoles
  BY DEF PapersInv, PaperRowsOK, NewLink
<1> QED BY <1>1, <1>2 DEF PapersInv, PaperRowsOK, PaperRow, Papers!TypeOK, Papers!DocRows, Papers!LinkRows

(* Who holds a document is past locking it; who deletes a link waits for nobody. *)
LEMMA NoCircle == PapersInv => Papers!NoDeadlock
<1> SUFFICES ASSUME PapersInv, NEW S \in SUBSET Callers, S # {}
             PROVE  \E p \in S : Papers!WaitsFor(p) \cap S = {}
  BY DEF Papers!NoDeadlock
<1>1. ASSUME NEW q \in Callers, NEW l, Papers!Deletes(q, l) PROVE Papers!At(q, "last")
  BY <1>1 DEF Papers!Deletes, Papers!At, PapersInv, PaperJobsOK, PaperJobOK, CreateJob, DeleteJob, ListJob
<1>2. ASSUME NEW q \in Callers, NEW d, Papers!Holds(q, d)
      PROVE  Papers!At(q, "insert") \/ Papers!At(q, "delete") \/ Papers!At(q, "last")
  BY <1>2 DEF Papers!Holds, Papers!At, PapersInv, PaperJobsOK, PaperJobOK, CreateJob, DeleteJob, ListJob
<1>3. CASE \E p \in S : Papers!At(p, "last")
  <2>1. PICK p \in S : Papers!At(p, "last")
    BY <1>3
  <2>2. Papers!WaitsFor(p) = {}
    BY <2>1 DEF Papers!WaitsFor, Papers!At
  <2> QED BY <2>2
<1>4. CASE /\ ~ \E p \in S : Papers!At(p, "last")
           /\ \E p \in S : Papers!At(p, "insert") \/ Papers!At(p, "delete")
  <2>1. PICK p \in S : Papers!At(p, "insert") \/ Papers!At(p, "delete")
    BY <1>4
  <2>2. Papers!WaitsFor(p) \subseteq {q \in Callers : \E l : Papers!Deletes(q, l)}
    BY <2>1 DEF Papers!WaitsFor, Papers!At
  <2> QED BY <1>1, <1>4, <2>2
<1>5. CASE ~ \E p \in S : Papers!At(p, "last") \/ Papers!At(p, "insert") \/ Papers!At(p, "delete")
  <2>1. PICK p \in S : TRUE
    OBVIOUS
  <2>2. Papers!WaitsFor(p) \subseteq {q \in Callers : \E d : Papers!Holds(q, d)}
    BY <1>5, <2>1 DEF Papers!WaitsFor, Papers!At
  <2> QED BY <1>2, <1>5, <2>2
<1> QED BY <1>3, <1>4, <1>5

(* The job of one request moves. *)
LEMMA PaperJobMoves ==
  ASSUME PaperJobsOK, NEW p \in Callers, NEW j, PaperJobOK(j), paperJob' = [paperJob EXCEPT ![p] = j]
  PROVE  /\ PaperJobsOK' /\ paperJob'[p] = j
         /\ \A q \in Callers : q # p => paperJob'[q] = paperJob[q]
<1>1. /\ DOMAIN paperJob' = Callers /\ paperJob'[p] = j
      /\ \A q \in Callers : q # p => paperJob'[q] = paperJob[q]
  BY DEF PaperJobsOK
<1>2. \A q \in Callers : PaperJobOK(paperJob'[q])
  BY <1>1 DEF PaperJobsOK
<1>3. PaperJobsOK'
  BY <1>1, <1>2 DEF PaperJobsOK, PaperJobOK, CreateJob, DeleteJob, ListJob, NewLink, Papers!NoJob
<1> QED BY <1>1, <1>3

(* A row that is old by now is the one it was, and no link came to it. *)
Unlinked ==
  \A d \in DOMAIN docs' : docs'[d].old => /\ d \in DOMAIN docs /\ docs[d].old
                                          /\ Linkless(d) => \A l \in DOMAIN links' : links'[l].doc # d

(* A sweep goes on with the documents it found, or has looked for them just now. *)
LEMMA OrphansStay ==
  ASSUME OrphansOK, Unlinked,
         \A q \in Callers :
           Papers!At(q, "sweep")' => \/ Papers!At(q, "sweep") /\ paperJob'[q].orphans \subseteq paperJob[q].orphans
                                     \/ \A d \in paperJob'[q].orphans : Linkless(d)
  PROVE  OrphansOK'
<1> SUFFICES ASSUME NEW q \in Callers, Papers!At(q, "sweep")', NEW d \in paperJob'[q].orphans,
                    d \in DOMAIN docs', docs'[d].old
             PROVE  \A l \in DOMAIN links' : links'[l].doc # d
  BY DEF OrphansOK, Linkless
<1>1. Linkless(d)
  BY DEF OrphansOK, Unlinked
<1> QED BY <1>1 DEF Unlinked

(* The rows stay as they are. *)
LEMMA PapersStay ==
  ASSUME PaperRowsOK, elements' = elements, docs' = docs, links' = links, paperless' \subseteq Docs
  PROVE  PaperRowsOK' /\ Unlinked /\ Papers!KeptStep
<1>1. PaperRowsOK'
  BY DEF PaperRowsOK, NewLink, PaperRow
<1>2. Unlinked
  BY DEF Unlinked, Linkless
<1>3. Papers!KeptStep
  BY DEF Papers!KeptStep, Papers!LinkRows
<1> QED BY <1>1, <1>2, <1>3

(* Requests that read. *)
LEMMA PaperReads ==
  ASSUME PapersInv, RecordsAssumption, NEW p \in Callers,
         \/ Papers!Requests(p)
         \/ Papers!CheckElement(p) \/ Papers!AskProvider(p) \/ Papers!Upsert(p)
         \/ Papers!ReadLink(p) \/ Papers!LockDocument(p) \/ Papers!DeleteLinkRow(p)
         \/ Papers!ReadRows(p) \/ Papers!AskMany(p)
  PROVE  PapersInv' /\ Papers!KeptStep
<1> DEFINE j == paperJob[p]
<1>1. paperless' = paperless /\ elements' = elements /\ docs' = docs /\ links' = links
  BY DEF Papers!Requests, Papers!StartCreate, Papers!StartDelete, Papers!StartList, Papers!CheckElement,
         Papers!AskProvider, Papers!Upsert, Papers!ReadLink, Papers!LockDocument, Papers!DeleteLinkRow,
         Papers!ReadRows, Papers!AskMany
<1>2. PaperRowsOK' /\ Unlinked /\ Papers!KeptStep
  BY <1>1, PapersStay DEF PapersInv, PaperRowsOK
<1>3. PaperJobOK(j) /\ PaperJobOK(Papers!NoJob)
  BY DEF PapersInv, PaperJobsOK, PaperJobOK
<1> DEFINE Fits(k) == PaperJobOK(k) /\ (k # Papers!NoJob /\ k.pc = "sweep" => \A d \in k.orphans : Linkless(d))
<1>4. Fits(Papers!NoJob)
  BY <1>3
<1> DEFINE Moves == \E k : Fits(k) /\ paperJob' = [paperJob EXCEPT ![p] = k]
<1>5. Moves
  <2>1. CASE Papers!Requests(p)
    <3>1. ASSUME NEW d \in Docs, NEW e \in Homes, NEW r \in LinkRoles, Papers!StartCreate(p, d, e, r)
          PROVE  Moves
      <4> DEFINE k == [op |-> "createLink", pc |-> "element", locked |-> {},
                       new |-> [doc |-> d, element |-> e, role |-> r]]
      <4>1. k \in CreateJob /\ k.pc = "element" /\ k.locked = {}
        BY DEF CreateJob, NewLink
      <4>2. paperJob' = [paperJob EXCEPT ![p] = k]
        BY <3>1 DEF Papers!StartCreate, Papers!Becomes
      <4> HIDE DEF k
      <4> QED BY <4>1, <4>2 DEF PaperJobOK
    <3>2. ASSUME NEW l \in DOMAIN links, Papers!StartDelete(p, l) PROVE Moves
      <4> DEFINE k == [op |-> "deleteLink", pc |-> "read", link |-> l, doc |-> NONE,
                       locked |-> {}, deleted |-> {}]
      <4>1. k \in DeleteJob /\ k.pc = "read" /\ k.locked = {} /\ k.deleted = {}
        BY DEF DeleteJob, PapersInv, PaperRowsOK
      <4>2. paperJob' = [paperJob EXCEPT ![p] = k]
        BY <3>2 DEF Papers!StartDelete, Papers!Becomes
      <4> HIDE DEF k
      <4> QED BY <4>1, <4>2 DEF PaperJobOK
    <3>3. ASSUME NEW e \in Homes, Papers!StartList(p, e) PROVE Moves
      <4> DEFINE found == {d \in DOMAIN docs : Papers!LinksOf(d) = {} /\ docs[d].old}
                 k == [op |-> "list", pc |-> "sweep", element |-> e, orphans |-> found]
      <4>1. found \subseteq Docs /\ \A d \in found : Linkless(d)
        BY DEF PapersInv, PaperRowsOK, Papers!LinksOf, Papers!LinkRows, Linkless
      <4>2. paperJob' = [paperJob EXCEPT ![p] = k]
        BY <3>3 DEF Papers!StartList, Papers!Becomes, Papers!DocRows
      <4> HIDE DEF found
      <4>3. k \in ListJob /\ k.orphans = found
        BY <4>1 DEF ListJob
      <4> HIDE DEF k
      <4> QED BY <4>1, <4>2, <4>3 DEF PaperJobOK
    <3> QED BY <2>1, <3>1, <3>2, <3>3 DEF Papers!Requests, Papers!LinkRows
  <2>2. CASE Papers!CheckElement(p) \/ Papers!AskProvider(p) \/ Papers!Upsert(p)
    <3>1. /\ j \in CreateJob /\ j.pc \in {"element", "ask", "upsert"} /\ j.locked = {}
          /\ j.new.doc \in Docs
      BY <1>3, <2>2 DEF Papers!CheckElement, Papers!AskProvider, Papers!Upsert, Papers!At, PaperJobOK,
                        CreateJob, DeleteJob, ListJob, NewLink
    <3>2. ASSUME NEW pc \in {"ask", "upsert"} PROVE Fits([j EXCEPT !.pc = pc])
      <4>1. [j EXCEPT !.pc = pc] \in CreateJob /\ [j EXCEPT !.pc = pc].pc = pc /\ [j EXCEPT !.pc = pc].locked = {}
        BY <3>1 DEF CreateJob
      <4> QED BY <4>1 DEF PaperJobOK
    <3>3. ASSUME NEW k, k = [j EXCEPT !.pc = "insert", !.locked = {j.new.doc}] PROVE Fits(k)
      <4>1. k \in CreateJob /\ k.pc = "insert"
        BY <3>1, <3>3 DEF CreateJob
      <4> QED BY <4>1 DEF PaperJobOK
    <3> QED BY <1>4, <2>2, <3>2, <3>3
            DEF Papers!CheckElement, Papers!AskProvider, Papers!Upsert, Papers!GoesTo, Papers!Answers,
                Papers!Becomes
  <2>3. CASE Papers!ReadLink(p) \/ Papers!LockDocument(p) \/ Papers!DeleteLinkRow(p)
    <3>1. /\ j \in DeleteJob /\ j.pc \in {"read", "lock", "delete"} /\ j.deleted = {}
          /\ j.pc \in {"read", "lock"} => j.locked = {}
          /\ j.pc # "read" => j.doc \in Docs
      BY <1>3, <2>3 DEF Papers!ReadLink, Papers!LockDocument, Papers!DeleteLinkRow, Papers!At, PaperJobOK,
                        CreateJob, DeleteJob, ListJob
    <3>2. CASE Papers!ReadLink(p)
      <4>1. CASE j.link \in DOMAIN links
        <5>1. PICK d : d = links[j.link].doc
          OBVIOUS
        <5>2. d \in Docs
          BY <4>1, <5>1 DEF PapersInv, PaperRowsOK
        <5> DEFINE k == [j EXCEPT !.pc = "lock", !.doc = d]
        <5>3. k \in DeleteJob /\ k.pc = "lock" /\ k.locked = {} /\ k.deleted = {} /\ k.doc = d
          BY <3>1, <3>2, <5>2 DEF DeleteJob, Papers!ReadLink, Papers!At
        <5>4. paperJob' = [paperJob EXCEPT ![p] = k]
          BY <3>2, <4>1, <5>1 DEF Papers!ReadLink, Papers!Becomes, Papers!LinkRows, Papers!DocumentFirst
        <5> HIDE DEF k
        <5> QED BY <5>2, <5>3, <5>4 DEF PaperJobOK
      <4>2. CASE j.link \notin DOMAIN links
        BY <1>4, <3>2, <4>2 DEF Papers!ReadLink, Papers!Answers, Papers!Becomes, Papers!LinkRows
      <4> QED BY <4>1, <4>2
    <3>3. CASE Papers!LockDocument(p)
      <4>1. PICK held : held = {j.doc} \cap DOMAIN docs
        OBVIOUS
      <4>2. held \in SUBSET Docs /\ j.doc \in Docs
        BY <3>1, <3>3, <4>1 DEF Papers!LockDocument, Papers!At
      <4> DEFINE k == [j EXCEPT !.pc = "delete", !.locked = held]
      <4>3. k \in DeleteJob /\ k.pc = "delete" /\ k.deleted = {} /\ k.doc \in Docs
        BY <3>1, <4>2 DEF DeleteJob
      <4>4. paperJob' = [paperJob EXCEPT ![p] = k]
        BY <3>3, <4>1 DEF Papers!LockDocument, Papers!Becomes, Papers!DocRows, Papers!DocumentFirst
      <4> HIDE DEF k
      <4> QED BY <4>3, <4>4 DEF PaperJobOK
    <3>4. CASE Papers!DeleteLinkRow(p)
      <4>1. CASE j.link \in DOMAIN links
        <5>1. PICK gone : gone = {j.link}
          OBVIOUS
        <5>2. gone \in SUBSET LinkIds /\ j.doc \in Docs
          BY <3>1, <3>4, <5>1 DEF Papers!DeleteLinkRow, Papers!At, DeleteJob
        <5> DEFINE k == [j EXCEPT !.pc = "last", !.deleted = gone]
        <5>3. k \in DeleteJob /\ k.pc = "last" /\ k.deleted = gone /\ k.link = j.link /\ k.doc \in Docs
          BY <3>1, <5>2 DEF DeleteJob
        <5>4. paperJob' = [paperJob EXCEPT ![p] = k]
          BY <3>4, <4>1, <5>1 DEF Papers!DeleteLinkRow, Papers!Becomes, Papers!LinkRows, Papers!DocumentFirst
        <5> HIDE DEF k
        <5> QED BY <5>1, <5>3, <5>4 DEF PaperJobOK
      <4>2. CASE j.link \notin DOMAIN links
        BY <1>4, <3>4, <4>2 DEF Papers!DeleteLinkRow, Papers!Answers, Papers!Becomes, Papers!LinkRows
      <4> QED BY <4>1, <4>2
    <3> QED BY <2>3, <3>2, <3>3, <3>4
  <2>4. CASE Papers!ReadRows(p)
    <3>1. PICK due : due = {d \in DOMAIN docs : docs[d].due /\ \E l \in Papers!LinksOf(d) : links[l].element = j.element}
      OBVIOUS
    <3>2. due \in SUBSET Docs
      BY <3>1 DEF PapersInv, PaperRowsOK
    <3> DEFINE k == [op |-> "list", pc |-> "list", due |-> due]
    <3>3. k \in ListJob /\ k.pc = "list"
      BY <3>2 DEF ListJob
    <3>4. paperJob' = [paperJob EXCEPT ![p] = Papers!NoJob] \/ paperJob' = [paperJob EXCEPT ![p] = k]
      BY <2>4, <3>1 DEF Papers!ReadRows, Papers!Answers, Papers!Becomes, Papers!DocRows
    <3> HIDE DEF k
    <3> QED BY <1>4, <3>3, <3>4 DEF PaperJobOK
  <2>5. CASE Papers!AskMany(p)
    <3>1. j \in ListJob /\ j.due \in SUBSET Docs
      BY <1>3, <2>5 DEF Papers!AskMany, Papers!At, PaperJobOK, CreateJob, DeleteJob, ListJob
    <3> DEFINE k == [op |-> "list", pc |-> "refresh", due |-> j.due, found |-> j.due \cap paperless]
    <3>2. k \in ListJob /\ k.pc = "refresh"
      BY <3>1 DEF ListJob
    <3>3. paperJob' = [paperJob EXCEPT ![p] = Papers!NoJob] \/ paperJob' = [paperJob EXCEPT ![p] = k]
      BY <2>5 DEF Papers!AskMany, Papers!Answers, Papers!Becomes
    <3> HIDE DEF k
    <3> QED BY <1>4, <3>2, <3>3 DEF PaperJobOK
  <2> QED BY <2>1, <2>2, <2>3, <2>4, <2>5
<1>6. PICK k : Fits(k) /\ paperJob' = [paperJob EXCEPT ![p] = k]
  BY <1>5
<1>7. /\ PaperJobsOK' /\ paperJob'[p] = k
      /\ \A q \in Callers : q # p => paperJob'[q] = paperJob[q]
  BY <1>6, PaperJobMoves DEF PapersInv
<1>8. OrphansOK'
  BY <1>2, <1>6, <1>7, OrphansStay DEF PapersInv, Papers!At
<1> QED BY <1>2, <1>7, <1>8 DEF PapersInv

(* A new link makes its document's row anew: no sweep that found the old one takes it. *)
LEMMA LinkMade ==
  ASSUME PapersInv, RecordsAssumption, NEW p \in Callers, Papers!InsertLink(p)
  PROVE  PapersInv' /\ Papers!KeptStep
<1> DEFINE new == paperJob[p].new
<1>1. new \in NewLink
  BY DEF Papers!InsertLink, Papers!At, PapersInv, PaperJobsOK, PaperJobOK, CreateJob, DeleteJob, ListJob
<1>2. /\ PaperJobsOK' /\ paperJob'[p] = Papers!NoJob
      /\ \A q \in Callers : q # p => paperJob'[q] = paperJob[q]
  BY PaperJobMoves DEF Papers!InsertLink, Papers!Answers, Papers!Becomes, PapersInv, PaperJobOK
<1>3. paperless' = paperless /\ elements' = elements
  BY DEF Papers!InsertLink
<1>4. CASE docs' = docs /\ links' = links
  <2>1. PaperRowsOK' /\ Unlinked /\ Papers!KeptStep
    BY <1>3, <1>4, PapersStay DEF PapersInv, PaperRowsOK
  <2> QED BY <1>2, <2>1, OrphansStay DEF PapersInv, Papers!At
<1>5. CASE /\ Papers!Rivals(new) = {} /\ new.element \in elements
           /\ docs' = Papers!WithDoc(new.doc, Papers!Row("available"))
           /\ \E id \in LinkIds \ DOMAIN links : links' = Papers!WithLink(id, new)
  <2>1. PICK id \in LinkIds \ DOMAIN links : links' = Papers!WithLink(id, new)
    BY <1>5
  <2>2. /\ DOMAIN links' = DOMAIN links \cup {id} /\ links'[id] = new
        /\ \A l \in DOMAIN links : links'[l] = links[l]
    BY <2>1 DEF Papers!WithLink, Papers!LinkRows
  <2>3. /\ DOMAIN docs' = DOMAIN docs \cup {new.doc}
        /\ docs'[new.doc] \in PaperRow /\ ~docs'[new.doc].old
        /\ \A d \in DOMAIN docs : d # new.doc => docs'[d] = docs[d]
    BY <1>5 DEF Papers!WithDoc, Papers!DocRows, Papers!Row, PaperRow
  <2>4. PaperRowsOK'
    <3>1. new.doc \in Docs
      BY <1>1 DEF NewLink
    <3>2. \A l \in DOMAIN links' :
            links'[l] \in NewLink /\ links'[l].doc \in DOMAIN docs' /\ links'[l].element \in elements'
      BY <1>1, <1>3, <1>5, <2>2, <2>3 DEF PapersInv, PaperRowsOK
    <3>3. \A l \in DOMAIN links : links[l] # new
      BY <1>5 DEF Papers!Rivals, Papers!LinkRows
    <3>4. \A l, k \in DOMAIN links' : links'[l] = links'[k] => l = k
      BY <2>2, <3>3 DEF PapersInv, PaperRowsOK
    <3>5. \A d \in DOMAIN docs' : docs'[d] \in PaperRow
      BY <2>3 DEF PapersInv, PaperRowsOK
    <3> QED BY <1>3, <2>2, <2>3, <3>1, <3>2, <3>4, <3>5 DEF PapersInv, PaperRowsOK, NewLink, PaperRow
  <2>5. Unlinked
    BY <2>2, <2>3 DEF Unlinked, Linkless
  <2>6. Papers!KeptStep
    BY <2>2 DEF Papers!KeptStep, Papers!LinkRows
  <2> QED BY <1>2, <2>4, <2>5, <2>6, OrphansStay DEF PapersInv, Papers!At
<1> QED BY <1>4, <1>5 DEF Papers!InsertLink, Papers!LinkRows

(* A document goes with its last link, which its own request deletes. *)
LEMMA LinkDropped ==
  ASSUME PapersInv, RecordsAssumption, NEW p \in Callers, Papers!DropDocument(p)
  PROVE  PapersInv' /\ Papers!KeptStep
<1> DEFINE j == paperJob[p]
<1>1. Papers!At(p, "last") /\ j.deleted = {j.link}
  BY DEF Papers!DropDocument, Papers!At, PapersInv, PaperJobsOK, PaperJobOK, CreateJob, DeleteJob, ListJob
<1>2. /\ PaperJobsOK' /\ paperJob'[p] = Papers!NoJob
      /\ \A q \in Callers : q # p => paperJob'[q] = paperJob[q]
  BY PaperJobMoves DEF Papers!DropDocument, Papers!Answers, Papers!Becomes, PapersInv, PaperJobOK
<1>3. paperless' = paperless /\ elements' = elements
  BY DEF Papers!DropDocument
<1>4. /\ DOMAIN links' = DOMAIN links \ {j.link}
      /\ \A l \in DOMAIN links' : links'[l] = links[l]
  BY <1>1 DEF Papers!DropDocument, Papers!WithoutLinks, Papers!LinkRows
<1>5. /\ DOMAIN docs' \subseteq DOMAIN docs
      /\ \A d \in DOMAIN docs' : docs'[d] = docs[d]
      /\ \A d \in DOMAIN docs \ DOMAIN docs' : \A l \in DOMAIN links : links[l].doc = d => l = j.link
  <2>1. CASE Papers!LinksOf(j.doc) \subseteq j.deleted
    <3>1. docs' = Papers!WithoutDoc(j.doc)
      BY <2>1 DEF Papers!DropDocument
    <3> QED BY <1>1, <2>1, <3>1 DEF Papers!WithoutDoc, Papers!DocRows, Papers!LinksOf, Papers!LinkRows
  <2>2. CASE ~ (Papers!LinksOf(j.doc) \subseteq j.deleted)
    BY <2>2 DEF Papers!DropDocument
  <2> QED BY <2>1, <2>2
<1>6. PaperRowsOK'
  BY <1>3, <1>4, <1>5 DEF PapersInv, PaperRowsOK
<1>7. Unlinked
  BY <1>4, <1>5 DEF Unlinked, Linkless
<1>8. Papers!KeptStep
  BY <1>1, <1>2, <1>4 DEF Papers!KeptStep, Papers!LinkRows
<1> QED BY <1>2, <1>6, <1>7, <1>8, OrphansStay DEF PapersInv, Papers!At

(* The sweep: what is old by now has no link that could go with it. *)
LEMMA OrphanSwept ==
  ASSUME PapersInv, RecordsAssumption, NEW p \in Callers, Papers!SweepOrphan(p)
  PROVE  PapersInv' /\ Papers!KeptStep
<1> DEFINE j == paperJob[p]
<1>1. PICK d \in j.orphans :
        /\ IF Papers!StillOld(d)
           THEN docs' = Papers!WithoutDoc(d) /\ links' = Papers!WithoutLinks(Papers!LinksOf(d))
           ELSE docs' = docs /\ links' = links
        /\ paperJob' = [paperJob EXCEPT ![p] = [j EXCEPT !.orphans = j.orphans \ {d}]]
  BY DEF Papers!SweepOrphan, Papers!Becomes
<1>2. /\ j \in [op : {"list"}, pc : {"sweep"}, element : Homes, orphans : SUBSET Docs]
      /\ Papers!At(p, "sweep")
  BY DEF Papers!SweepOrphan, Papers!At, PapersInv, PaperJobsOK, PaperJobOK, CreateJob, DeleteJob, ListJob
<1> DEFINE k == [j EXCEPT !.orphans = j.orphans \ {d}]
<1>3. k \in ListJob /\ k.orphans \subseteq j.orphans
  BY <1>2 DEF ListJob
<1>4. /\ PaperJobsOK' /\ paperJob'[p] = k
      /\ \A q \in Callers : q # p => paperJob'[q] = paperJob[q]
  BY <1>1, <1>3, PaperJobMoves DEF PapersInv, PaperJobOK
<1> HIDE DEF k
<1>5. paperless' = paperless /\ elements' = elements
  BY DEF Papers!SweepOrphan
<1>6. /\ DOMAIN docs' \subseteq DOMAIN docs /\ \A c \in DOMAIN docs' : docs'[c] = docs[c]
      /\ DOMAIN links' = DOMAIN links /\ \A l \in DOMAIN links : links'[l] = links[l]
      /\ \A l \in DOMAIN links : links[l].doc \in DOMAIN docs'
  <2>1. CASE Papers!StillOld(d)
    <3>1. Linkless(d)
      BY <1>1, <1>2, <2>1 DEF PapersInv, OrphansOK, Papers!StillOld, Papers!DocRows
    <3>2. docs' = [c \in DOMAIN docs \ {d} |-> docs[c]] /\ links' = [l \in DOMAIN links |-> links[l]]
      <4>1. DOMAIN links \ Papers!LinksOf(d) = DOMAIN links
        BY <3>1 DEF Linkless, Papers!LinksOf, Papers!LinkRows
      <4> QED BY <1>1, <2>1, <4>1 DEF Papers!WithoutDoc, Papers!WithoutLinks, Papers!LinkRows, Papers!DocRows
    <3> QED BY <3>1, <3>2 DEF Linkless, PapersInv, PaperRowsOK
  <2>2. CASE ~Papers!StillOld(d)
    BY <1>1, <2>2 DEF PapersInv, PaperRowsOK
  <2> QED BY <2>1, <2>2
<1>7. PaperRowsOK'
  BY <1>5, <1>6 DEF PapersInv, PaperRowsOK
<1>8. Unlinked
  BY <1>6 DEF Unlinked, Linkless
<1>9. Papers!KeptStep
  BY <1>6 DEF Papers!KeptStep, Papers!LinkRows
<1> QED BY <1>2, <1>3, <1>4, <1>7, <1>8, <1>9, OrphansStay DEF PapersInv, Papers!At

(* A row is written from what the provider knows of the document. *)
LEMMA RowWritten ==
  ASSUME PapersInv, NEW d \in DOMAIN docs, NEW row \in PaperRow, ~row.old, docs' = Papers!WithDoc(d, row),
         elements' = elements, links' = links, paperless' = paperless
  PROVE  PaperRowsOK' /\ Unlinked /\ Papers!KeptStep
<1>1. /\ DOMAIN docs' = DOMAIN docs /\ docs'[d] = row
      /\ \A c \in DOMAIN docs : c # d => docs'[c] = docs[c]
  BY DEF Papers!WithDoc, Papers!DocRows
<1>2. PaperRowsOK'
  BY <1>1 DEF PapersInv, PaperRowsOK
<1>3. Unlinked
  BY <1>1 DEF Unlinked, Linkless
<1>4. Papers!KeptStep
  BY DEF Papers!KeptStep, Papers!LinkRows
<1> QED BY <1>2, <1>3, <1>4

LEMMA RowRefreshed ==
  ASSUME PapersInv, RecordsAssumption, NEW p \in Callers, Papers!RefreshRow(p)
  PROVE  PapersInv' /\ Papers!KeptStep
<1> DEFINE j == paperJob[p]
<1>1. PICK d \in j.due :
        /\ docs' = IF d \in DOMAIN docs THEN Papers!WithDoc(d, Papers!Refreshed(d, j.found)) ELSE docs
        /\ \/ paperJob' = [paperJob EXCEPT ![p] = Papers!NoJob]
           \/ paperJob' = [paperJob EXCEPT ![p] = [j EXCEPT !.due = j.due \ {d}]]
  BY DEF Papers!RefreshRow, Papers!Answers, Papers!Becomes, Papers!DocRows
<1>2. paperless' = paperless /\ elements' = elements /\ links' = links
  BY DEF Papers!RefreshRow
<1>3. j \in [op : {"list"}, pc : {"refresh"}, due : SUBSET Docs, found : SUBSET Docs]
  BY DEF Papers!RefreshRow, Papers!At, PapersInv, PaperJobsOK, PaperJobOK, CreateJob, DeleteJob, ListJob
<1> DEFINE k == [j EXCEPT !.due = j.due \ {d}]
<1>4. k \in ListJob /\ k.pc = "refresh"
  BY <1>3 DEF ListJob
<1> HIDE DEF k
<1>5. PICK n \in {k, Papers!NoJob} : paperJob' = [paperJob EXCEPT ![p] = n]
  BY <1>1 DEF k
<1>6. PaperJobOK(n) /\ (n # Papers!NoJob => n.pc = "refresh")
  BY <1>4, <1>5 DEF PaperJobOK
<1>7. /\ PaperJobsOK' /\ paperJob'[p] = n
      /\ \A q \in Callers : q # p => paperJob'[q] = paperJob[q]
  BY <1>5, <1>6, PaperJobMoves DEF PapersInv
<1>8. PaperRowsOK' /\ Unlinked /\ Papers!KeptStep
  <2>1. CASE d \in DOMAIN docs
    <3> DEFINE row == Papers!Refreshed(d, j.found)
    <3>1. docs[d] \in PaperRow
      BY <2>1 DEF PapersInv, PaperRowsOK
    <3>2. row \in PaperRow /\ ~row.old
      <4>1. Papers!Row("available") \in PaperRow /\ ~Papers!Row("available").old
        BY DEF Papers!Row, PaperRow
      <4>2. PICK m : m = [docs[d] EXCEPT !.status = "missing", !.old = FALSE]
        OBVIOUS
      <4>3. m \in PaperRow /\ ~m.old
        BY <3>1, <4>2 DEF PaperRow
      <4> QED BY <4>1, <4>2, <4>3 DEF Papers!Refreshed
    <3> HIDE DEF row
    <3>3. docs' = Papers!WithDoc(d, row)
      BY <1>1, <2>1 DEF row
    <3> QED BY <1>2, <2>1, <3>2, <3>3, RowWritten
  <2>2. CASE d \notin DOMAIN docs
    BY <1>1, <1>2, <2>2, PapersStay DEF PapersInv, PaperRowsOK
  <2> QED BY <2>1, <2>2
<1>9. OrphansOK'
  BY <1>6, <1>7, <1>8, OrphansStay DEF PapersInv, Papers!At
<1> QED BY <1>7, <1>8, <1>9 DEF PapersInv

(* A link that changes keeps its document. *)
LEMMA LinkChanged ==
  ASSUME PapersInv, RecordsAssumption, NEW l \in DOMAIN links, NEW r \in LinkRoles, Papers!updateLink(l, r)
  PROVE  PaperRowsOK' /\ Unlinked /\ Papers!KeptStep
<1>1. PICK new : new = [links[l] EXCEPT !.role = r]
  OBVIOUS
<1>2. links[l] \in NewLink
  BY DEF PapersInv, PaperRowsOK
<1>3. new \in NewLink /\ new.doc = links[l].doc /\ new.element = links[l].element
  BY <1>1, <1>2 DEF NewLink
<1>4. links' = Papers!WithLink(l, new) /\ Papers!Rivals(new) \subseteq {l}
  BY <1>1 DEF Papers!updateLink
<1>5. /\ DOMAIN links' = DOMAIN links /\ links'[l] = new
      /\ \A k \in DOMAIN links : k # l => links'[k] = links[k]
  BY <1>4 DEF Papers!WithLink, Papers!LinkRows
<1>6. \A k \in DOMAIN links : k # l => links[k] # new
  BY <1>4 DEF Papers!Rivals, Papers!LinkRows
<1>7. paperless' = paperless /\ elements' = elements /\ docs' = docs
  BY DEF Papers!updateLink
<1>8. PaperRowsOK'
  <2>1. \A k \in DOMAIN links' :
          links'[k] \in NewLink /\ links'[k].doc \in DOMAIN docs' /\ links'[k].element \in elements'
    BY <1>3, <1>5, <1>7 DEF PapersInv, PaperRowsOK
  <2>2. \A k, m \in DOMAIN links' : links'[k] = links'[m] => k = m
    BY <1>5, <1>6 DEF PapersInv, PaperRowsOK
  <2> QED BY <1>5, <1>7, <2>1, <2>2 DEF PapersInv, PaperRowsOK, NewLink, PaperRow
<1>9. Unlinked
  BY <1>3, <1>5, <1>7 DEF Unlinked, Linkless
<1>10. Papers!KeptStep
  BY <1>5 DEF Papers!KeptStep, Papers!LinkRows
<1> QED BY <1>8, <1>9, <1>10

(* An element goes with its links, and none of them is kept anywhere else. *)
LEMMA ElementsChange ==
  ASSUME PapersInv, RecordsAssumption, NEW e \in Homes, Papers!CreateElement(e) \/ Papers!DeleteElement(e)
  PROVE  PaperRowsOK' /\ Unlinked /\ Papers!KeptStep
<1>1. paperless' = paperless /\ docs' = docs
  BY DEF Papers!CreateElement, Papers!DeleteElement
<1>2. CASE Papers!CreateElement(e)
  <2>1. links' = links /\ elements' = elements \cup {e}
    BY <1>2 DEF Papers!CreateElement
  <2> QED BY <1>1, <2>1 DEF PapersInv, PaperRowsOK, NewLink, PaperRow, Unlinked, Linkless, Papers!KeptStep,
                            Papers!LinkRows
<1>3. CASE Papers!DeleteElement(e)
  <2>1. /\ elements' = elements \ {e}
        /\ DOMAIN links' = {l \in DOMAIN links : links[l].element # e}
        /\ \A l \in DOMAIN links' : links'[l] = links[l]
    BY <1>3 DEF Papers!DeleteElement, Papers!WithoutLinks, Papers!LinkRows
  <2>2. PaperRowsOK'
    BY <1>1, <2>1 DEF PapersInv, PaperRowsOK, NewLink, PaperRow
  <2>3. Unlinked
    BY <1>1, <2>1 DEF Unlinked, Linkless
  <2>4. Papers!KeptStep
    BY <2>1 DEF Papers!KeptStep, Papers!LinkRows
  <2> QED BY <2>2, <2>3, <2>4
<1> QED BY <1>2, <1>3

(* What happens around the requests, while they hold what they read. *)
LEMMA PapersChange ==
  ASSUME PapersInv, RecordsAssumption,
         \/ \E l \in DOMAIN links, r \in LinkRoles : Papers!updateLink(l, r)
         \/ \E d \in Docs : Papers!markMissing(d) \/ Papers!ProviderChanges(d)
         \/ \E e \in Homes : Papers!CreateElement(e) \/ Papers!DeleteElement(e)
  PROVE  PapersInv' /\ Papers!KeptStep
<1>1. paperJob' = paperJob
  BY DEF Papers!updateLink, Papers!markMissing, Papers!ProviderChanges, Papers!CreateElement,
         Papers!DeleteElement
<1>2. PaperJobsOK'
  BY <1>1 DEF PapersInv, PaperJobsOK, PaperJobOK, CreateJob, DeleteJob, ListJob, NewLink, Papers!NoJob
<1>3. PaperRowsOK' /\ Unlinked /\ Papers!KeptStep
  <2>1. ASSUME NEW d \in Docs, Papers!markMissing(d) PROVE PaperRowsOK' /\ Unlinked /\ Papers!KeptStep
    <3>1. d \in DOMAIN docs /\ docs[d] \in PaperRow
      BY <2>1 DEF Papers!markMissing, Papers!DocRows, PapersInv, PaperRowsOK
    <3>2. PICK m : m = [docs[d] EXCEPT !.status = "missing", !.old = FALSE]
      OBVIOUS
    <3>3. m \in PaperRow /\ ~m.old
      BY <3>1, <3>2 DEF PaperRow
    <3>4. /\ docs' = Papers!WithDoc(d, m) /\ elements' = elements /\ links' = links
          /\ paperless' = paperless
      BY <2>1, <3>2 DEF Papers!markMissing
    <3> QED BY <3>1, <3>3, <3>4, RowWritten
  <2>2. ASSUME NEW d \in Docs, Papers!ProviderChanges(d) PROVE PaperRowsOK' /\ Unlinked /\ Papers!KeptStep
    <3>1. paperless' \subseteq Docs /\ elements' = elements /\ docs' = docs /\ links' = links
      BY <2>2 DEF Papers!ProviderChanges, PapersInv, PaperRowsOK
    <3> QED BY <3>1, PapersStay DEF PapersInv
  <2> QED BY <2>1, <2>2, LinkChanged, ElementsChange
<1>4. OrphansOK'
  BY <1>1, <1>3, OrphansStay DEF PapersInv, Papers!At
<1> QED BY <1>2, <1>3, <1>4 DEF PapersInv

(* A document is old only once no request is at work any more. *)
LEMMA PapersAge ==
  ASSUME PapersInv, RecordsAssumption, Papers!TimePasses \/ Papers!Crash
  PROVE  PapersInv' /\ Papers!KeptStep
<1>1. CASE Papers!TimePasses
  <2>1. PICK aged \in BOOLEAN :
          /\ aged => \A p \in Callers : paperJob[p] = Papers!NoJob
          /\ docs' = [d \in DOMAIN docs |-> [docs[d] EXCEPT !.due = TRUE, !.old = docs[d].old \/ aged]]
    BY <1>1 DEF Papers!TimePasses, Papers!DocRows
  <2>2. paperless' = paperless /\ elements' = elements /\ links' = links /\ paperJob' = paperJob
    BY <1>1 DEF Papers!TimePasses
  <2>3. ASSUME NEW d \in DOMAIN docs
        PROVE  docs'[d] \in PaperRow /\ docs'[d].old = (docs[d].old \/ aged)
    <3>1. docs[d] \in PaperRow
      BY DEF PapersInv, PaperRowsOK
    <3>2. PICK old \in BOOLEAN : old = (docs[d].old \/ aged)
      BY <3>1 DEF PaperRow
    <3>3. PICK m : m = [docs[d] EXCEPT !.due = TRUE, !.old = old]
      OBVIOUS
    <3>4. m \in PaperRow /\ m.old = old
      BY <3>1, <3>3 DEF PaperRow
    <3>5. docs'[d] = m
      BY <2>1, <3>2, <3>3
    <3> QED BY <3>2, <3>4, <3>5
  <2>4. DOMAIN docs' = DOMAIN docs
    BY <2>1
  <2>5. PaperRowsOK'
    BY <2>2, <2>3, <2>4 DEF PapersInv, PaperRowsOK, NewLink, PaperRow
  <2>6. PaperJobsOK'
    BY <2>2 DEF PapersInv, PaperJobsOK, PaperJobOK, CreateJob, DeleteJob, ListJob, NewLink, Papers!NoJob
  <2>7. OrphansOK'
    BY <2>1, <2>2, <2>3, <2>4 DEF PapersInv, OrphansOK, Linkless, Papers!At
  <2>8. Papers!KeptStep
    BY <2>2 DEF Papers!KeptStep, Papers!LinkRows
  <2> QED BY <2>5, <2>6, <2>7, <2>8 DEF PapersInv
<1>2. CASE Papers!Crash
  <2>1. /\ paperless' = paperless /\ elements' = elements /\ docs' = docs /\ links' = links
        /\ paperJob' = [p \in Callers |-> Papers!NoJob]
    BY <1>2 DEF Papers!Crash
  <2>2. PaperRowsOK' /\ Papers!KeptStep
    BY <2>1, PapersStay DEF PapersInv, PaperRowsOK
  <2>3. PaperJobsOK' /\ OrphansOK'
    BY <2>1 DEF PaperJobsOK, PaperJobOK, OrphansOK, Papers!At
  <2> QED BY <2>2, <2>3 DEF PapersInv
<1> QED BY <1>1, <1>2

LEMMA PapersStep ==
  ASSUME PapersInv, RecordsAssumption, [Papers!Next]_gewrit
  PROVE  PapersInv' /\ (gewrit' # gewrit => Papers!KeptStep)
<1>1. ASSUME UNCHANGED gewrit PROVE PapersInv'
  <2>1. /\ paperless' = paperless /\ elements' = elements /\ docs' = docs /\ links' = links
        /\ paperJob' = paperJob
    BY <1>1 DEF gewrit
  <2>2. PaperRowsOK'
    BY <2>1, PapersStay DEF PapersInv, PaperRowsOK
  <2>3. PaperJobsOK'
    BY <2>1 DEF PapersInv, PaperJobsOK, PaperJobOK, CreateJob, DeleteJob, ListJob, NewLink, Papers!NoJob
  <2>4. OrphansOK'
    BY <2>1 DEF PapersInv, OrphansOK, Linkless, Papers!At
  <2> QED BY <2>2, <2>3, <2>4 DEF PapersInv
<1>2. ASSUME NEW p \in Callers, Papers!Works(p) PROVE PapersInv' /\ Papers!KeptStep
  BY <1>2, PaperReads, LinkMade, LinkDropped, OrphanSwept, RowRefreshed DEF Papers!Works
<1>3. ASSUME Papers!Next PROVE PapersInv' /\ Papers!KeptStep
  BY <1>2, <1>3, PaperReads, PapersChange, PapersAge DEF Papers!Next, Papers!LinkRows
<1> QED BY <1>1, <1>3

(* Gewrit: a link goes only by its own deletion or with its element, whatever the sweep  *)
(* of orphans and the removal of a document meet (service.ts:101-106, 219-221), and no    *)
(* requests wait for one another in a circle (service.ts:215-218).                        *)
THEOREM LinksStay == Papers!Spec => LinksKept
<1>1. PapersInv /\ [Papers!Next]_gewrit => PapersInv' /\ (gewrit' # gewrit => Papers!KeptStep)
  BY PapersStep, RecordsAssumption
<1> QED BY <1>1, PapersStart, NoCircle, PTL DEF Papers!Spec, LinksKept, Papers!gewritVars, gewrit

(* Gewrit: links refer to documents and elements there are, and no two are alike.         *)
THEOREM PapersTyped == Papers!Spec => []Papers!TypeOK
<1>1. PapersInv /\ [Papers!Next]_gewrit => PapersInv'
  BY PapersStep, RecordsAssumption
<1> QED BY <1>1, PapersStart, PaperTypes, PTL DEF Papers!Spec, Papers!gewritVars, gewrit

-----------------------------------------------------------------------------
(* A row of the list has every column; a row added by hand has no recipe. *)
GoodOK(row) ==
  /\ row = [good |-> row.good, qty |-> row.qty, source |-> row.source, checked |-> row.checked,
            hand |-> row.hand]
  /\ row.hand => row.source = NONE

TapEntry == [item : Items, checked : BOOLEAN]
TapPatch == [item : Items, checked : BOOLEAN, by : Replays \cup {NONE, "gone"}, at : {"sent", "applied", "missing"}]

(* Whatever is listed, queued or under way is of a row there was. *)
ShopRowsOK ==
  /\ DOMAIN list = Items /\ used \subseteq Items
  /\ \A i \in Items : list[i] # NONE => i \in used /\ GoodOK(list[i])

ShopPhoneOK ==
  /\ queue \in [Items -> BOOLEAN \cup {NONE}] /\ wanted \in [Items -> BOOLEAN \cup {NONE}]
  /\ \A i \in Items : queue[i] # NONE \/ wanted[i] # NONE => i \in used
  /\ patches \subseteq TapPatch
  /\ \A x \in patches : x.item \in used /\ (x.by = "gone" => x.at = "sent")
  /\ DOMAIN replay = Replays
  /\ \A r \in Replays : replay[r] # NONE =>
       replay[r] \subseteq TapEntry /\ \A e \in replay[r] : e.item \in used

(* A request about to replace the generated rows, or just past it, brings none added by hand. *)
ShopJobOK(j) ==
  j # NONE /\ j.pc \in {"delete", "insert"} =>
    /\ j = [pc |-> j.pc, rows |-> j.rows]
    /\ \A row \in j.rows : GoodOK(row) /\ ~row.hand

ShopJobsOK == DOMAIN shopJob = Shoppers /\ \A p \in Shoppers : ShopJobOK(shopJob[p])

(* Of an item whose last tap was not crossed: what is under way is what was tapped last;   *)
(* what is queued is too, or that tap is on its way; and a row that differs from the last  *)
(* tap has that tap queued or on its way.                                                 *)
Stands(i, checked) == i \in crossed \/ wanted[i] \in {checked, NONE}
OnItsWay(i)        == \E x \in patches : x.item = i /\ x.by = NONE

SentStand   == \A x \in patches : Stands(x.item, x.checked)
ReplayStand == \A r \in Replays : replay[r] # NONE => \A e \in replay[r] : Stands(e.item, e.checked)
QueueStands == \A i \in Items : queue[i] # NONE => Stands(i, queue[i]) \/ OnItsWay(i)
RowsCatchUp == \A i \in Items :
  list[i] # NONE /\ wanted[i] # NONE /\ list[i].checked # wanted[i] =>
    i \in crossed \/ queue[i] # NONE \/ OnItsWay(i)
AppliedStand == \A x \in patches :
  /\ x.at = "applied" /\ list[x.item] # NONE => Stands(x.item, list[x.item].checked)
  /\ x.at = "missing" => list[x.item] = NONE

(* A replay that is under way sends one request at a time. *)
OneEach == \A x \in patches : x.by \in Replays =>
  replay[x.by] # NONE /\ \A y \in patches : y.by = x.by => y = x

ShopTapsOK == SentStand /\ ReplayStand /\ QueueStands /\ RowsCatchUp /\ AppliedStand /\ OneEach

ShopInv == ShopRowsOK /\ ShopPhoneOK /\ ShopJobsOK /\ ShopTapsOK

LEMMA ShopStart ==
  ASSUME Shop!ShoppingInit
  PROVE  ShopInv
<1>1. /\ list = [i \in Items |-> NONE] /\ used = {} /\ shopJob = [p \in Shoppers |-> NONE]
      /\ queue = [i \in Items |-> NONE] /\ patches = {} /\ replay = [r \in Replays |-> NONE]
      /\ wanted = [i \in Items |-> NONE] /\ crossed = {}
  BY DEF Shop!ShoppingInit
<1>2. ShopRowsOK
  BY <1>1 DEF ShopRowsOK
<1>3. ShopPhoneOK
  BY <1>1 DEF ShopPhoneOK
<1>4. ShopJobsOK
  BY <1>1 DEF ShopJobsOK, ShopJobOK
<1>5. ShopTapsOK
  BY <1>1 DEF ShopTapsOK, SentStand, ReplayStand, QueueStands, RowsCatchUp, AppliedStand, OneEach
<1> QED BY <1>2, <1>3, <1>4, <1>5 DEF ShopInv

(* A row that did not catch up is queued or on its way, so once nothing is, every row has. *)
LEMMA TapsHaveArrived ==
  ASSUME ShopInv, RecordsAssumption
  PROVE  Shop!TapsArrive
BY DEF ShopInv, ShopTapsOK, RowsCatchUp, OnItsWay, Shop!TapsArrive, Shop!Queued, Shop!Present,
       RecordsAssumption

(* The list may change around the phone as long as a row the phone knows keeps its mark. *)
LEMMA ListMoves ==
  ASSUME ShopInv, DOMAIN list' = Items, used \subseteq used', used' \subseteq Items,
         queue' = queue, patches' = patches, replay' = replay, wanted' = wanted, crossed' = crossed,
         \A i \in Items : list'[i] # NONE =>
           /\ i \in used' /\ GoodOK(list'[i])
           /\ i \in used => list[i] # NONE /\ list'[i].checked = list[i].checked
  PROVE  ShopRowsOK' /\ ShopPhoneOK' /\ ShopTapsOK'
<1>1. ShopRowsOK'
  BY DEF ShopRowsOK
<1>2. ShopPhoneOK'
  BY DEF ShopInv, ShopPhoneOK, TapPatch, TapEntry
<1>3. SentStand' /\ ReplayStand' /\ QueueStands' /\ OneEach'
  BY DEF ShopInv, ShopTapsOK, SentStand, ReplayStand, QueueStands, OneEach, Stands, OnItsWay
<1>4. RowsCatchUp'
  BY DEF ShopInv, ShopTapsOK, RowsCatchUp, OnItsWay, ShopPhoneOK
<1>5. AppliedStand'
  BY DEF ShopInv, ShopTapsOK, AppliedStand, Stands, ShopPhoneOK, TapPatch
<1> QED BY <1>1, <1>2, <1>3, <1>4, <1>5 DEF ShopTapsOK

(* What the household does to the plan and the list. *)
LEMMA RecipeDeleted ==
  ASSUME ShopInv, RecordsAssumption, NEW r \in Recipes, Shop!deleteRecipe(r)
  PROVE  ShopInv'
<1>1. /\ used' = used /\ shopJob' = shopJob /\ queue' = queue /\ patches' = patches
      /\ replay' = replay /\ wanted' = wanted /\ crossed' = crossed /\ DOMAIN list' = Items
  BY DEF Shop!deleteRecipe, Shop!phone
<1>2. ASSUME NEW i \in Items, list'[i] # NONE
      PROVE  i \in used /\ GoodOK(list'[i]) /\ list[i] # NONE /\ list'[i].checked = list[i].checked
  <2>1. CASE i \in Shop!Generated /\ list[i].source = r
    <3>1. list[i] # NONE /\ i \in used /\ GoodOK(list[i])
      BY <2>1 DEF Shop!Generated, Shop!Present, ShopInv, ShopRowsOK
    <3>2. list'[i] = [list[i] EXCEPT !.source = NONE]
      BY <2>1 DEF Shop!deleteRecipe
    <3>3. PICK good, qty, source, checked, hand :
            list[i] = [good |-> good, qty |-> qty, source |-> source, checked |-> checked, hand |-> hand]
      BY <3>1 DEF GoodOK
    <3>4. list'[i] = [good |-> good, qty |-> qty, source |-> NONE, checked |-> checked, hand |-> hand]
      BY <3>2, <3>3
    <3> QED BY <3>1, <3>3, <3>4 DEF GoodOK
  <2>2. CASE ~(i \in Shop!Generated /\ list[i].source = r)
    <3>1. list'[i] = list[i]
      BY <2>2 DEF Shop!deleteRecipe
    <3> QED BY <1>2, <3>1 DEF ShopInv, ShopRowsOK
  <2> QED BY <2>1, <2>2
<1>3. used' \subseteq Items
  BY <1>1 DEF ShopInv, ShopRowsOK
<1>4. ShopRowsOK' /\ ShopPhoneOK' /\ ShopTapsOK'
  BY <1>1, <1>2, <1>3, ListMoves
<1>5. ShopJobsOK'
  BY <1>1 DEF ShopInv, ShopJobsOK, ShopJobOK, GoodOK
<1> QED BY <1>4, <1>5 DEF ShopInv

(* The other changes of the plan and the list. *)
LEMMA PlanChanged ==
  ASSUME ShopInv, RecordsAssumption, NEW s \in Slots, NEW r \in Recipes \cup {NONE},
         Shop!upsertPlanEntry(s, r)
  PROVE  ShopInv'
<1>1. /\ list' = list /\ used' = used /\ shopJob' = shopJob /\ queue' = queue /\ patches' = patches
      /\ replay' = replay /\ wanted' = wanted /\ crossed' = crossed
  BY DEF Shop!upsertPlanEntry, Shop!phone
<1>2. ShopRowsOK' /\ ShopPhoneOK' /\ ShopTapsOK'
  BY <1>1, ListMoves DEF ShopInv, ShopRowsOK
<1>3. ShopJobsOK'
  BY <1>1 DEF ShopInv, ShopJobsOK, ShopJobOK, GoodOK
<1> QED BY <1>2, <1>3 DEF ShopInv

LEMMA ItemAdded ==
  ASSUME ShopInv, RecordsAssumption, NEW g \in Goods, Shop!addShoppingItem(g)
  PROVE  ShopInv'
<1>1. /\ shopJob' = shopJob /\ queue' = queue /\ patches' = patches /\ replay' = replay /\ wanted' = wanted
      /\ crossed' = crossed
  BY DEF Shop!addShoppingItem, Shop!phone
<1> DEFINE row == [good |-> g, qty |-> 1, source |-> NONE, checked |-> FALSE, hand |-> TRUE]
<1>2. GoodOK(row)
  BY DEF GoodOK
<1> HIDE DEF row
<1>3. PICK i \in Items \ used : list' = [list EXCEPT ![i] = row] /\ used' = used \cup {i}
  BY DEF Shop!addShoppingItem, Shop!Fresh, Shop!Adds, row
<1>4. DOMAIN list' = Items /\ used \subseteq used' /\ used' \subseteq Items
  BY <1>3 DEF ShopInv, ShopRowsOK
<1>5. ASSUME NEW k \in Items, list'[k] # NONE
      PROVE  /\ k \in used' /\ GoodOK(list'[k])
             /\ k \in used => list[k] # NONE /\ list'[k].checked = list[k].checked
  <2>1. CASE k = i
    BY <1>2, <1>3, <2>1 DEF ShopInv, ShopRowsOK
  <2>2. CASE k # i
    BY <1>3, <1>5, <2>2 DEF ShopInv, ShopRowsOK
  <2> QED BY <2>1, <2>2
<1>6. ShopRowsOK' /\ ShopPhoneOK' /\ ShopTapsOK'
  BY <1>1, <1>4, <1>5, ListMoves
<1>7. ShopJobsOK'
  BY <1>1 DEF ShopInv, ShopJobsOK, ShopJobOK, GoodOK
<1> QED BY <1>6, <1>7 DEF ShopInv

(* Rows that go leave nothing behind that differs from a tap. *)
LEMMA RowsGo ==
  ASSUME ShopInv, NEW gone, list' = Shop!Without(gone), used' = used,
         queue' = queue, patches' = patches, replay' = replay, wanted' = wanted, crossed' = crossed
  PROVE  ShopRowsOK' /\ ShopPhoneOK' /\ ShopTapsOK'
<1>1. list' = [i \in Items |-> IF i \in gone THEN NONE ELSE list[i]]
  BY DEF Shop!Without
<1>2. used' \subseteq Items /\ DOMAIN list' = Items
  BY <1>1 DEF ShopInv, ShopRowsOK
<1>3. ASSUME NEW i \in Items, list'[i] # NONE
      PROVE  /\ i \in used' /\ GoodOK(list'[i])
             /\ i \in used => list[i] # NONE /\ list'[i].checked = list[i].checked
  <2>1. list'[i] = list[i]
    BY <1>1, <1>3
  <2> QED BY <1>3, <2>1 DEF ShopInv, ShopRowsOK
<1> QED BY <1>2, <1>3, ListMoves

LEMMA ItemRemoved ==
  ASSUME ShopInv, RecordsAssumption, NEW i \in Items, Shop!removeShoppingItem(i)
  PROVE  ShopInv'
<1>1. ShopRowsOK' /\ ShopPhoneOK' /\ ShopTapsOK'
  BY RowsGo DEF Shop!removeShoppingItem, Shop!phone
<1>2. ShopJobsOK'
  BY DEF Shop!removeShoppingItem, ShopInv, ShopJobsOK, ShopJobOK, GoodOK
<1> QED BY <1>1, <1>2 DEF ShopInv

(* Another device's mark ends what this phone wanted of the item. *)
LEMMA ItemMarked ==
  ASSUME ShopInv, RecordsAssumption, NEW i \in Items, NEW b \in BOOLEAN, Shop!CheckElsewhere(i, b)
  PROVE  ShopInv'
<1>1. /\ list[i] # NONE /\ list' = [list EXCEPT ![i].checked = b] /\ wanted' = [wanted EXCEPT ![i] = NONE]
      /\ used' = used /\ shopJob' = shopJob /\ queue' = queue /\ patches' = patches /\ replay' = replay
      /\ crossed' = crossed
  BY DEF Shop!CheckElsewhere, Shop!Present
<1>2. \A k \in Items : k # i => list'[k] = list[k] /\ wanted'[k] = wanted[k]
  BY <1>1 DEF ShopInv, ShopRowsOK, ShopPhoneOK
<1>3. wanted'[i] = NONE
  BY <1>1 DEF ShopInv, ShopPhoneOK
<1>4. ShopRowsOK'
  <2>1. PICK good, qty, source, checked, hand :
          list[i] = [good |-> good, qty |-> qty, source |-> source, checked |-> checked, hand |-> hand]
    BY <1>1 DEF ShopInv, ShopRowsOK, GoodOK
  <2>2. list'[i] = [good |-> good, qty |-> qty, source |-> source, checked |-> b, hand |-> hand]
    BY <1>1, <2>1 DEF ShopInv, ShopRowsOK
  <2>3. GoodOK(list'[i])
    BY <1>1, <2>1, <2>2 DEF ShopInv, ShopRowsOK, GoodOK
  <2>4. DOMAIN list' = Items
    BY <1>1 DEF ShopInv, ShopRowsOK
  <2> QED BY <1>1, <1>2, <2>3, <2>4 DEF ShopInv, ShopRowsOK
<1>5. ShopPhoneOK'
  <2>1. wanted' \in [Items -> BOOLEAN \cup {NONE}]
    BY <1>1 DEF ShopInv, ShopPhoneOK
  <2> QED BY <1>1, <1>2, <1>3, <2>1 DEF ShopInv, ShopPhoneOK, TapPatch, TapEntry
<1>6. SentStand' /\ ReplayStand'
  BY <1>1, <1>2, <1>3 DEF ShopInv, ShopTapsOK, ShopPhoneOK, TapPatch, TapEntry, SentStand, ReplayStand, Stands
<1>7. QueueStands'
  BY <1>1, <1>2, <1>3 DEF ShopInv, ShopTapsOK, QueueStands, Stands, OnItsWay
<1>8. RowsCatchUp'
  BY <1>1, <1>2, <1>3 DEF ShopInv, ShopTapsOK, RowsCatchUp, OnItsWay
<1>9. AppliedStand'
  BY <1>1, <1>2, <1>3 DEF ShopInv, ShopTapsOK, ShopPhoneOK, TapPatch, AppliedStand, Stands
<1>10. ShopJobsOK' /\ OneEach'
  BY <1>1 DEF ShopInv, ShopJobsOK, ShopJobOK, GoodOK, ShopTapsOK, OneEach
<1> QED BY <1>4, <1>5, <1>6, <1>7, <1>8, <1>9, <1>10 DEF ShopInv, ShopTapsOK

(* A request that generates the list, and the rows that were added by hand. *)
HandStays(p) ==
  Shop!At(p, "delete") /\ shopJob'[p] # shopJob[p] =>
    \A i \in Items : list[i] # NONE /\ list[i].hand => list'[i] = list[i]

LEMMA ShopJobMoves ==
  ASSUME ShopInv, NEW p \in Shoppers, NEW j, ShopJobOK(j), shopJob' = [shopJob EXCEPT ![p] = j]
  PROVE  ShopJobsOK' /\ shopJob'[p] = j /\ \A q \in Shoppers : q # p => shopJob'[q] = shopJob[q]
BY DEF ShopInv, ShopJobsOK, ShopJobOK, GoodOK

LEMMA ListReads ==
  ASSUME ShopInv, RecordsAssumption, NEW p \in Shoppers, Shop!ReadPlan(p) \/ Shop!ReadRecipes(p)
  PROVE  ShopInv' /\ \A q \in Shoppers : HandStays(q)
<1>1. /\ list' = list /\ used' = used /\ queue' = queue /\ patches' = patches
      /\ replay' = replay /\ wanted' = wanted /\ crossed' = crossed
  BY DEF Shop!ReadPlan, Shop!ReadRecipes, Shop!phone
<1>2. ShopRowsOK' /\ ShopPhoneOK' /\ ShopTapsOK'
  BY <1>1, ListMoves DEF ShopInv, ShopRowsOK
<1>3. PICK j : ShopJobOK(j) /\ shopJob' = [shopJob EXCEPT ![p] = j]
  <2>1. CASE Shop!ReadPlan(p)
    <3> DEFINE k == [pc |-> "recipes", plan |-> plan]
    <3>1. ShopJobOK(k)
      BY DEF ShopJobOK
    <3> QED BY <2>1, <3>1 DEF Shop!ReadPlan, Shop!Does
  <2>2. CASE Shop!ReadRecipes(p)
    <3> DEFINE rows == {Shop!Ingredient(shopJob[p].plan, g) :
                          g \in {h \in Goods : Shop!Meals(shopJob[p].plan, h) # {}}}
               k == [pc |-> "delete", rows |-> rows]
    <3>1. \A row \in rows : GoodOK(row) /\ ~row.hand
      BY DEF Shop!Ingredient, GoodOK
    <3> HIDE DEF rows
    <3>2. ShopJobOK(k)
      BY <3>1 DEF ShopJobOK
    <3>3. shopJob' = [shopJob EXCEPT ![p] = k]
      BY <2>2 DEF Shop!ReadRecipes, Shop!Does, rows
    <3> QED BY <3>2, <3>3
  <2> QED BY <2>1, <2>2
<1>4. ShopJobsOK'
  BY <1>3, ShopJobMoves
<1>5. \A q \in Shoppers : HandStays(q)
  BY <1>1 DEF HandStays
<1> QED BY <1>2, <1>4, <1>5 DEF ShopInv

(* Only generated rows are deleted, and a row of a recipe was not added by hand. *)
LEMMA GeneratedGo ==
  ASSUME ShopInv, RecordsAssumption, NEW p \in Shoppers, Shop!DeleteGenerated(p)
  PROVE  ShopInv' /\ \A q \in Shoppers : HandStays(q)
<1>1. /\ list' = Shop!Without(Shop!Generated) /\ used' = used /\ queue' = queue /\ patches' = patches
      /\ replay' = replay /\ wanted' = wanted /\ crossed' = crossed
  BY DEF Shop!DeleteGenerated, Shop!Replaced, Shop!phone
<1>2. ShopRowsOK' /\ ShopPhoneOK' /\ ShopTapsOK'
  BY <1>1, RowsGo
<1>3. ShopJobsOK'
  <2> DEFINE j == [shopJob[p] EXCEPT !.pc = "insert"]
  <2>1. PICK rows : /\ shopJob[p] = [pc |-> "delete", rows |-> rows]
                    /\ \A row \in rows : GoodOK(row) /\ ~row.hand
    BY DEF Shop!DeleteGenerated, Shop!At, ShopInv, ShopJobsOK, ShopJobOK
  <2>2. j = [pc |-> "insert", rows |-> rows]
    BY <2>1
  <2>3. ShopJobOK(j)
    BY <2>1, <2>2 DEF ShopJobOK
  <2>4. shopJob' = [shopJob EXCEPT ![p] = j]
    BY DEF Shop!DeleteGenerated, Shop!Does
  <2> HIDE DEF j
  <2> QED BY <2>3, <2>4, ShopJobMoves
<1>4. ASSUME NEW i \in Items, list[i] # NONE, list[i].hand
      PROVE  list'[i] = list[i]
  <2>1. list[i].source = NONE
    BY <1>4 DEF ShopInv, ShopRowsOK, GoodOK
  <2>2. i \notin Shop!Generated
    BY <2>1 DEF Shop!Generated
  <2> QED BY <1>1, <2>2 DEF Shop!Without
<1> QED BY <1>2, <1>3, <1>4 DEF ShopInv, HandStays

(* New rows have new ids, which nothing under way is of. *)
LEMMA GeneratedCome ==
  ASSUME ShopInv, RecordsAssumption, NEW p \in Shoppers, Shop!InsertGenerated(p)
  PROVE  ShopInv' /\ \A q \in Shoppers : HandStays(q)
<1>1. /\ queue' = queue /\ patches' = patches /\ replay' = replay /\ wanted' = wanted
      /\ crossed' = crossed /\ shopJob[p] # NONE /\ shopJob[p].pc = "insert" /\ shopJob' = [shopJob EXCEPT ![p] = NONE]
  BY DEF Shop!InsertGenerated, Shop!phone, Shop!At, Shop!Does
<1> DEFINE rows == shopJob[p].rows
<1>2. \A row \in rows : GoodOK(row)
  BY <1>1 DEF ShopInv, ShopJobsOK, ShopJobOK
<1>3. ASSUME list' = list, used' = used
      PROVE  ShopRowsOK' /\ ShopPhoneOK' /\ ShopTapsOK'
  BY <1>1, <1>3, ListMoves DEF ShopInv, ShopRowsOK
<1>4. ASSUME \E at \in [rows -> Shop!Fresh] :
               /\ list' = [i \in Items |-> IF \E r \in rows : at[r] = i
                                           THEN CHOOSE r \in rows : at[r] = i ELSE list[i]]
               /\ used' = used \cup {at[r] : r \in rows}
      PROVE  ShopRowsOK' /\ ShopPhoneOK' /\ ShopTapsOK'
  <2>1. PICK at \in [rows -> Items \ used] :
             /\ list' = [i \in Items |-> IF \E r \in rows : at[r] = i
                                         THEN CHOOSE r \in rows : at[r] = i ELSE list[i]]
             /\ used' = used \cup {at[r] : r \in rows}
    BY <1>4 DEF Shop!Fresh
  <2> HIDE DEF rows
  <2>2. DOMAIN list' = Items /\ used \subseteq used' /\ used' \subseteq Items
    BY <2>1 DEF ShopInv, ShopRowsOK
  <2>3. ASSUME NEW i \in Items, list'[i] # NONE
        PROVE  /\ i \in used' /\ GoodOK(list'[i])
               /\ i \in used => list[i] # NONE /\ list'[i].checked = list[i].checked
    <3>1. CASE \E r \in rows : at[r] = i
      <4>1. list'[i] \in rows /\ i \in used' /\ i \notin used
        BY <2>1, <3>1
      <4> QED BY <1>2, <4>1
    <3>2. CASE ~\E r \in rows : at[r] = i
      <4>1. list'[i] = list[i]
        BY <2>1, <3>2
      <4> QED BY <2>1, <2>3, <4>1 DEF ShopInv, ShopRowsOK
    <3> QED BY <3>1, <3>2
  <2> QED BY <1>1, <2>2, <2>3, ListMoves
<1>5. ShopRowsOK' /\ ShopPhoneOK' /\ ShopTapsOK'
  BY <1>3, <1>4 DEF Shop!InsertGenerated
<1>6. ShopJobOK(NONE)
  BY DEF ShopJobOK
<1>7. ShopJobsOK' /\ \A q \in Shoppers : HandStays(q)
  BY <1>1, <1>6, ShopJobMoves DEF HandStays, Shop!At
<1> QED BY <1>5, <1>7 DEF ShopInv

(* The list and its requests stand still while the phone does something of its own. *)
LEMMA ShopStands ==
  ASSUME ShopInv, list' = list, used' = used, shopJob' = shopJob
  PROVE  ShopRowsOK' /\ ShopJobsOK'
<1>1. ShopRowsOK'
  BY DEF ShopInv, ShopRowsOK, GoodOK
<1>2. ShopJobsOK'
  BY DEF ShopInv, ShopJobsOK, ShopJobOK, GoodOK
<1> QED BY <1>1, <1>2

(* A tap finds nothing of its item under way, so what it sends is what was tapped last, *)
(* or it is crossed.                                                                   *)
LEMMA TapMade ==
  ASSUME ShopInv, RecordsAssumption, NEW i \in Items, Shop!Tap(i)
  PROVE  ShopInv'
<1>0. PICK checked \in BOOLEAN :
        /\ patches' = patches \cup {[item |-> i, checked |-> checked, by |-> NONE, at |-> "sent"]}
        /\ wanted' = [wanted EXCEPT ![i] = checked]
  BY DEF Shop!Tap
<1> DEFINE new == [item |-> i, checked |-> checked, by |-> NONE, at |-> "sent"]
<1>1. /\ list' = list /\ used' = used /\ shopJob' = shopJob /\ queue' = queue /\ replay' = replay
      /\ patches' = patches \cup {new} /\ wanted' = [wanted EXCEPT ![i] = checked]
      /\ \A k \in Items : k # i => (k \in crossed' <=> k \in crossed)
  BY <1>0 DEF Shop!Tap
<1>2. i \in used /\ list[i] # NONE
  BY DEF Shop!Tap, Shop!Present, ShopInv, ShopRowsOK
<1>3. \/ i \in crossed'
      \/ /\ \A x \in patches : x.item # i
         /\ \A r \in Replays : replay[r] # NONE => \A e \in replay[r] : e.item # i
  BY DEF Shop!Tap, Shop!Busy
<1>4. /\ new \in TapPatch /\ new.item = i /\ new.checked = checked /\ new.by = NONE /\ new.at = "sent"
      /\ NONE # "gone" /\ NONE \notin Replays
  BY DEF TapPatch, RecordsAssumption
<1> HIDE DEF new
<1>5. wanted'[i] = checked /\ \A k \in Items : k # i => wanted'[k] = wanted[k]
  BY <1>1 DEF ShopInv, ShopPhoneOK
<1>6. ShopPhoneOK'
  <2>1. wanted' \in [Items -> BOOLEAN \cup {NONE}]
    BY <1>1 DEF ShopInv, ShopPhoneOK
  <2>2. patches' \subseteq TapPatch /\ \A x \in patches' : x.item \in used' /\ (x.by = "gone" => x.at = "sent")
    BY <1>1, <1>2, <1>4 DEF ShopInv, ShopPhoneOK
  <2>3. \A k \in Items : queue'[k] # NONE \/ wanted'[k] # NONE => k \in used'
    BY <1>1, <1>2, <1>5 DEF ShopInv, ShopPhoneOK
  <2> QED BY <1>1, <2>1, <2>2, <2>3 DEF ShopInv, ShopPhoneOK, TapPatch, TapEntry
<1>7. OnItsWay(i)' /\ \A k \in Items : OnItsWay(k) => OnItsWay(k)'
  BY <1>1, <1>4 DEF OnItsWay
<1>8. \A k \in Items : \A b : k # i /\ Stands(k, b) => Stands(k, b)'
  BY <1>1, <1>5 DEF Stands
<1>9. SentStand'
  <2>1. ASSUME NEW x \in patches' PROVE Stands(x.item, x.checked)'
    <3>1. CASE x = new
      BY <1>4, <1>5, <3>1 DEF Stands
    <3>2. CASE x \in patches
      BY <1>3, <1>8, <3>2 DEF ShopInv, ShopTapsOK, ShopPhoneOK, TapPatch, SentStand, Stands
    <3> QED BY <1>1, <3>1, <3>2
  <2> QED BY <2>1 DEF SentStand, Stands
<1>10. ReplayStand'
  <2>1. ASSUME NEW r \in Replays, replay[r] # NONE, NEW e \in replay[r] PROVE Stands(e.item, e.checked)'
    <3>1. e.item \in Items /\ Stands(e.item, e.checked)
      BY <2>1 DEF ShopInv, ShopTapsOK, ShopPhoneOK, TapEntry, ReplayStand
    <3> QED BY <1>3, <1>8, <2>1, <3>1 DEF Stands
  <2> QED BY <1>1, <2>1 DEF ReplayStand, Stands
<1>11. QueueStands'
  <2>1. ASSUME NEW k \in Items, queue[k] # NONE PROVE Stands(k, queue[k])' \/ OnItsWay(k)'
    BY <1>1, <1>5, <1>7, <2>1 DEF ShopInv, ShopTapsOK, QueueStands, Stands
  <2> QED BY <1>1, <2>1 DEF QueueStands, Stands
<1>12. RowsCatchUp'
  BY <1>1, <1>5, <1>7 DEF ShopInv, ShopTapsOK, RowsCatchUp
<1>13. AppliedStand'
  <2>1. ASSUME NEW x \in patches'
        PROVE  /\ x.at = "applied" /\ list[x.item] # NONE => Stands(x.item, list[x.item].checked)'
               /\ x.at = "missing" => list[x.item] = NONE
    <3>1. CASE x = new
      BY <1>4, <3>1
    <3>2. CASE x \in patches
      <4>1. x.item \in Items
        BY <3>2 DEF ShopInv, ShopPhoneOK, TapPatch
      <4>2. /\ x.at = "applied" /\ list[x.item] # NONE => Stands(x.item, list[x.item].checked)
            /\ x.at = "missing" => list[x.item] = NONE
        BY <3>2 DEF ShopInv, ShopTapsOK, AppliedStand
      <4> QED BY <1>1, <1>3, <1>5, <3>2, <4>1, <4>2 DEF Stands
    <3> QED BY <1>1, <3>1, <3>2
  <2> QED BY <1>1, <2>1 DEF AppliedStand, Stands
<1>14. OneEach'
  BY <1>1, <1>4 DEF ShopInv, ShopTapsOK, OneEach
<1> QED BY <1>1, <1>6, <1>9, <1>10, <1>11, <1>12, <1>13, <1>14, ShopStands DEF ShopInv, ShopTapsOK

(* What arrives is what was tapped last, or of an item whose last tap was crossed. *)
LEMMA PatchArrives ==
  ASSUME ShopInv, RecordsAssumption, NEW x \in patches, Shop!Arrive(x)
  PROVE  ShopInv'
<1> DEFINE at == IF Shop!Present(x.item) THEN "applied" ELSE "missing"
           y == [x EXCEPT !.at = at]
<1>1. /\ used' = used /\ shopJob' = shopJob /\ queue' = queue /\ replay' = replay /\ wanted' = wanted
      /\ crossed' = crossed /\ x.at = "sent" /\ patches \ {x} \subseteq patches'
      /\ \A z \in patches' : z \in patches \ {x} \/ (z = y /\ x.by # "gone")
      /\ x.by # "gone" => y \in patches'
      /\ list' = IF list[x.item] # NONE THEN [list EXCEPT ![x.item].checked = x.checked] ELSE list
  BY DEF Shop!Arrive, Shop!Present
<1>2. x \in TapPatch /\ x.item \in Items /\ x.item \in used
  BY DEF ShopInv, ShopPhoneOK, TapPatch
<1>3. /\ NONE # "gone" /\ y \in TapPatch /\ y.item = x.item /\ y.checked = x.checked /\ y.by = x.by
      /\ y.at = IF list[x.item] # NONE THEN "applied" ELSE "missing"
  BY <1>2 DEF TapPatch, Shop!Present, RecordsAssumption
<1> HIDE DEF at, y
<1>4. /\ DOMAIN list' = Items /\ \A k \in Items : k # x.item => list'[k] = list[k]
      /\ list[x.item] = NONE => list'[x.item] = NONE
  BY <1>1 DEF ShopInv, ShopRowsOK
<1>5. list[x.item] # NONE => GoodOK(list'[x.item]) /\ list'[x.item].checked = x.checked
  <2>1. SUFFICES ASSUME list[x.item] # NONE
                 PROVE  GoodOK(list'[x.item]) /\ list'[x.item].checked = x.checked
    OBVIOUS
  <2>2. GoodOK(list[x.item])
    BY <1>2, <2>1 DEF ShopInv, ShopRowsOK
  <2>3. PICK good, qty, source, checked, hand : list[x.item] =
          [good |-> good, qty |-> qty, source |-> source, checked |-> checked, hand |-> hand]
    BY <2>2 DEF GoodOK
  <2>4. list'[x.item] = [list[x.item] EXCEPT !.checked = x.checked]
    BY <1>1, <1>2, <2>1 DEF ShopInv, ShopRowsOK
  <2>5. list'[x.item] = [good |-> good, qty |-> qty, source |-> source, checked |-> x.checked, hand |-> hand]
    BY <2>3, <2>4
  <2> QED BY <1>2, <2>1, <2>3, <2>5 DEF ShopInv, ShopRowsOK, GoodOK
<1>6. ShopRowsOK'
  <2>1. ASSUME NEW k \in Items, list'[k] # NONE PROVE k \in used' /\ GoodOK(list'[k])
    BY <1>1, <1>2, <1>4, <1>5, <2>1 DEF ShopInv, ShopRowsOK
  <2>2. used' \subseteq Items
    BY <1>1 DEF ShopInv, ShopRowsOK
  <2> QED BY <1>4, <2>1, <2>2 DEF ShopRowsOK
<1>7. ShopJobsOK'
  BY <1>1 DEF ShopInv, ShopJobsOK, ShopJobOK, GoodOK
<1>8. ShopPhoneOK'
  <2>1. patches' \subseteq TapPatch /\ \A z \in patches' : z.item \in used' /\ (z.by = "gone" => z.at = "sent")
    BY <1>1, <1>2, <1>3 DEF ShopInv, ShopPhoneOK
  <2> QED BY <1>1, <2>1 DEF ShopInv, ShopPhoneOK, TapPatch, TapEntry
<1>9. SentStand' /\ ReplayStand'
  BY <1>1, <1>3 DEF ShopInv, ShopTapsOK, SentStand, ReplayStand, Stands
<1>10. \A k \in Items : OnItsWay(k) => OnItsWay(k)'
  <2>1. SUFFICES ASSUME NEW k \in Items, NEW z \in patches, z.item = k, z.by = NONE
                 PROVE  OnItsWay(k)'
    BY DEF OnItsWay
  <2>2. CASE z = x
    BY <1>1, <1>3, <2>1, <2>2 DEF OnItsWay
  <2>3. CASE z # x
    BY <1>1, <2>1, <2>3 DEF OnItsWay
  <2> QED BY <2>2, <2>3
<1>11. QueueStands'
  BY <1>1, <1>10 DEF ShopInv, ShopTapsOK, QueueStands, Stands
<1>12. Stands(x.item, x.checked)
  BY DEF ShopInv, ShopTapsOK, SentStand
<1>13. RowsCatchUp'
  <2>1. SUFFICES ASSUME NEW k \in Items, list'[k] # NONE, wanted[k] # NONE, list'[k].checked # wanted[k]
                 PROVE  k \in crossed \/ queue[k] # NONE \/ OnItsWay(k)'
    BY <1>1 DEF RowsCatchUp
  <2>2. CASE k = x.item
    BY <1>4, <1>5, <1>12, <2>1, <2>2 DEF Stands
  <2>3. CASE k # x.item
    <3>1. k \in crossed \/ queue[k] # NONE \/ OnItsWay(k)
      BY <1>4, <2>1, <2>3 DEF ShopInv, ShopTapsOK, RowsCatchUp
    <3> QED BY <1>10, <3>1
  <2> QED BY <2>2, <2>3
<1>14. AppliedStand'
  <2>1. SUFFICES ASSUME NEW z \in patches'
                 PROVE  /\ z.at = "applied" /\ list'[z.item] # NONE => Stands(z.item, list'[z.item].checked)
                        /\ z.at = "missing" => list'[z.item] = NONE
    BY <1>1 DEF AppliedStand, Stands
  <2>2. z.item \in Items
    BY <1>8 DEF ShopPhoneOK, TapPatch
  <2>3. CASE z = y
    BY <1>3, <1>4, <1>5, <1>12, <2>3
  <2>4. CASE z \in patches /\ z.item # x.item
    BY <1>4, <2>2, <2>4 DEF ShopInv, ShopTapsOK, AppliedStand
  <2>5. CASE z \in patches /\ z.item = x.item
    BY <1>4, <1>5, <1>12, <2>5 DEF ShopInv, ShopTapsOK, AppliedStand
  <2> QED BY <1>1, <2>3, <2>4, <2>5
<1>15. OneEach'
  BY <1>1, <1>3 DEF ShopInv, ShopTapsOK, OneEach
<1> QED BY <1>6, <1>7, <1>8, <1>9, <1>11, <1>13, <1>14, <1>15 DEF ShopInv, ShopTapsOK

(* A request that was given up stays what it was. *)
LEMMA GivenUpStay ==
  ASSUME ShopInv, RecordsAssumption, NEW xs \in SUBSET patches, NEW y \in Shop!GivenUp(xs)
  PROVE  /\ y \in TapPatch /\ y.by = "gone" /\ y.at = "sent" /\ y.by # NONE /\ y.by \notin Replays
         /\ y.item \in used /\ Stands(y.item, y.checked)
<1>1. PICK x \in xs : y = [x EXCEPT !.by = "gone"] /\ x.at = "sent"
  BY DEF Shop!GivenUp
<1>2. x \in TapPatch /\ x.item \in used /\ Stands(x.item, x.checked)
  BY DEF ShopInv, ShopPhoneOK, ShopTapsOK, SentStand
<1>3. /\ y \in TapPatch /\ y.by = "gone" /\ y.at = "sent" /\ y.item = x.item /\ y.checked = x.checked
  BY <1>1, <1>2 DEF TapPatch
<1> QED BY <1>2, <1>3 DEF RecordsAssumption

(* What a replay goes on with is what it had to send. *)
LEMMA ReplayGoesOn ==
  ASSUME ShopInv, NEW r \in Replays, NEW e, replay[r] # NONE, Shop!Onward(r, e)
  PROVE  /\ DOMAIN replay' = Replays /\ \A s \in Replays : s # r => replay'[s] = replay[s]
         /\ \A s \in Replays : replay'[s] # NONE => replay[s] # NONE /\ replay'[s] \subseteq replay[s]
<1>1. replay' = [replay EXCEPT ![r] = IF replay[r] = {e} THEN NONE ELSE replay[r] \ {e}]
  BY DEF Shop!Onward
<1>2. DOMAIN replay = Replays /\ DOMAIN replay' = Replays
  BY <1>1 DEF ShopInv, ShopPhoneOK
<1>3. \A s \in Replays : s # r => replay'[s] = replay[s]
  BY <1>1, <1>2
<1>4. replay'[r] # NONE => replay'[r] \subseteq replay[r]
  BY <1>1, <1>2
<1> QED BY <1>2, <1>3, <1>4

(* A request that ends leaves the others as they were, and its replay goes on. *)
LEMMA PatchEnds ==
  ASSUME ShopInv, RecordsAssumption, NEW x \in patches,
         patches \ {x} \subseteq patches',
         \A y \in patches' : y \in patches \ {x} \/ y \in Shop!GivenUp({x}),
         list' = list, used' = used, shopJob' = shopJob, wanted' = wanted, crossed \subseteq crossed',
         IF x.by \in Replays THEN Shop!Onward(x.by, [item |-> x.item, checked |-> x.checked])
                             ELSE replay' = replay,
         queue' \in [Items -> BOOLEAN \cup {NONE}],
         \A i \in Items : queue'[i] # NONE => i \in used
  PROVE  ShopRowsOK' /\ ShopPhoneOK' /\ ShopJobsOK' /\ SentStand' /\ ReplayStand' /\ AppliedStand' /\ OneEach'
<1>1. ShopRowsOK' /\ ShopJobsOK'
  BY ShopStands
<1>2. ASSUME NEW y \in patches', y \notin patches \ {x}
      PROVE  /\ y \in TapPatch /\ y.by = "gone" /\ y.at = "sent" /\ y.by # NONE /\ y.by \notin Replays
             /\ y.item \in used /\ Stands(y.item, y.checked)
  <2>1. y \in Shop!GivenUp({x}) /\ {x} \in SUBSET patches
    BY <1>2
  <2> QED BY <2>1, GivenUpStay
<1>3. /\ DOMAIN replay' = Replays /\ \A s \in Replays : s # x.by => replay'[s] = replay[s]
      /\ \A s \in Replays : replay'[s] # NONE => replay[s] # NONE /\ replay'[s] \subseteq replay[s]
  <2>1. CASE x.by \notin Replays
    BY <2>1 DEF ShopInv, ShopPhoneOK
  <2>2. CASE x.by \in Replays
    <3>1. replay[x.by] # NONE
      BY <2>2 DEF ShopInv, ShopTapsOK, OneEach
    <3> QED BY <2>2, <3>1, ReplayGoesOn
  <2> QED BY <2>1, <2>2
<1>4. ShopPhoneOK'
  <2>1. \A r \in Replays : replay'[r] # NONE =>
          replay'[r] \subseteq TapEntry /\ \A e \in replay'[r] : e.item \in used
    BY <1>3 DEF ShopInv, ShopPhoneOK
  <2>2. ASSUME NEW y \in patches'
        PROVE  y \in TapPatch /\ y.item \in used /\ (y.by = "gone" => y.at = "sent")
    BY <1>2 DEF ShopInv, ShopPhoneOK
  <2>3. wanted' \in [Items -> BOOLEAN \cup {NONE}]
    BY DEF ShopInv, ShopPhoneOK
  <2>4. \A i \in Items : queue'[i] # NONE \/ wanted'[i] # NONE => i \in used'
    BY DEF ShopInv, ShopPhoneOK
  <2> QED BY <1>3, <2>1, <2>2, <2>3, <2>4 DEF ShopPhoneOK, TapPatch, TapEntry
<1>5. SentStand' /\ AppliedStand'
  <2>1. ASSUME NEW y \in patches'
        PROVE  /\ Stands(y.item, y.checked)
               /\ y.at = "applied" /\ list[y.item] # NONE => Stands(y.item, list[y.item].checked)
               /\ y.at = "missing" => list[y.item] = NONE
    BY <1>2 DEF ShopInv, ShopTapsOK, SentStand, AppliedStand
  <2> QED BY <2>1 DEF SentStand, AppliedStand, Stands
<1>6. ReplayStand'
  BY <1>3 DEF ShopInv, ShopTapsOK, ReplayStand, Stands
<1>7. OneEach'
  <2>1. SUFFICES ASSUME NEW y \in patches', y.by \in Replays
                 PROVE  replay'[y.by] # NONE /\ \A z \in patches' : z.by = y.by => z = y
    BY DEF OneEach
  <2>2. y \in patches /\ y # x
    BY <1>2, <2>1
  <2>3. y.by # x.by
    BY <2>1, <2>2 DEF ShopInv, ShopTapsOK, OneEach
  <2>4. replay'[y.by] = replay[y.by]
    BY <1>3, <2>1, <2>3
  <2>5. ASSUME NEW z \in patches', z.by = y.by PROVE z \in patches
    BY <1>2, <2>1, <2>5
  <2> QED BY <2>1, <2>2, <2>4, <2>5 DEF ShopInv, ShopTapsOK, OneEach
<1> QED BY <1>1, <1>4, <1>5, <1>6, <1>7

(* An answer takes a tap off the queue only once the row is as it asked, or is gone; a tap *)
(* that was answered while an older one is queued is crossed.                              *)
LEMMA PatchAnswered ==
  ASSUME ShopInv, RecordsAssumption, NEW x \in patches, Shop!Answered(x)
  PROVE  ShopInv'
<1>1. /\ patches' = patches \ {x} /\ list' = list /\ used' = used /\ shopJob' = shopJob /\ wanted' = wanted
      /\ x.at # "sent" /\ crossed \subseteq crossed'
      /\ x.at = "applied" /\ x.by = NONE /\ queue[x.item] # NONE => x.item \in crossed'
      /\ IF x.by = NONE THEN replay' = replay
                        ELSE Shop!Onward(x.by, [item |-> x.item, checked |-> x.checked])
  BY DEF Shop!Answered
<1>2. /\ x \in TapPatch /\ x.item \in Items /\ x.item \in used /\ Stands(x.item, x.checked)
      /\ DOMAIN queue = Items /\ x.by \in Replays \cup {NONE} /\ NONE \notin Replays
  BY <1>1 DEF ShopInv, ShopPhoneOK, TapPatch, ShopTapsOK, SentStand, RecordsAssumption
<1>3. /\ \A k \in Items : k # x.item => queue'[k] = queue[k]
      /\ \/ queue' = queue /\ x.by = NONE /\ x.at = "applied"
         \/ queue' = [queue EXCEPT ![x.item] = x.checked] /\ x.by = NONE
         \/ queue' = [queue EXCEPT ![x.item] = NONE] /\ x.by # NONE
  BY <1>2 DEF Shop!Answered, Shop!enqueueCheckoff, Shop!removeQueuedCheckoff
<1>4. queue'[x.item] \in {queue[x.item], x.checked, NONE}
  BY <1>2, <1>3
<1>5. queue' \in [Items -> BOOLEAN \cup {NONE}] /\ \A i \in Items : queue'[i] # NONE => i \in used
  BY <1>2, <1>3, <1>4 DEF ShopInv, ShopPhoneOK, TapPatch
<1>6. \A k \in Items : OnItsWay(k) => OnItsWay(k)' \/ (k = x.item /\ x.by = NONE)
  <2>1. SUFFICES ASSUME NEW k \in Items, NEW z \in patches, z.item = k, z.by = NONE, z # x
                 PROVE  OnItsWay(k)'
    BY DEF OnItsWay
  <2> QED BY <1>1, <2>1 DEF OnItsWay
<1>7. QueueStands'
  <2>1. SUFFICES ASSUME NEW k \in Items, queue'[k] # NONE
                 PROVE  k \in crossed' \/ wanted'[k] \in {queue'[k], NONE} \/ OnItsWay(k)'
    BY DEF QueueStands, Stands
  <2>2. CASE k = x.item
    <3>1. (queue'[k] = queue[k] /\ x.by = NONE /\ x.at = "applied") \/ queue'[k] = x.checked
      BY <1>2, <1>3, <2>1, <2>2
    <3> QED BY <1>1, <1>2, <2>1, <2>2, <3>1 DEF Stands
  <2>3. CASE k # x.item
    <3>1. queue'[k] = queue[k]
      BY <1>3, <2>3
    <3> QED BY <1>1, <1>6, <2>1, <2>3, <3>1 DEF ShopInv, ShopTapsOK, QueueStands, Stands
  <2> QED BY <2>2, <2>3
<1>8. RowsCatchUp'
  <2>1. SUFFICES ASSUME NEW k \in Items, list[k] # NONE, wanted[k] # NONE, list[k].checked # wanted[k]
                 PROVE  k \in crossed' \/ queue'[k] # NONE \/ OnItsWay(k)'
    BY <1>1 DEF RowsCatchUp
  <2>2. CASE k = x.item
    <3>1. x.at = "applied"
      BY <1>1, <1>2, <2>1, <2>2 DEF TapPatch, ShopInv, ShopTapsOK, AppliedStand
    <3> QED BY <1>1, <2>1, <2>2, <3>1 DEF ShopInv, ShopTapsOK, AppliedStand, Stands
  <2>3. CASE k # x.item
    <3>1. k \in crossed \/ queue[k] # NONE \/ OnItsWay(k)
      BY <2>1 DEF ShopInv, ShopTapsOK, RowsCatchUp
    <3>2. queue'[k] = queue[k] /\ (k \in crossed => k \in crossed') /\ (OnItsWay(k) => OnItsWay(k)')
      BY <1>1, <1>3, <1>6, <2>3
    <3> QED BY <3>1, <3>2
  <2> QED BY <2>2, <2>3
<1>9. /\ patches \ {x} \subseteq patches'
      /\ \A y \in patches' : y \in patches \ {x} \/ y \in Shop!GivenUp({x})
      /\ IF x.by \in Replays THEN Shop!Onward(x.by, [item |-> x.item, checked |-> x.checked])
                              ELSE replay' = replay
  BY <1>1, <1>2
<1>10. ShopRowsOK' /\ ShopPhoneOK' /\ ShopJobsOK' /\ SentStand' /\ ReplayStand' /\ AppliedStand' /\ OneEach'
  BY <1>1, <1>5, <1>9, PatchEnds
<1> QED BY <1>7, <1>8, <1>10 DEF ShopInv, ShopTapsOK

(* A request that was given up is lost. *)
LEMMA PatchLost ==
  ASSUME ShopInv, RecordsAssumption, NEW x \in patches, Shop!Lost(x)
  PROVE  ShopInv'
<1>1. /\ patches' = patches \ {x} /\ list' = list /\ used' = used /\ shopJob' = shopJob /\ wanted' = wanted
      /\ queue' = queue /\ replay' = replay /\ crossed' = crossed /\ x.by = "gone"
  BY DEF Shop!Lost
<1>2. /\ x.by \notin Replays /\ x.by # NONE /\ queue' \in [Items -> BOOLEAN \cup {NONE}]
      /\ \A i \in Items : queue'[i] # NONE => i \in used
  BY <1>1 DEF RecordsAssumption, ShopInv, ShopPhoneOK
<1>3. \A k \in Items : OnItsWay(k) => OnItsWay(k)'
  BY <1>1, <1>2 DEF OnItsWay
<1>4. QueueStands' /\ RowsCatchUp'
  BY <1>1, <1>3 DEF ShopInv, ShopTapsOK, QueueStands, RowsCatchUp, Stands
<1> QED BY <1>1, <1>2, <1>4, PatchEnds DEF ShopInv, ShopTapsOK

(* A tap that fails, whether or not it arrived, is queued; a replayed one stays queued. *)
LEMMA PatchFails ==
  ASSUME ShopInv, RecordsAssumption, NEW x \in patches, Shop!Fails(x)
  PROVE  ShopInv'
<1>1. /\ patches' = (patches \ {x}) \cup Shop!GivenUp({x}) /\ x.by # "gone"
      /\ list' = list /\ used' = used /\ shopJob' = shopJob /\ wanted' = wanted /\ crossed' = crossed
      /\ IF x.by = NONE THEN replay' = replay
                        ELSE Shop!Onward(x.by, [item |-> x.item, checked |-> x.checked])
  BY DEF Shop!Fails
<1>2. /\ x \in TapPatch /\ x.item \in Items /\ x.item \in used /\ Stands(x.item, x.checked)
      /\ x.checked # NONE /\ DOMAIN queue = Items /\ x.by \in Replays \cup {NONE} /\ NONE \notin Replays
  BY <1>1 DEF ShopInv, ShopPhoneOK, TapPatch, ShopTapsOK, SentStand, RecordsAssumption
<1>3. /\ \A k \in Items : k # x.item => queue'[k] = queue[k]
      /\ \/ queue' = queue /\ x.by # NONE
         \/ queue' = [queue EXCEPT ![x.item] = x.checked] /\ x.by = NONE /\ queue'[x.item] = x.checked
  BY <1>2 DEF Shop!Fails, Shop!enqueueCheckoff
<1>4. queue' \in [Items -> BOOLEAN \cup {NONE}] /\ \A i \in Items : queue'[i] # NONE => i \in used
  BY <1>2, <1>3 DEF ShopInv, ShopPhoneOK, TapPatch
<1>5. \A k \in Items : OnItsWay(k) => OnItsWay(k)' \/ (k = x.item /\ x.by = NONE)
  <2>1. SUFFICES ASSUME NEW k \in Items, NEW z \in patches, z.item = k, z.by = NONE, z # x
                 PROVE  OnItsWay(k)'
    BY DEF OnItsWay
  <2> QED BY <1>1, <2>1 DEF OnItsWay
<1>6. QueueStands'
  <2>1. SUFFICES ASSUME NEW k \in Items, queue'[k] # NONE
                 PROVE  Stands(k, queue'[k]) \/ OnItsWay(k)'
    BY <1>1 DEF QueueStands, Stands
  <2>2. CASE k = x.item /\ x.by = NONE
    BY <1>2, <1>3, <2>2
  <2>3. CASE ~(k = x.item /\ x.by = NONE)
    BY <1>3, <1>5, <2>1, <2>3 DEF ShopInv, ShopTapsOK, QueueStands
  <2> QED BY <2>2, <2>3
<1>7. RowsCatchUp'
  <2>1. SUFFICES ASSUME NEW k \in Items, list[k] # NONE, wanted[k] # NONE, list[k].checked # wanted[k]
                 PROVE  k \in crossed \/ queue'[k] # NONE \/ OnItsWay(k)'
    BY <1>1 DEF RowsCatchUp
  <2>2. k \in crossed \/ queue[k] # NONE \/ OnItsWay(k)
    BY <2>1 DEF ShopInv, ShopTapsOK, RowsCatchUp
  <2> QED BY <1>2, <1>3, <1>5, <2>2
<1> QED BY <1>1, <1>2, <1>4, <1>6, <1>7, PatchEnds DEF ShopInv, ShopTapsOK

(* A replay takes up the last taps, but where a newer one is on its way, which it crosses. *)
LEMMA ReplayStarts ==
  ASSUME ShopInv, RecordsAssumption, NEW r \in Replays, Shop!StartReplay(r)
  PROVE  ShopInv'
<1> DEFINE entries == {[item |-> i, checked |-> queue[i]] : i \in Shop!Queued}
<1>1. /\ list' = list /\ used' = used /\ shopJob' = shopJob /\ queue' = queue /\ patches' = patches
      /\ wanted' = wanted /\ replay[r] = NONE /\ replay' = [replay EXCEPT ![r] = entries]
      /\ crossed \subseteq crossed' /\ \A i \in Items : queue[i] # NONE /\ OnItsWay(i) => i \in crossed'
  BY DEF Shop!StartReplay, Shop!Queued, Shop!Live, OnItsWay
<1>2. ASSUME NEW e \in entries
      PROVE  e \in TapEntry /\ e.item \in used /\ Stands(e.item, e.checked)'
  <2>1. PICK i \in Items : queue[i] # NONE /\ e = [item |-> i, checked |-> queue[i]]
    BY <1>2 DEF Shop!Queued
  <2>2. queue[i] \in BOOLEAN /\ i \in used
    BY <2>1 DEF ShopInv, ShopPhoneOK
  <2>3. Stands(i, queue[i])'
    BY <1>1, <2>1 DEF ShopInv, ShopTapsOK, QueueStands, Stands
  <2>4. e.item = i /\ e.checked = queue'[i]
    BY <1>1, <2>1
  <2> QED BY <2>1, <2>2, <2>3, <2>4 DEF TapEntry, Stands
<1> HIDE DEF entries
<1>3. /\ DOMAIN replay' = Replays /\ replay'[r] = entries
      /\ \A s \in Replays : s # r => replay'[s] = replay[s]
  BY <1>1 DEF ShopInv, ShopPhoneOK
<1>4. ShopPhoneOK'
  <2>1. ASSUME NEW s \in Replays, replay'[s] # NONE
        PROVE  replay'[s] \subseteq TapEntry /\ \A e \in replay'[s] : e.item \in used
    BY <1>2, <1>3, <2>1 DEF ShopInv, ShopPhoneOK
  <2> QED BY <1>1, <1>3, <2>1 DEF ShopInv, ShopPhoneOK, TapPatch, TapEntry
<1>5. ReplayStand'
  <2>1. ASSUME NEW s \in Replays, replay'[s] # NONE, NEW e \in replay'[s]
        PROVE  Stands(e.item, e.checked)'
    <3>1. CASE s = r
      BY <1>2, <1>3, <2>1, <3>1
    <3>2. CASE s # r
      BY <1>1, <1>3, <2>1, <3>2 DEF ShopInv, ShopTapsOK, ReplayStand, Stands
    <3> QED BY <3>1, <3>2
  <2> QED BY <2>1 DEF ReplayStand, Stands
<1>6. SentStand' /\ QueueStands' /\ RowsCatchUp' /\ AppliedStand'
  BY <1>1 DEF ShopInv, ShopTapsOK, SentStand, QueueStands, RowsCatchUp, AppliedStand, Stands, OnItsWay
<1>7. OneEach'
  <2>1. ASSUME NEW x \in patches, x.by \in Replays PROVE x.by # r
    BY <1>1, <2>1 DEF ShopInv, ShopTapsOK, OneEach
  <2> QED BY <1>1, <1>3, <2>1 DEF ShopInv, ShopTapsOK, OneEach
<1> QED BY <1>1, <1>4, <1>5, <1>6, <1>7, ShopStands DEF ShopInv, ShopTapsOK

LEMMA ReplaySends ==
  ASSUME ShopInv, RecordsAssumption, NEW r \in Replays, Shop!Send(r)
  PROVE  ShopInv'
<1>1. PICK e \in replay[r] :
        patches' = patches \cup {[item |-> e.item, checked |-> e.checked, by |-> r, at |-> "sent"]}
  BY DEF Shop!Send
<1>2. /\ list' = list /\ used' = used /\ shopJob' = shopJob /\ queue' = queue /\ replay' = replay
      /\ wanted' = wanted /\ crossed' = crossed /\ replay[r] # NONE /\ \A x \in patches : x.by # r
  BY DEF Shop!Send
<1> DEFINE new == [item |-> e.item, checked |-> e.checked, by |-> r, at |-> "sent"]
<1>3. e \in TapEntry /\ e.item \in used /\ Stands(e.item, e.checked) /\ r # NONE /\ r # "gone"
  BY <1>2 DEF ShopInv, ShopPhoneOK, ShopTapsOK, ReplayStand, RecordsAssumption
<1>4. /\ new \in TapPatch /\ new.item = e.item /\ new.checked = e.checked /\ new.by = r
      /\ new.at = "sent" /\ patches' = patches \cup {new}
  BY <1>1, <1>3 DEF TapPatch, TapEntry
<1> HIDE DEF new
<1>5. ShopPhoneOK'
  <2>1. patches' \subseteq TapPatch /\ \A x \in patches' : x.item \in used' /\ (x.by = "gone" => x.at = "sent")
    BY <1>2, <1>3, <1>4 DEF ShopInv, ShopPhoneOK
  <2> QED BY <1>2, <2>1 DEF ShopInv, ShopPhoneOK, TapPatch, TapEntry
<1>6. \A k \in Items : OnItsWay(k) => OnItsWay(k)'
  BY <1>4 DEF OnItsWay
<1>7. SentStand' /\ ReplayStand' /\ AppliedStand'
  BY <1>2, <1>3, <1>4 DEF ShopInv, ShopTapsOK, SentStand, ReplayStand, AppliedStand, Stands
<1>8. QueueStands' /\ RowsCatchUp'
  BY <1>2, <1>6 DEF ShopInv, ShopTapsOK, QueueStands, RowsCatchUp, Stands
<1>9. OneEach'
  BY <1>2, <1>3, <1>4 DEF ShopInv, ShopTapsOK, OneEach
<1> QED BY <1>2, <1>5, <1>7, <1>8, <1>9, ShopStands DEF ShopInv, ShopTapsOK

(* A closed page forgets the taps that were on their way, and what it forgot no longer stands. *)
LEMMA PageReloads ==
  ASSUME ShopInv, RecordsAssumption, Shop!Reload
  PROVE  ShopInv'
<1>1. /\ list' = list /\ used' = used /\ shopJob' = shopJob /\ queue' = queue /\ crossed' = crossed
      /\ patches' = Shop!GivenUp(patches) /\ replay' = [r \in Replays |-> NONE]
      /\ wanted' = [i \in Items |-> IF Shop!Live(i) # {} THEN NONE ELSE wanted[i]]
  BY DEF Shop!Reload
<1>2. \A k \in Items : wanted'[k] \in {wanted[k], NONE} /\ (OnItsWay(k) => wanted'[k] = NONE)
  BY <1>1 DEF OnItsWay, Shop!Live
<1>3. wanted' \in [Items -> BOOLEAN \cup {NONE}]
  BY <1>1 DEF ShopInv, ShopPhoneOK
<1>4. ASSUME NEW y \in patches'
      PROVE  /\ y \in TapPatch /\ y.by = "gone" /\ y.at = "sent" /\ y.by # NONE /\ y.by \notin Replays
             /\ y.item \in used /\ Stands(y.item, y.checked)
  BY <1>1, GivenUpStay
<1>5. ShopPhoneOK'
  BY <1>1, <1>2, <1>3, <1>4 DEF ShopInv, ShopPhoneOK
<1>6. SentStand'
  BY <1>1, <1>2, <1>4 DEF SentStand, Stands, TapPatch
<1>7. ReplayStand' /\ AppliedStand' /\ OneEach'
  BY <1>1, <1>4 DEF ReplayStand, AppliedStand, OneEach
<1>8. QueueStands'
  BY <1>1, <1>2 DEF ShopInv, ShopTapsOK, QueueStands, Stands
<1>9. RowsCatchUp'
  BY <1>1, <1>2 DEF ShopInv, ShopTapsOK, RowsCatchUp
<1> QED BY <1>1, <1>5, <1>6, <1>7, <1>8, <1>9, ShopStands DEF ShopInv, ShopTapsOK

(* Nothing the list and the phone are made of changes. *)
LEMMA ShopUnchanged ==
  ASSUME ShopInv, list' = list, used' = used, shopJob' = shopJob, queue' = queue, patches' = patches,
         replay' = replay, wanted' = wanted, crossed' = crossed
  PROVE  ShopInv'
<1>1. ShopRowsOK' /\ ShopPhoneOK' /\ ShopTapsOK'
  BY ListMoves DEF ShopInv, ShopRowsOK
<1> QED BY <1>1, ShopStands DEF ShopInv

LEMMA ShopStep ==
  ASSUME ShopInv, RecordsAssumption, [Shop!ShoppingNext]_shopping
  PROVE  ShopInv' /\ \A p \in Shoppers : HandStays(p)
<1>1. ASSUME UNCHANGED shopping PROVE ShopInv' /\ \A p \in Shoppers : HandStays(p)
  BY <1>1, ShopUnchanged DEF shopping, HandStays
<1>2. ASSUME Shop!Connection PROVE ShopInv'
  BY <1>2, ShopUnchanged DEF Shop!Connection
<1>3. ASSUME NEW p \in Shoppers,
             \/ Shop!ReadPlan(p) \/ Shop!ReadRecipes(p) \/ Shop!DeleteGenerated(p) \/ Shop!InsertGenerated(p)
      PROVE  ShopInv' /\ \A q \in Shoppers : HandStays(q)
  BY <1>3, ListReads, GeneratedGo, GeneratedCome
<1>4. ASSUME \/ \E s \in Slots, r \in Recipes \cup {NONE} : Shop!upsertPlanEntry(s, r)
             \/ \E r \in Recipes : Shop!deleteRecipe(r)
             \/ \E g \in Goods : Shop!addShoppingItem(g)
             \/ \E i \in Items : \/ Shop!removeShoppingItem(i) \/ Shop!Tap(i)
                                 \/ \E b \in BOOLEAN : Shop!CheckElsewhere(i, b)
             \/ \E x \in patches : Shop!Arrive(x) \/ Shop!Answered(x) \/ Shop!Fails(x) \/ Shop!Lost(x)
             \/ \E r \in Replays : Shop!StartReplay(r) \/ Shop!Send(r)
             \/ Shop!Connection \/ Shop!Reload
      PROVE  ShopInv' /\ \A q \in Shoppers : HandStays(q)
  <2>1. ShopInv'
    BY <1>2, <1>4, PlanChanged, RecipeDeleted, ItemAdded, ItemRemoved, TapMade, ItemMarked, PatchArrives,
       PatchAnswered, PatchFails, PatchLost, ReplayStarts, ReplaySends, PageReloads
  <2>2. shopJob' = shopJob
    BY <1>4 DEF Shop!upsertPlanEntry, Shop!deleteRecipe, Shop!addShoppingItem, Shop!removeShoppingItem,
                Shop!Tap, Shop!CheckElsewhere, Shop!Arrive, Shop!Answered, Shop!Fails, Shop!StartReplay,
                Shop!Lost, Shop!Send, Shop!Connection, Shop!Reload
  <2> QED BY <2>1, <2>2 DEF HandStays
<1>5. ASSUME Shop!ShoppingNext PROVE ShopInv' /\ \A p \in Shoppers : HandStays(p)
  BY <1>3, <1>4, <1>5 DEF Shop!ShoppingNext
<1> QED BY <1>1, <1>5

(* Shopping: the regeneration of the list keeps what was added by hand, whatever else is   *)
(* going on (meals/service.ts:123-131), and once nothing is queued or under way an item is *)
(* checked as it was last tapped, however often the phone was offline, whatever was sent   *)
(* twice and whichever answers were lost (shopping-offline.ts:12-17), unless an older       *)
(* request, replay or queued entry of the item crossed that tap.                           *)
THEOREM TapsLand == Shop!ShoppingSpec => ListKept
<1>1. ShopInv /\ [Shop!ShoppingNext]_shopping => ShopInv' /\ \A p \in Shoppers : HandStays(p)
  BY ShopStep, RecordsAssumption
<1>2. (\A p \in Shoppers : HandStays(p)) /\ Shop!TapsArrive' => Shop!ShoppingStep
  BY DEF HandStays, Shop!ShoppingStep, Shop!Present
<1>3. ShopInv' => Shop!TapsArrive'
  BY TapsHaveArrived, RecordsAssumption, PTL
<1> QED BY <1>1, <1>2, <1>3, ShopStart, PTL
        DEF Shop!ShoppingSpec, ListKept, Shop!shoppingVars, shopping

(* ------------------------------------------------------------- KeyRotation *)

(* The process serves the slots it was started with. *)
ServesSlots == keySet # NONE => keySet = loadSatelliteKeys(slots)

Prepublished == slots.secondary # NONE /\ slots.secondary > slots.active
Promoted     == slots.secondary # NONE /\ slots.secondary < slots.active

(* A token is of the signing key, or of the key that signed before and so old that *)
(* it ends before the operator may retire it.                                     *)
TokenOf(t) == t.kid = slots.active \/ (Promoted /\ t.kid = slots.secondary
                                       /\ t.left + waited <= TokenLife)

(* A cached set has every key that signs or has signed; the key that was added it  *)
(* lacks only as long as it was cached before that.                               *)
Caches(c, life) ==
  c # NONE => /\ slots.active \in c.kids
              /\ Promoted => slots.secondary \in c.kids
              /\ Prepublished => slots.secondary \in c.kids \/ c.left + waited <= life

RotationInv ==
  /\ RotationTypeOK
  /\ slots.secondary # slots.active
  /\ ServesSlots
  /\ \A t \in minted : TokenOf(t)
  /\ Caches(cachedJwks, HttpLife) /\ Caches(known, CacheLife)

LEMMA RotationNumbers ==
  /\ TokenLife \in Nat /\ HttpLife \in Nat /\ OwnLife \in Nat /\ MaxKid \in Nat
  /\ TokenLife >= 1 /\ HttpLife >= 1 /\ OwnLife >= 1 /\ MaxKid >= 1
  /\ CacheLife \in Nat /\ CacheLife = HttpLife + OwnLife
BY RotationAssumption DEF CacheLife

(* What the process answers with is what its slots say. *)
LEMMA SlotsAnswer ==
  ASSUME RotationInv
  PROVE  /\ getSatelliteKeys = loadSatelliteKeys(slots)
         /\ getSatelliteKeys.signing = slots.active
         /\ getSatelliteKeys.public = {slots.active, slots.secondary} \ {NONE}
         /\ getSatelliteKeys \in KeySets
         /\ slots.active \in Kids /\ slots.secondary \in Kids \cup {NONE} /\ NONE \notin Kids
<1>1. getSatelliteKeys = loadSatelliteKeys(slots)
  BY DEF getSatelliteKeys, RotationInv, ServesSlots
<1>2. slots.active \in Kids /\ slots.secondary \in Kids \cup {NONE}
  BY DEF RotationInv, RotationTypeOK
<1>3. NONE \notin Kids
  BY RotationAssumption DEF Kids
<1> QED BY <1>1, <1>2, <1>3 DEF loadSatelliteKeys, KeySets

LEMMA LoadsKeeps ==
  ASSUME RotationInv, Loads, UNCHANGED slots
  PROVE  keySet' \in KeySets \cup {NONE} /\ ServesSlots'
BY SlotsAnswer DEF Loads, ServesSlots, loadSatelliteKeys

(* A set that was just answered is complete. *)
LEMMA JustPublished ==
  ASSUME RotationInv, UNCHANGED slots, NEW life \in Nat \ {0}, NEW c,
         c = [kids |-> getSatelliteKeys.public, left |-> life]
  PROVE  c \in Published(life) /\ \A l : Caches(c, l)'
<1>1. c.kids = {slots.active, slots.secondary} \ {NONE} /\ c.left = life
  BY SlotsAnswer
<1>2. c \in Published(life)
  BY SlotsAnswer DEF Published, KeySets
<1>3. slots.active \in c.kids /\ (slots.secondary # NONE => slots.secondary \in c.kids)
  BY <1>1, SlotsAnswer
<1> QED BY <1>2, <1>3 DEF Caches, Promoted, Prepublished

LEMMA MintKeeps == ASSUME RotationInv, mintSatelliteToken PROVE RotationInv'
<1>1. PICK t : t = [kid |-> getSatelliteKeys.signing, left |-> TokenLife]
  OBVIOUS
<1>2. t \in Tokens /\ t.kid = slots.active
  BY <1>1, SlotsAnswer, RotationNumbers DEF Tokens
<1>3. minted' = minted \cup {t} /\ UNCHANGED <<slots, cachedJwks, known, waited>>
  BY <1>1 DEF mintSatelliteToken
<1>4. RotationTypeOK' /\ ServesSlots'
  BY <1>2, <1>3, LoadsKeeps DEF mintSatelliteToken, RotationInv, RotationTypeOK
<1>5. \A u \in minted' : TokenOf(u)'
  BY <1>2, <1>3 DEF RotationInv, TokenOf, Promoted
<1>6. Caches(cachedJwks, HttpLife)' /\ Caches(known, CacheLife)'
  BY <1>3 DEF RotationInv, Caches, Promoted, Prepublished, CacheLife
<1> QED BY <1>3, <1>4, <1>5, <1>6 DEF RotationInv

LEMMA JwksKeeps == ASSUME RotationInv, getJwks PROVE RotationInv'
<1>1. PICK c : c = [kids |-> getSatelliteKeys.public, left |-> HttpLife]
  OBVIOUS
<1>2. cachedJwks' = c /\ UNCHANGED <<slots, known, minted, waited>>
  BY <1>1 DEF getJwks
<1>3. c \in Published(HttpLife) /\ \A l : Caches(c, l)'
  BY <1>1, <1>2, JustPublished, RotationNumbers
<1>4. RotationTypeOK' /\ ServesSlots'
  BY <1>2, <1>3, LoadsKeeps DEF getJwks, RotationInv, RotationTypeOK
<1>5. Caches(cachedJwks, HttpLife)' /\ Caches(known, CacheLife)'
  BY <1>2, <1>3 DEF RotationInv, Caches, Promoted, Prepublished, CacheLife
<1>6. \A u \in minted' : TokenOf(u)'
  BY <1>2 DEF RotationInv, TokenOf, Promoted
<1> QED BY <1>2, <1>4, <1>5, <1>6 DEF RotationInv

(* What the satellite gets from the cache it keeps as long as the cache and it    *)
(* may keep it together.                                                          *)
LEMMA AskKeeps == ASSUME RotationInv, SatelliteAsks PROVE RotationInv'
<1>1. UNCHANGED <<slots, cachedJwks, minted, waited>>
  BY DEF SatelliteAsks
<1>2. ASSUME keySet' \in KeySets \cup {NONE}, ServesSlots', NEW c \in Published(OwnLife),
             known' = c, Caches(c, CacheLife)'
      PROVE  RotationInv'
  <2>1. RotationTypeOK'
    BY <1>1, <1>2 DEF RotationInv, RotationTypeOK
  <2>2. Caches(cachedJwks, HttpLife)' /\ Caches(known, CacheLife)'
    BY <1>1, <1>2 DEF RotationInv, Caches, Promoted, Prepublished
  <2>3. \A u \in minted' : TokenOf(u)'
    BY <1>1 DEF RotationInv, TokenOf, Promoted
  <2> QED BY <1>1, <1>2, <2>1, <2>2, <2>3 DEF RotationInv
<1>3. CASE Loads /\ known' = [kids |-> getSatelliteKeys.public, left |-> OwnLife]
  <2>1. PICK c : c = [kids |-> getSatelliteKeys.public, left |-> OwnLife]
    OBVIOUS
  <2>2. c \in Published(OwnLife) /\ \A l : Caches(c, l)'
    BY <1>1, <2>1, JustPublished, RotationNumbers
  <2>3. Caches(c, CacheLife)'
    BY <2>2 DEF CacheLife
  <2> QED BY <1>1, <1>2, <1>3, <2>1, <2>2, <2>3, LoadsKeeps
<1>4. CASE cachedJwks # NONE /\ known' = [kids |-> cachedJwks.kids, left |-> OwnLife] /\ UNCHANGED keySet
  <2>1. PICK c : c = [kids |-> cachedJwks.kids, left |-> OwnLife]
    OBVIOUS
  <2>2. cachedJwks \in Published(HttpLife) /\ waited \in Nat
    BY <1>4, RotationNumbers DEF RotationInv, RotationTypeOK
  <2>3. c \in Published(OwnLife) /\ c.kids = cachedJwks.kids /\ c.left = OwnLife
    BY <2>1, <2>2, RotationNumbers DEF Published
  <2>4. cachedJwks.left \in 1..HttpLife
    BY <2>2 DEF Published
  <2>5. cachedJwks.left + waited <= HttpLife => c.left + waited <= CacheLife
    BY <2>2, <2>3, <2>4, RotationNumbers
  <2>6. Caches(c, CacheLife)'
    BY <1>1, <1>4, <2>3, <2>5 DEF RotationInv, Caches, Promoted, Prepublished, CacheLife
  <2>7. keySet' \in KeySets \cup {NONE} /\ ServesSlots'
    BY <1>1, <1>4 DEF RotationInv, RotationTypeOK, ServesSlots, loadSatelliteKeys
  <2> QED BY <1>2, <1>4, <2>1, <2>3, <2>6, <2>7
<1> QED BY <1>3, <1>4 DEF SatelliteAsks

LEMMA CrashKeeps == ASSUME RotationInv, Crash PROVE RotationInv'
BY DEF RotationInv, RotationTypeOK, Crash, ServesSlots, TokenOf, Caches, Promoted, Prepublished,
       CacheLife

(* A change of the slots: the process has read none of them, and the clock of     *)
(* the operator starts anew.                                                      *)
LEMMA RestartedKeeps ==
  ASSUME RotationInv, NEW s, Restarted(s), s \in [active : Kids, secondary : Kids \cup {NONE}],
         s.secondary # s.active,
         \A t \in minted : \/ t.kid = s.active
                           \/ s.secondary # NONE /\ s.secondary < s.active /\ t.kid = s.secondary,
         \A c \in {cachedJwks, known} \ {NONE} :
           s.active \in c.kids /\ (s.secondary # NONE /\ s.secondary < s.active => s.secondary \in c.kids)
  PROVE  RotationInv'
<1>1. slots' = s /\ keySet' = NONE /\ waited' = 0 /\ UNCHANGED <<cachedJwks, known, minted>>
  BY DEF Restarted
<1>2. RotationTypeOK' /\ ServesSlots'
  BY <1>1, RotationNumbers DEF RotationInv, RotationTypeOK, ServesSlots
<1>3. \A t \in minted' : TokenOf(t)'
  <2> SUFFICES ASSUME NEW t \in minted PROVE TokenOf(t)'
    BY <1>1
  <2>1. t.left \in Nat /\ t.left + 0 <= TokenLife
    BY RotationNumbers DEF RotationInv, RotationTypeOK, Tokens
  <2> QED BY <1>1, <2>1 DEF TokenOf, Promoted
<1>4. cachedJwks # NONE => cachedJwks.left + 0 <= HttpLife
  BY RotationNumbers DEF RotationInv, RotationTypeOK, Published
<1>5. known # NONE => known.left + 0 <= CacheLife
  BY RotationNumbers DEF RotationInv, RotationTypeOK, Published
<1>6. Caches(cachedJwks, HttpLife)' /\ Caches(known, CacheLife)'
  BY <1>1, <1>4, <1>5 DEF Caches, Promoted, Prepublished, CacheLife
<1> QED BY <1>1, <1>2, <1>3, <1>6 DEF RotationInv

(* Of a rotation the cached sets know what the operator waited for. *)
LEMMA CachesKnow ==
  ASSUME RotationInv, NEW c \in {cachedJwks, known} \ {NONE}
  PROVE  /\ slots.active \in c.kids
         /\ Promoted => slots.secondary \in c.kids
         /\ Prepublished /\ waited >= CacheLife => slots.secondary \in c.kids
<1>1. /\ cachedJwks # NONE => cachedJwks.left \in 1..HttpLife
      /\ known # NONE => known.left \in 1..OwnLife
      /\ waited \in Nat
  BY RotationNumbers DEF RotationInv, RotationTypeOK, Published
<1>2. c.left \in Nat /\ c.left >= 1
  BY <1>1, RotationNumbers
<1>3. CASE c = cachedJwks
  <2>1. waited >= CacheLife => ~(c.left + waited <= HttpLife)
    BY <1>1, <1>2, RotationNumbers
  <2> QED BY <1>3, <2>1 DEF RotationInv, Caches
<1>4. CASE c = known
  <2>1. waited >= CacheLife => ~(c.left + waited <= CacheLife)
    BY <1>1, <1>2, RotationNumbers
  <2> QED BY <1>4, <2>1 DEF RotationInv, Caches
<1> QED BY <1>3, <1>4

LEMMA PrepublishKeeps == ASSUME RotationInv, Prepublish PROVE RotationInv'
<1>1. slots \in [active : Kids, secondary : Kids \cup {NONE}] /\ slots.active < MaxKid /\ slots.secondary = NONE
  BY DEF RotationInv, RotationTypeOK, Prepublish
<1>2. PICK s : s = [slots EXCEPT !.secondary = slots.active + 1]
  OBVIOUS
<1>3. slots.active + 1 \in Kids /\ slots.active \in Nat
  BY <1>1, RotationNumbers DEF Kids
<1>4. s \in [active : Kids, secondary : Kids \cup {NONE}] /\ s.active = slots.active
      /\ s.secondary = slots.active + 1
  BY <1>1, <1>2, <1>3
<1>5. Restarted(s)
  BY <1>2 DEF Prepublish
<1>6. \A t \in minted : t.kid = slots.active
  BY <1>1 DEF RotationInv, TokenOf, Promoted
<1>7. s.secondary # s.active /\ ~(s.secondary < s.active)
  BY <1>3, <1>4
<1> QED BY <1>4, <1>5, <1>6, <1>7, CachesKnow, RestartedKeeps

LEMMA PromoteKeeps == ASSUME RotationInv, Promote PROVE RotationInv'
<1>1. slots.active \in Kids /\ slots.secondary \in Kids /\ Prepublished /\ waited >= CacheLife
  BY DEF RotationInv, RotationTypeOK, Promote, Prepublished
<1>2. PICK s : s = [active |-> slots.secondary, secondary |-> slots.active]
  OBVIOUS
<1>3. s \in [active : Kids, secondary : Kids \cup {NONE}] /\ s.active = slots.secondary
      /\ s.secondary = slots.active
  BY <1>1, <1>2
<1>4. slots.active \in Nat /\ slots.secondary \in Nat /\ slots.active # NONE /\ slots.active < slots.secondary
  BY <1>1, RotationAssumption DEF Kids, Prepublished
<1>5. Restarted(s)
  BY <1>2 DEF Promote
<1>6. \A t \in minted : t.kid = slots.active
  BY <1>4 DEF RotationInv, TokenOf, Promoted
<1>7. \A c \in {cachedJwks, known} \ {NONE} : slots.active \in c.kids /\ slots.secondary \in c.kids
  BY <1>1, CachesKnow
<1> QED BY <1>3, <1>4, <1>5, <1>6, <1>7, RestartedKeeps

LEMMA RetireKeeps == ASSUME RotationInv, Retire PROVE RotationInv'
<1>1. slots \in [active : Kids, secondary : Kids \cup {NONE}] /\ waited \in Nat
      /\ waited >= TokenLife + CacheLife
  BY RotationNumbers DEF RotationInv, RotationTypeOK, Retire
<1>2. PICK s : s = [slots EXCEPT !.secondary = NONE]
  OBVIOUS
<1>3. s \in [active : Kids, secondary : Kids \cup {NONE}] /\ s.active = slots.active /\ s.secondary = NONE
  BY <1>1, <1>2
<1>4. Restarted(s) /\ s.secondary # s.active
  BY <1>2, <1>3, RotationAssumption DEF Retire, Kids
<1>5. \A t \in minted : t.kid = slots.active
  <2> SUFFICES ASSUME NEW t \in minted PROVE ~(t.left + waited <= TokenLife)
    BY DEF RotationInv, TokenOf
  <2>1. t.left \in Nat /\ t.left >= 1
    BY RotationNumbers DEF RotationInv, RotationTypeOK, Tokens
  <2> QED BY <1>1, <2>1, RotationNumbers
<1> QED BY <1>3, <1>4, <1>5, CachesKnow, RestartedKeeps

(* What ages by a tick has as much less to live as the operator has waited more. *)
LEMMA AgedIs ==
  ASSUME NEW life \in Nat, NEW S, NEW c \in [kids : S, left : 1..life] \cup {NONE},
         NONE \notin [kids : S, left : 1..life]
  PROVE  /\ Aged(c) \in [kids : S, left : 1..life] \cup {NONE}
         /\ Aged(c) # NONE => c # NONE /\ Aged(c).kids = c.kids /\ Aged(c).left = c.left - 1
<1>1. CASE c = NONE \/ c.left = 1
  BY <1>1 DEF Aged
<1>2. CASE c # NONE /\ c.left # 1
  <2>1. PICK left : left = c.left - 1
    OBVIOUS
  <2>2. left \in 1..life
    BY <1>2, <2>1
  <2>3. Aged(c) = [c EXCEPT !.left = left]
    BY <1>2, <2>1 DEF Aged
  <2>4. [c EXCEPT !.left = left] \in [kids : S, left : 1..life]
    BY <1>2, <2>2
  <2>5. [c EXCEPT !.left = left].kids = c.kids /\ [c EXCEPT !.left = left].left = left
    BY <1>2
  <2> QED BY <1>2, <2>1, <2>3, <2>4, <2>5
<1> QED BY <1>1, <1>2

LEMMA TokenAged ==
  ASSUME NEW t \in Tokens
  PROVE  Aged(t) # NONE => Aged(t) \in Tokens /\ Aged(t).kid = t.kid /\ Aged(t).left = t.left - 1
<1> SUFFICES ASSUME Aged(t) # NONE
             PROVE  Aged(t) \in Tokens /\ Aged(t).kid = t.kid /\ Aged(t).left = t.left - 1
  OBVIOUS
<1>1. PICK left : left = t.left - 1
  OBVIOUS
<1>2. Aged(t) = [t EXCEPT !.left = left] /\ t.left # 1
  BY <1>1 DEF Aged
<1>3. left \in 1..TokenLife
  BY <1>1, <1>2, RotationNumbers DEF Tokens
<1> QED BY <1>1, <1>2, <1>3 DEF Tokens

LEMMA TickKeeps == ASSUME RotationInv, Tick PROVE RotationInv'
<1>1. UNCHANGED <<slots, keySet>> /\ waited \in Nat /\ waited' \in 0..(TokenLife + CacheLife)
      /\ waited' <= waited + 1
  BY RotationNumbers DEF RotationInv, RotationTypeOK, Tick
<1>2. ASSUME NEW c, NEW life \in Nat, NEW most \in Nat, life <= most,
             c \in Published(life) \cup {NONE}, NONE \notin Published(life), Caches(c, most)
      PROVE  Aged(c) \in Published(life) \cup {NONE} /\ (\A d : d = Aged(c) => Caches(d, most)')
  <2>1. PICK d : d = Aged(c)
    OBVIOUS
  <2>2. d \in Published(life) \cup {NONE} /\ (d # NONE => c # NONE /\ d.kids = c.kids /\ d.left = c.left - 1)
    BY <1>2, <2>1, AgedIs DEF Published
  <2>3. c # NONE => c.left \in Nat
    BY <1>2 DEF Published
  <2>4. d # NONE /\ c.left + waited <= most => d.left + waited' <= most
    BY <1>1, <2>2, <2>3
  <2>5. Caches(d, most)'
    BY <1>1, <1>2, <2>2, <2>4 DEF Caches, Promoted, Prepublished
  <2> QED BY <2>1, <2>2, <2>5
<1>3. PICK jwks, mine : jwks = Aged(cachedJwks) /\ mine = Aged(known)
  OBVIOUS
<1>4. cachedJwks' = jwks /\ known' = mine
  BY <1>3 DEF Tick
<1>5. jwks \in Published(HttpLife) \cup {NONE} /\ Caches(jwks, HttpLife)'
  BY <1>2, <1>3, RotationNumbers, RotationAssumption DEF RotationInv, RotationTypeOK
<1>6. PICK most : most = CacheLife
  OBVIOUS
<1>7. mine \in Published(OwnLife) \cup {NONE} /\ Caches(mine, most)'
  BY <1>2, <1>3, <1>6, RotationNumbers, RotationAssumption DEF RotationInv, RotationTypeOK
<1>8. Caches(cachedJwks, HttpLife)' /\ Caches(known, CacheLife)'
  BY <1>4, <1>5, <1>6, <1>7 DEF Caches, Promoted, Prepublished, CacheLife
<1>9. \A u \in minted' : u \in Tokens /\ TokenOf(u)'
  <2> SUFFICES ASSUME NEW u \in minted' PROVE u \in Tokens /\ TokenOf(u)'
    OBVIOUS
  <2>1. PICK t \in minted : u = Aged(t) /\ u # NONE
    BY DEF Tick
  <2>2. t \in Tokens /\ TokenOf(t)
    BY DEF RotationInv, RotationTypeOK
  <2>3. u \in Tokens /\ u.kid = t.kid /\ u.left = t.left - 1
    BY <2>1, <2>2, TokenAged
  <2>4. t.left + waited <= TokenLife => u.left + waited' <= TokenLife
    BY <1>1, <2>2, <2>3, RotationNumbers DEF Tokens
  <2> QED BY <1>1, <2>2, <2>3, <2>4 DEF TokenOf, Promoted
<1>10. RotationTypeOK'
  <2>1. minted' \in SUBSET Tokens
    BY <1>9
  <2> QED BY <1>1, <1>4, <1>5, <1>7, <2>1 DEF RotationInv, RotationTypeOK
<1>11. ServesSlots'
  BY <1>1 DEF RotationInv, ServesSlots, loadSatelliteKeys
<1> QED BY <1>1, <1>8, <1>9, <1>10, <1>11 DEF RotationInv

LEMMA RotationInvHolds == RotationSpec => []RotationInv
<1>1. RotationInit => RotationInv
  <2> SUFFICES ASSUME RotationInit PROVE RotationInv
    OBVIOUS
  <2>1. 1 \in Kids /\ NONE # 1 /\ 0 \in 0..(TokenLife + CacheLife)
    BY RotationNumbers, RotationAssumption DEF Kids
  <2>2. slots = [active |-> 1, secondary |-> NONE]
    BY DEF RotationInit
  <2> QED BY <2>1, <2>2 DEF RotationInit, RotationInv, RotationTypeOK, ServesSlots, Caches
<1>2. RotationInv /\ [RotationNext]_rotationVars => RotationInv'
  <2>1. RotationInv /\ UNCHANGED rotationVars => RotationInv'
    BY DEF rotationVars, RotationInv, RotationTypeOK, ServesSlots, TokenOf, Caches, Promoted,
           Prepublished, CacheLife, loadSatelliteKeys
  <2> QED BY <2>1, MintKeeps, JwksKeeps, AskKeeps, CrashKeeps, PrepublishKeeps, PromoteKeeps,
             RetireKeeps, TickKeeps DEF RotationNext
<1> QED BY <1>1, <1>2, PTL DEF RotationSpec

(* The state has its types: nothing published or minted outlives its life.        *)
THEOREM RotationTypes == RotationSpec => []RotationTypeOK
BY RotationInvHolds, PTL DEF RotationInv

(* "A rotation is never a flag-day" (README.md:838-843), for any lives of tokens    *)
(* and caches and any number of rotations, crashes in any of their steps: a token   *)
(* that has not run out verifies with the keys that a satellite holds, with those   *)
(* a cache would give it and with those Heorth publishes.  The two waits of the     *)
(* operator, CacheLife before a promotion and TokenLife more before a retirement,   *)
(* are what it takes.                                                             *)
THEOREM NeverAFlagDay == RotationSpec => []Verifies
<1>1. RotationInv => Verifies
  <2> SUFFICES ASSUME RotationInv, NEW t \in minted
               PROVE  /\ t.kid \in getSatelliteKeys.public
                      /\ \A c \in {known, cachedJwks} \ {NONE} : t.kid \in c.kids
    BY DEF Verifies
  <2>1. t.kid = slots.active \/ (Promoted /\ t.kid = slots.secondary)
    BY DEF RotationInv, TokenOf
  <2> QED BY <2>1, SlotsAnswer, CachesKnow DEF Promoted
<1> QED BY <1>1, RotationInvHolds, PTL
=============================================================================
