------------------------------ MODULE KeyRotation ------------------------------
(* The keys Heorth signs its satellites' tokens with (satellite/keys.ts), over the   *)
(* rotations of README.md ("Rotating the satellite signing key"): one slot signs, a  *)
(* second is only published. The process reads its slots once; what it publishes is   *)
(* kept by HTTP caches, and by the satellite; tokens are out when the keys change.    *)
(* The operator is external, and waits as the README says.                          *)
EXTENDS Integers, FiniteSets

CONSTANTS NONE,
          TokenLife,    \* SATELLITE_TOKEN_TTL_SECONDS, in ticks
          HttpLife,     \* the max-age of the JWKS
          OwnLife,      \* what a satellite caches on its side
          MaxKid        \* bound: keys ever made

Kids == 1..MaxKid

(* What is published of the keys, by whoever keeps it, and for how long yet. *)
Published(life) == [kids : SUBSET Kids, left : 1..life]
KeySets         == [signing : Kids, public : SUBSET Kids]
Tokens          == [kid : Kids, left : 1..TokenLife]

ASSUME RotationAssumption ==
  /\ TokenLife \in Nat \ {0} /\ HttpLife \in Nat \ {0} /\ OwnLife \in Nat \ {0}
  /\ MaxKid \in Nat \ {0}
  /\ NONE \notin Int
  /\ NONE \notin KeySets /\ NONE \notin Tokens
  /\ NONE \notin Published(HttpLife) /\ NONE \notin Published(OwnLife)

VARIABLES slots,        \* the environment: [active, secondary], key ids
          keySet,       \* what the process loaded, NONE before the first request
          cachedJwks,   \* of an HTTP cache on the way
          known,        \* the satellite's
          minted,       \* tokens out: [kid, left]
          waited        \* ticks since the operator's last change

rotationVars == <<slots, keySet, cachedJwks, known, minted, waited>>

CacheLife == HttpLife + OwnLife
-----------------------------------------------------------------------------
\* Seeded fault: a secondary slot is only for a key that has signed.
PublishesTheOld(s) ==
  [signing |-> s.active,
   public  |-> {k \in {s.active, s.secondary} \ {NONE} : k <= s.active}]

loadSatelliteKeys(s) ==
  [signing |-> s.active, public |-> {s.active, s.secondary} \ {NONE}]

(* The first request loads them, and the promise is kept. *)
getSatelliteKeys == IF keySet = NONE THEN loadSatelliteKeys(slots) ELSE keySet
Loads            == keySet' = getSatelliteKeys

RotationInit ==
  /\ slots = [active |-> 1, secondary |-> NONE] /\ keySet = NONE
  /\ cachedJwks = NONE /\ known = NONE /\ minted = {} /\ waited = 0

mintSatelliteToken ==
  /\ Loads
  /\ minted' = minted \cup {[kid |-> getSatelliteKeys.signing, left |-> TokenLife]}
  /\ UNCHANGED <<slots, cachedJwks, known, waited>>

getJwks ==
  /\ Loads /\ cachedJwks' = [kids |-> getSatelliteKeys.public, left |-> HttpLife]
  /\ UNCHANGED <<slots, known, minted, waited>>

(* The satellite asks the cache, or Heorth itself. *)
SatelliteAsks ==
  /\ \/ cachedJwks # NONE /\ known' = [kids |-> cachedJwks.kids, left |-> OwnLife] /\ UNCHANGED keySet
     \/ Loads /\ known' = [kids |-> getSatelliteKeys.public, left |-> OwnLife]
  /\ UNCHANGED <<slots, cachedJwks, minted, waited>>
-----------------------------------------------------------------------------
Restarted(s) ==
  /\ slots' = s /\ keySet' = NONE /\ waited' = 0
  /\ UNCHANGED <<cachedJwks, known, minted>>

Crash == keySet' = NONE /\ UNCHANGED <<slots, cachedJwks, known, minted, waited>>

Prepublish ==
  /\ slots.active < MaxKid /\ slots.secondary = NONE
  /\ Restarted([slots EXCEPT !.secondary = slots.active + 1])

Promote ==
  /\ slots.secondary # NONE /\ slots.secondary > slots.active /\ waited >= CacheLife
  /\ Restarted([active |-> slots.secondary, secondary |-> slots.active])

Retire ==
  /\ slots.secondary # NONE /\ slots.secondary < slots.active /\ waited >= TokenLife + CacheLife
  /\ Restarted([slots EXCEPT !.secondary = NONE])

Aged(c) == IF c = NONE \/ c.left = 1 THEN NONE ELSE [c EXCEPT !.left = @ - 1]

Tick ==
  /\ cachedJwks' = Aged(cachedJwks) /\ known' = Aged(known)
  /\ minted' = {Aged(t) : t \in minted} \ {NONE}
  /\ waited' = IF waited < TokenLife + CacheLife THEN waited + 1 ELSE waited
  /\ UNCHANGED <<slots, keySet>>

RotationNext ==
  \/ mintSatelliteToken \/ getJwks \/ SatelliteAsks \/ Crash
  \/ Prepublish \/ Promote \/ Retire \/ Tick

RotationSpec == RotationInit /\ [][RotationNext]_rotationVars
-----------------------------------------------------------------------------
RotationTypeOK ==
  /\ slots \in [active : Kids, secondary : Kids \cup {NONE}]
  /\ keySet \in KeySets \cup {NONE}
  /\ cachedJwks \in Published(HttpLife) \cup {NONE} /\ known \in Published(OwnLife) \cup {NONE}
  /\ minted \in SUBSET Tokens
  /\ waited \in 0..(TokenLife + CacheLife)

(* "A rotation is never a flag-day" (README.md:838-843): a token that has not run out *)
(* verifies at a satellite with the keys it holds, with those it may get from a cache, *)
(* and with those Heorth publishes, before, during and after every rotation.         *)
Verifies ==
  \A t \in minted : t.kid \in getSatelliteKeys.public /\ \A c \in {known, cachedJwks} \ {NONE} : t.kid \in c.kids
=============================================================================
