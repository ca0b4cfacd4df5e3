------------------------------ MODULE Licences ------------------------------
(***************************************************************************)
(* Licence keys in web mode: verify_license_key, activation, license-info  *)
(* and what the dependencies require_pro and require_enterprise let        *)
(* through.                                                                *)
(*                                                                         *)
(* A key names an address, a tier and a last day.  Whether it is genuine   *)
(* stands for everything that is asked before the expiry: two parts,       *)
(* decodable data, all required fields, a known tier, a signature by one   *)
(* of PUBLIC_KEYS.  Addresses are compared without their case, while an    *)
(* account has the address as it was typed.  The field "email" has to be   *)
(* there, but may be empty or null: such a key names no address.  Time is  *)
(* counted in days.                                                        *)
(***************************************************************************)
EXTENDS Integers

CONSTANTS Address,  \* the addresses accounts may have
          Lower,    \* Lower[a]: the address without its case
          Key,      \* the licence keys, genuine or not
          Grace,    \* GRACE_PERIOD_DAYS
          MaxDay    \* bound: the last day

VARIABLES holder,   \* holder[a]: license_tier and license_key of a's account
          day,      \* today
          shown     \* what the last license-info said, and of whom

vars == <<holder, day, shown>>

Tier == {"free", "pro", "enterprise"}
LicenceConstants ==
  /\ \A k \in Key : k.genuine \in BOOLEAN /\ k.tier \in Tier /\ k.until \in Int
  /\ Grace \in Int /\ MaxDay \in Nat

\* The email of a key that names no address: "" or null.
Unnamed == "unnamed"

NoKey == [genuine |-> FALSE, email |-> Unnamed, tier |-> "free", until |-> 0]

\* "on" is a history field: the day of the activation.
Holding == [exists : BOOLEAN, tier : Tier, key : Key \union {NoKey}, on : 0..MaxDay]
Nobody == [exists |-> FALSE, tier |-> "free", key |-> NoKey, on |-> 0]
NothingShown == [tier |-> "free", live |-> FALSE, lapsed |-> FALSE]

TypeOK ==
  /\ holder \in [Address -> Holding]
  /\ day \in 0..MaxDay
  /\ shown \in [tier : Tier, live : BOOLEAN, lapsed : BOOLEAN]

Init ==
  /\ holder = [a \in Address |-> Nobody]
  /\ day = 0
  /\ shown = NothingShown

-----------------------------------------------------------------------------
\* verify_license_key: (expires_at - now).days, and the days of grace.
ValidOn(k, d) == k.genuine /\ k.until - d >= -Grace

\* A row of users with the default tier.
Register(a) ==
  /\ ~holder[a].exists
  /\ holder' = [holder EXCEPT ![a] = [Nobody EXCEPT !.exists = TRUE]]
  /\ UNCHANGED <<day, shown>>

\* Mutation of MayActivate: the address in the key is not compared.
MayActivateAny(a, k) == holder[a].exists /\ ValidOn(k, day)

\* 400 for a key that does not hold today, 403 for another address's key.  A
\* key that names no address is compared with none.
MayActivate(a, k) ==
  holder[a].exists /\ ValidOn(k, day) /\ k.email \in {Unnamed, Lower[a]}

Activate(a, k) ==
  /\ MayActivate(a, k)
  /\ holder' = [holder EXCEPT ![a].tier = k.tier, ![a].key = k, ![a].on = day]
  /\ UNCHANGED <<day, shown>>

DeleteAccount(a) ==
  /\ holder[a].exists
  /\ holder' = [holder EXCEPT ![a] = Nobody]
  /\ UNCHANGED <<day, shown>>

\* license-info verifies the stored key again; the tier is the stored one
\* either way.
LicenseInfo(a) ==
  /\ holder[a].exists
  /\ LET k == holder[a].key
         live == ValidOn(k, day)
     IN shown' = [tier |-> holder[a].tier, live |-> live, lapsed |-> k # NoKey /\ ~live]
  /\ UNCHANGED <<holder, day>>

NextDay ==
  /\ day < MaxDay
  /\ day' = day + 1
  /\ UNCHANGED <<holder, shown>>

Next ==
  \/ \E a \in Address : \/ Register(a) \/ DeleteAccount(a) \/ LicenseInfo(a)
                        \/ \E k \in Key : Activate(a, k)
  \/ NextDay

Spec == Init /\ [][Next]_vars

-----------------------------------------------------------------------------
\* require_pro.  require_enterprise lets fewer through: it asks for the tier
\* "enterprise", and for ENTERPRISE_MODE.
PassesPro(a) == holder[a].exists /\ holder[a].tier \in {"pro", "enterprise"}

(***************************************************************************)
(* Whoever passes a paid gate holds a genuine key of that tier, never one  *)
(* made out to another address, that was accepted no later than its grace  *)
(* period allows, whatever was activated, deleted and registered again.    *)
(* A key made out to no address is the exception activate_license makes:   *)
(* it serves any account.                                                  *)
(***************************************************************************)
TierIsEarned ==
  \A a \in Address :
    PassesPro(a) =>
      LET h == holder[a] IN
      /\ h.key.genuine /\ h.key.tier = h.tier
      /\ h.key.email \in {Unnamed, Lower[a]}
      /\ h.on <= h.key.until + Grace /\ h.on <= day

(***************************************************************************)
(* auth/license.py: "No license or expired/invalid stored key - return     *)
(* free tier defaults".  A license-info that finds the stored key lapsed   *)
(* answers with the free tier.                                             *)
(***************************************************************************)
LapsedKeyShowsFree == shown.lapsed => shown.tier = "free"
=============================================================================
