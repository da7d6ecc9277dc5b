------------------------------ MODULE Accounts ------------------------------
(***************************************************************************)
(* The account rules of backend/app/services/accounts.py: when a user's    *)
(* validity ends and whether the user may use the service at an instant.   *)
(* The rules are pure functions of a row of the table "users"; every route *)
(* that takes a decision about a user (authorize, heartbeat, subscription, *)
(* the Xray client list) goes through them.                                *)
(*                                                                         *)
(* Time is a natural number of clock units, and one validity day is Day    *)
(* units.  used_up_bytes and used_down_bytes are only ever compared with   *)
(* the quota as a sum (User.used_bytes), so an account holds the sum.      *)
(***************************************************************************)
EXTENDS Naturals

CONSTANTS
    None,   \* SQL NULL: a time that is not set
    Day     \* timedelta(days=1) in clock units

ASSUME NoneAssumption == None \notin Nat
ASSUME DayAssumption == Day \in Nat \ {0}

MaybeTime == Nat \cup {None}

\* The columns of a user row that the account rules and the gateway read.
Account ==
    [active   : BOOLEAN,
     quota    : Nat,          \* quota_bytes, 0 is unlimited
     used     : Nat,          \* used_up_bytes + used_down_bytes
     validity : Nat,          \* validity_days, 0 is unlimited
     starts   : MaybeTime,    \* starts_at
     expires  : MaybeTime,    \* expires_at
     maxIps   : Nat]

(***************************************************************************)
(* The instant at which validity ends: the stored date wins; without one   *)
(* it is counted from the first connection; an account that has neither    *)
(* does not expire.                                                        *)
(***************************************************************************)
UserExpiry(a) ==
    IF a.expires # None THEN a.expires
    ELSE IF a.starts # None /\ a.validity # 0 THEN a.starts + Day * a.validity
    ELSE None

HasExpired(a, t) == UserExpiry(a) # None /\ UserExpiry(a) <= t

QuotaSpent(a) == a.quota # 0 /\ a.used >= a.quota

\* The reason returned with the verdict; the order of the tests is the code's.
Verdict(a, t) ==
    CASE ~a.active                          -> "user_disabled"
      [] a.active /\ HasExpired(a, t)       -> "expired"
      [] a.active /\ ~HasExpired(a, t) /\ QuotaSpent(a) -> "quota_exceeded"
      [] OTHER                              -> "allowed"

UserAllowed(a, t) == Verdict(a, t) = "allowed"

Refusals == {"user_disabled", "expired", "quota_exceeded"}
=============================================================================
