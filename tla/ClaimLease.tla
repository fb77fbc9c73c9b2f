----------------------------- MODULE ClaimLease -----------------------------
(***************************************************************************)
(* What the claim object promises the requests that compete for a run: a   *)
(* lease with one holder.  While the lease is held and has not expired     *)
(* nobody else gets it; it is passed on only after it expired, after the   *)
(* run of its holder failed, or after it was given back.                   *)
(***************************************************************************)
CONSTANTS Clients, NoClient

VARIABLES
  mode,     \* "free", "held", "expired" or "failed"
  holder    \* the last client that got the lease; NoClient if given back

leaseVars == <<mode, holder>>

LeaseInit == mode = "free" /\ holder = NoClient

Grant(c) ==
  /\ mode # "held"
  /\ mode' = "held"
  /\ holder' = c

Expire ==
  /\ mode = "held"
  /\ mode' = "expired"
  /\ UNCHANGED holder

(* the failure of a run is on record until the next grant *)
Fail ==
  /\ mode \in {"held", "expired"}
  /\ mode' = "failed"
  /\ UNCHANGED holder

GiveBack ==
  /\ mode \in {"held", "expired"}
  /\ mode' = "free"
  /\ holder' = NoClient

LeaseNext ==
  \/ \E c \in Clients : Grant(c)
  \/ Expire \/ Fail \/ GiveBack

LeaseSpec == LeaseInit /\ [][LeaseNext]_leaseVars

=============================================================================
