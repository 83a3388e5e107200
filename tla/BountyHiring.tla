---------------------------- MODULE BountyHiring ----------------------------
(***************************************************************************)
(* The refinement mapping from the bounties contract to Hiring: what its   *)
(* records say of one bounty, if it is a bounty for one claimant.          *)
(***************************************************************************)
EXTENDS BountiesSafety

CONSTANT Id     \* the bounty that is looked at

ASSUME IdAssumption == Id \in BountyId

Stage ==
  CASE ~HasMode(Id, "None") -> "none"
    [] HasMode(Id, "None") /\ Status(Id) = "New"       -> "open"
    [] HasMode(Id, "None") /\ Status(Id) = "Claimed"   -> "working"
    [] HasMode(Id, "None") /\ Status(Id) = "Completed" -> "done"
    [] HasMode(Id, "None") /\ Status(Id) = "Canceled"  -> "withdrawn"

(* The claim that internal_find_active_claim finds.                        *)
Worker ==
  IF HasMode(Id, "None") /\ ClaimsOf(Id, Active) # {}
  THEN CHOOSE k \in ClaimsOf(Id, Active) : TRUE ELSE Nil

H == INSTANCE Hiring WITH Claims <- ClaimKey, stage <- Stage, worker <- Worker

(* Whatever calls, promises and answers interleave, a bounty for one       *)
(* claimant is a hiring: nobody is hired before the work of the one before *)
(* has ended, nobody takes over another's work, and it is paid for only    *)
(* out of somebody's work.                                                 *)
BountyIsHiring == H!Spec

=============================================================================
