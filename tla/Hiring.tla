------------------------------- MODULE Hiring -------------------------------
(***************************************************************************)
(* What a bounty for one claimant promises to its owner and to those who   *)
(* claim it, with nothing of how it is done: it is open until somebody is  *)
(* hired, the one who is hired works alone, and only the end of that work  *)
(* opens it again or pays for it.  The owner may withdraw it; who was      *)
(* hired while the refund was on its way keeps the work.                   *)
(***************************************************************************)
CONSTANTS
  Claims,   \* the claims there may be
  Nil       \* nobody (a model value)

VARIABLES
  stage,    \* how far the bounty has come
  worker    \* the claim that is worked on, or Nil

hiring_vars == <<stage, worker>>

Stages == {"none", "open", "working", "done", "withdrawn"}

Init == stage = "none" /\ worker = Nil

Create ==
  /\ stage = "none" /\ stage' = "open"
  /\ UNCHANGED worker

Hire(k) ==
  /\ stage = "open" /\ stage' = "working"
  /\ worker = Nil /\ worker' = k

(* The claim is given up, has expired or was rejected.                     *)
Release ==
  /\ worker # Nil /\ worker' = Nil
  /\ stage' = "open"

Pay ==
  /\ worker # Nil /\ worker' = Nil
  /\ stage' = "done"

Withdraw ==
  /\ stage # "none" /\ stage' = "withdrawn"
  /\ UNCHANGED worker

Next ==
  \/ Create
  \/ \E k \in Claims : Hire(k)
  \/ Release
  \/ Pay
  \/ Withdraw

Spec == Init /\ [][Next]_hiring_vars

=============================================================================
