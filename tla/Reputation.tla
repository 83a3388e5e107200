----------------------------- MODULE Reputation -----------------------------
(***************************************************************************)
(* The reputation contract (reputation/src/lib.rs): the statistics of the  *)
(* claimants and of the bounty owners, counted from the actions that the   *)
(* bounties contract tells it.                                             *)
(***************************************************************************)
EXTENDS Naturals

CONSTANTS Nil, Accounts

VARIABLES claimants_entries, bounty_owners_entries

ClaimantMetrics ==
  {"claims", "accepted", "successful", "unsuccessful", "overdue", "canceled",
   "open_disputes", "disputes_won"}
BountyOwnerMetrics ==
  {"bounties", "successful_bounties", "canceled_bounties", "claims",
   "approved_claimants", "approved_claims", "rejected_claims",
   "open_disputes", "disputes_won"}

WithoutClaimant == {"BountyCreated", "BountyCancelled", "SuccessfulBounty"}
WithoutOwner == {"ClaimCancelled", "ClaimExpired"}

(* An account without an entry has the default one.                        *)
Init ==
  /\ claimants_entries = [a \in Accounts |-> [m \in ClaimantMetrics |-> 0]]
  /\ bounty_owners_entries =
       [a \in Accounts |-> [m \in BountyOwnerMetrics |-> 0]]

(* The metrics of the claimant and of the owner that an action raises.     *)
ClaimantGains(kind, disputed) ==
  CASE kind = "ClaimCreated" -> {"claims"}
    [] kind = "ClaimantApproved" -> {"accepted"}
    [] kind = "ClaimCancelled" -> {"canceled"}
    [] kind = "ClaimExpired" -> {"overdue"}
    [] kind \in {"SuccessfulBountyAndClaim", "SuccessfulClaim"} ->
         {"successful"}
           \cup (IF disputed THEN {"open_disputes", "disputes_won"} ELSE {})
    [] kind = "UnsuccessfulClaim" ->
         {"unsuccessful"} \cup (IF disputed THEN {"open_disputes"} ELSE {})
    [] OTHER -> {}

OwnerGains(kind, disputed) ==
  CASE kind = "BountyCreated" -> {"bounties"}
    [] kind = "ClaimCreated" -> {"claims"}
    [] kind = "ClaimantApproved" -> {"approved_claimants"}
    [] kind = "BountyCancelled" -> {"canceled_bounties"}
    [] kind = "SuccessfulBounty" -> {"successful_bounties"}
    [] kind \in {"SuccessfulBountyAndClaim", "SuccessfulClaim"} ->
         (IF kind = "SuccessfulClaim" THEN {} ELSE {"successful_bounties"})
           \cup (IF disputed THEN {"rejected_claims", "open_disputes"}
                             ELSE {"approved_claims"})
    [] kind = "UnsuccessfulClaim" ->
         {"rejected_claims"}
           \cup (IF disputed THEN {"open_disputes", "disputes_won"} ELSE {})
    [] OTHER -> {}

Raised(entry, gains) ==
  [m \in DOMAIN entry |-> IF m \in gains THEN entry[m] + 1 ELSE entry[m]]

(* The call panics where an account is missing or should be.               *)
emit(e) ==
  /\ e.receiver_id = Nil <=> e.kind \in WithoutClaimant
  /\ e.bounty_owner = Nil <=> e.kind \in WithoutOwner
  /\ claimants_entries' =
       [a \in Accounts |->
          IF a = e.receiver_id
          THEN Raised(claimants_entries[a], ClaimantGains(e.kind, e.disputed))
          ELSE claimants_entries[a]]
  /\ bounty_owners_entries' =
       [a \in Accounts |->
          IF a = e.bounty_owner
          THEN Raised(bounty_owners_entries[a], OwnerGains(e.kind, e.disputed))
          ELSE bounty_owners_entries[a]]

============================================================================
