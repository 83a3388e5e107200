----------------------------- MODULE MCBounties -----------------------------
(***************************************************************************)
(* Instances of BountiesSafety for TLC: the terms that owners offer in     *)
(* each run, and small configurations and bounds.                          *)
(***************************************************************************)
EXTENDS BountiesSafety, TLC

CONSTANTS owner, alice, bob, dao

MCAccounts  == {owner, alice, bob, dao}
MCClaimants == {alice, bob}
OneClaimant == {alice}
Symmetry    == Permutations(MCClaimants)

(* A platform fee of 10% of 21 tokens leaves 19, which no two slots share  *)
(* evenly; half of the fee is kept as a penalty.                           *)
Config1 ==
  [bond |-> 1, forgiveness |-> 0, dispute_period |-> 0,
   platform_pct |-> 10000, dao_pct |-> 5000,
   penalty_platform_pct |-> 5000, penalty_dao_pct |-> 0]
(* The same with a dearer bond.                                            *)
Config2 == [Config1 EXCEPT !.bond = 2]

(* Nothing is charged.                                                     *)
FreeConfig == [Config1 EXCEPT !.platform_pct = 0]

OneConfig   == {Config1}
TwoConfigs  == {Config1, Config2}
FreeConfigs == {FreeConfig}

Ids1 == {0}
Ids2 == {0, 1}

Plain ==
  [owner |-> owner, mode |-> "None", flow |-> "AdvancedFlow",
   approval |-> "MultipleClaims", whitelist |-> {}, dao |-> FALSE,
   proposal_bond |-> 0, reviewers |-> {}, kyc |-> "No", postpaid |-> FALSE, many |-> FALSE,
   deadline_type |-> "MaxDeadline", deadline |-> 1, stretch |-> TRUE,
   slots |-> 1, min_slots |-> Nil, shares |-> [p \in Places |-> 0],
   start |-> "None", window |-> "Always", window_end |-> 0,
   successful |-> 0, deposit |-> 21]

NoUpdates == {}

(* A bounty for one claimant, with and without the approval of claimants.  *)
SingleOffers ==
  {Plain, [Plain EXCEPT !.flow = "SimpleBounty", !.stretch = FALSE,
                        !.approval = "WithoutApproval"]}

(* Two slots, which start together: for work that is done when it starts,  *)
(* and for work with a deadline that is paid for outside the contract.     *)
Slots ==
  [Plain EXCEPT !.mode = "OneForAll", !.slots = 2]
Together ==
  [Slots EXCEPT !.min_slots = 2, !.approval = "WithoutApproval"]
SlotOffers ==
  {[Together EXCEPT !.flow = "SimpleBounty", !.stretch = FALSE],
   [Together EXCEPT !.postpaid = TRUE]}

(* Two prizes for work that is done when it is claimed; the same with a    *)
(* deadline, from two participants on, who join within a period after the  *)
(* start; and one prize, in a contest that the owner starts when it is too *)
(* late to join and judges when the due date is over.                      *)
Contest ==
  [Plain EXCEPT !.mode = "Contest", !.slots = 2,
                !.approval = "WithoutApproval",
                !.shares = [p \in Places |-> IF p = 1 THEN 12 ELSE 7]]
OnePrize ==
  [Contest EXCEPT !.slots = 1,
                  !.shares = [p \in Places |-> IF p = 1 THEN 19 ELSE 0]]
ContestOffers ==
  {[Contest EXCEPT !.flow = "SimpleBounty", !.stretch = FALSE],
   [Contest EXCEPT !.start = "MinAmountToStart", !.min_slots = 2,
                   !.window = "Period", !.window_end = 1],
   [OnePrize EXCEPT !.approval = "MultipleClaims", !.start = "ManuallyStart",
                    !.deadline_type = "DueDate", !.deadline = 1,
                    !.window = "Date", !.window_end = 1, !.successful = 2]}
ContestOnly == {Contest}

PlaceOffers == SlotOffers \cup ContestOffers

(* Two subtasks of half the reward each.                                   *)
Tasks ==
  [Plain EXCEPT !.mode = "DifferentTasks", !.slots = 2,
                !.shares = [p \in Places |-> 50000]]
TaskOffers ==
  {[Tasks EXCEPT !.flow = "SimpleBounty", !.stretch = FALSE,
                 !.approval = "WithoutApproval"],
   [Tasks EXCEPT !.many = TRUE, !.approval = "WithoutApproval"]}

(* Bounties that a validators DAO decides on: one whose DAO asks for a     *)
(* bond with each proposal, and one whose DAO does not.                    *)
DaoOffers ==
  {[Plain EXCEPT !.dao = TRUE, !.proposal_bond = 1],
   [Tasks EXCEPT !.dao = TRUE, !.approval = "WithoutApproval"]}

(* Bounties with a KYC check: when a claim is made, when the claimant is   *)
(* approved, and when the work of a whitelisted claimant is done.          *)
KycOffers ==
  {[Plain EXCEPT !.kyc = "WhenCreatingClaim"],
   [Slots EXCEPT !.kyc = "WhenCreatingClaim", !.approval = "WithoutApproval"],
   [Plain EXCEPT !.kyc = "DuringClaimApproval"],
   [Plain EXCEPT !.kyc = "DuringClaimApproval",
                 !.approval = "ApprovalByWhitelist",
                 !.whitelist = MCClaimants]}

ServiceOffers == DaoOffers \cup KycOffers

(* Bounties paid for outside the contract.                                 *)
PostpaidOffers ==
  {[Plain EXCEPT !.postpaid = TRUE],
   [Contest EXCEPT !.postpaid = TRUE, !.deposit = 19],
   [Tasks EXCEPT !.postpaid = TRUE, !.approval = "WithoutApproval"]}

(* One of each kind, for the token accounts.                               *)
EscrowOffers ==
  {Plain, [Slots EXCEPT !.approval = "WithoutApproval"], Contest,
   [Tasks EXCEPT !.approval = "WithoutApproval", !.dao = TRUE]}

(* Owners who change their minds.                                          *)
TermsOffers ==
  PostpaidOffers \cup
  {[Plain EXCEPT !.approval = "WhitelistWithApprovals",
                 !.whitelist = {alice}, !.deadline_type = "DueDate",
                 !.deadline = 2],
   [OnePrize EXCEPT !.approval = "ApprovalByWhitelist",
                    !.whitelist = {alice, bob}]}
AllUpdates ==
  {[field |-> "approval", approval |-> "ApprovalByWhitelist",
    whitelist |-> {alice}],
   [field |-> "approval", approval |-> "ApprovalByWhitelist",
    whitelist |-> {bob}],
   [field |-> "approval", approval |-> "WhitelistWithApprovals",
    whitelist |-> {bob}],
   [field |-> "deadline", deadline_type |-> "DueDate", deadline |-> 1],
   [field |-> "deadline", deadline_type |-> "DueDate", deadline |-> 3],
   [field |-> "reviewers", reviewers |-> {bob}],
   [field |-> "amount", amount |-> 30]}

============================================================================
