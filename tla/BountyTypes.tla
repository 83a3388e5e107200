---------------------------- MODULE BountyTypes ----------------------------
(***************************************************************************)
(* The data of the bounties contract (bounties/src/types.rs): what a       *)
(* bounty is created with, what it keeps while it runs, what a claim       *)
(* keeps, and the pure questions the contract asks of them.  The contract  *)
(* stores one record per bounty whose `multitasking' variant carries the   *)
(* runtime data of its mode; here every record has the fields of all four  *)
(* modes, at rest in the modes that do not use them.                       *)
(***************************************************************************)
EXTENDS Integers, FiniteSets, FiniteSetsExt, Sequences

CONSTANTS
  Nil,          \* the absent optional value (a model value)
  Accounts,     \* the accounts that call the contract
  Claimants,    \* those of them that try to claim a bounty
  DAO,          \* the account of the validators DAO
  BountyId,     \* bounty indices
  MaxClaims,    \* claims of one account on one bounty (255 in the code)
  MaxSlots,     \* the largest number of slots, subtasks or prize places
  Offers        \* the BountyCreate values the owners use, with the deposit

ASSUME TypesAssumption ==
  /\ Claimants \subseteq Accounts
  /\ BountyId \subseteq Nat
  /\ MaxClaims \in Nat /\ MaxSlots \in Nat

Numbers  == 0 .. MaxClaims - 1
Places   == 1 .. MaxSlots

(* A claim is found by bounty, account and claim number: number n is the   *)
(* n-th claim of the account when allow_creating_many_claims is set, and 0 *)
(* stands for the absent number otherwise.                                 *)
ClaimKey == BountyId \X Claimants \X Numbers

ASSUME NilAssumption == Nil \notin ClaimKey /\ Nil \notin Nat

Modes    == {"None", "Contest", "OneForAll", "DifferentTasks"}
Flows    == {"SimpleBounty", "AdvancedFlow"}
Approvals == {"MultipleClaims", "WithoutApproval", "ApprovalByWhitelist",
              "WhitelistWithApprovals"}
KycMethods == {"No", "WhenCreatingClaim", "DuringClaimApproval"}
Deferments == {"AllowedToSkipKyc", "BeforeDeadline"}
DeadlineTypes == {"DueDate", "MaxDeadline", "WithoutDeadline"}
StartConditions == {"None", "MinAmountToStart", "ManuallyStart"}
ClaimWindows == {"Always", "Date", "Period"}

BountyStatus == {"Absent", "New", "Claimed", "Completed", "Canceled",
                 "ManyClaimed", "AwaitingClaims", "PartiallyCompleted"}
ClaimStatus  == {"Absent", "New", "InProgress", "Completed", "Approved",
                 "Rejected", "Canceled", "Expired", "Disputed",
                 "NotCompleted", "NotHired", "Competes", "ReadyToStart",
                 "CompletedWithDispute"}

(* What the owner chooses (BountyCreate) and the deposit that comes with   *)
(* it.  `shares' are the subtask percentages (of 100000) or the amounts of *)
(* the prize places; `slots' their number; `proposal_bond' is the NEAR a   *)
(* validators DAO is sent with each proposal.                              *)
Terms ==
  [owner: Accounts, mode: Modes, flow: Flows,
   approval: Approvals, whitelist: SUBSET Accounts,
   dao: BOOLEAN, proposal_bond: Nat, reviewers: SUBSET Accounts,
   kyc: KycMethods, postpaid: BOOLEAN, many: BOOLEAN,
   deadline_type: DeadlineTypes, deadline: Nat, stretch: BOOLEAN,
   slots: Places, min_slots: Nat \cup {Nil}, shares: [Places -> Nat],
   start: StartConditions, window: ClaimWindows, window_end: Nat,
   successful: Nat, deposit: Nat]

ASSUME OffersAssumption == Offers \subseteq Terms /\ Offers # {}

Bounty ==
  [status: BountyStatus, terms: Terms,
   amount: Nat, platform_fee: Nat, dao_fee: Nat,
   participants: Int, started_at: Nat \cup {Nil}, finished_at: Nat \cup {Nil},
   winners: [Places -> ClaimKey \cup {Nil}],
   occupied_slots: Int, paid_slots: Nat,
   slots: [Places -> ClaimKey \cup {Nil}],
   completed: SUBSET Places, confirmed: SUBSET Places,
   proposal_id: BOOLEAN, payment_at: BOOLEAN, payment_confirmed_at: BOOLEAN]

Claim ==
  [status: ClaimStatus, deadline: Nat \cup {Nil}, start_time: Nat \cup {Nil},
   rejected_at: Nat \cup {Nil}, slot: Places \cup {Nil}, bond: Nat,
   kyc_delayed: Deferments \cup {Nil},
   approve_proposal: BOOLEAN, payout_proposal: BOOLEAN,
   payment_at: BOOLEAN, payment_confirmed_at: BOOLEAN]

NoClaim ==
  [status |-> "Absent", deadline |-> Nil, start_time |-> Nil,
   rejected_at |-> Nil, slot |-> Nil, bond |-> 0, kyc_delayed |-> Nil,
   approve_proposal |-> FALSE, payout_proposal |-> FALSE,
   payment_at |-> FALSE, payment_confirmed_at |-> FALSE]

(* Shares and percentages are counted in hundred-thousandths.              *)
Whole == 100000

(* BountyCreate.to_bounty: the fees are taken out of the deposit.          *)
PlatformFee(t, cfg) ==
  IF t.postpaid THEN 0
  ELSE (t.deposit * cfg.platform_pct)
         \div (Whole + (IF t.dao THEN cfg.dao_pct ELSE 0))
DaoFee(t, cfg) ==
  IF t.postpaid \/ ~t.dao THEN 0
  ELSE (t.deposit * cfg.dao_pct) \div (Whole + cfg.dao_pct)

(* A bounty that is not there, and one as it is created.                   *)
NoBounty ==
  [status |-> "Absent", terms |-> CHOOSE t \in Offers : TRUE,
   amount |-> 0, platform_fee |-> 0, dao_fee |-> 0,
   participants |-> 0, started_at |-> Nil, finished_at |-> Nil,
   winners |-> [p \in Places |-> Nil],
   occupied_slots |-> 0, paid_slots |-> 0,
   slots |-> [p \in Places |-> Nil], completed |-> {}, confirmed |-> {},
   proposal_id |-> FALSE, payment_at |-> FALSE,
   payment_confirmed_at |-> FALSE]

NewBounty(t, cfg) ==
  [NoBounty EXCEPT
     !.status = "New", !.terms = t,
     !.amount = t.deposit - PlatformFee(t, cfg) - DaoFee(t, cfg),
     !.platform_fee = PlatformFee(t, cfg), !.dao_fee = DaoFee(t, cfg)]

----------------------------------------------------------------------------
(* Questions about a bounty b (t == b.terms).                              *)

UsedPlaces(b) == 1 .. b.terms.slots

IsManager(sender, t) ==           \* Bounty.check_access_rights
  IF t.dao THEN sender = DAO ELSE sender \in t.reviewers \cup {t.owner}

IsOwnerOrReviewer(sender, t) ==   \* assert_account_is_not_owner_or_reviewer
  \/ sender = t.owner
  \/ IF t.dao THEN sender = DAO ELSE sender \in t.reviewers

ApprovalRequired(account, t) ==   \* is_approval_required
  \/ t.approval \in {"MultipleClaims", "WhitelistWithApprovals"}
  \/ t.approval = "ApprovalByWhitelist" /\ account \notin t.whitelist

MayClaim(account, t) ==           \* not not_allowed_to_create_claim
  t.approval \in {"ApprovalByWhitelist", "WhitelistWithApprovals"}
    => account \in t.whitelist

HasCompetitionStarted(b) == b.started_at # Nil /\ b.finished_at = Nil

AllPrizePlacesTaken(b) == \A p \in UsedPlaces(b) : b.winners[p] # Nil

AllSlotsAvailable(b) == \A s \in UsedPlaces(b) : b.slots[s] = Nil

(* is_allowed_to_create_or_approve_claims                                  *)
WindowOpen(b, time) ==
  \/ b.terms.window = "Always"
  \/ b.terms.window = "Date" /\ b.terms.window_end > time
  \/ /\ b.terms.window = "Period"
     /\ HasCompetitionStarted(b) => b.terms.window_end > time - b.started_at

TakesClaims(b, slot, time) ==
  /\ b.terms.mode = "Contest" => WindowOpen(b, time)
  /\ b.terms.mode = "OneForAll" =>
       b.occupied_slots + b.paid_slots < b.terms.slots
  /\ b.terms.mode = "DifferentTasks" =>
       slot \in UsedPlaces(b) /\ b.slots[slot] = Nil

(* is_claim_deadline_correct                                               *)
DeadlineCorrect(t, d, time) ==
  IF t.flow = "SimpleBounty"
  THEN d = Nil /\ (t.deadline_type = "DueDate" => time <= t.deadline)
  ELSE IF d = Nil THEN t.stretch
  ELSE /\ t.deadline_type = "DueDate" => time + d <= t.deadline
       /\ t.deadline_type = "MaxDeadline" => d <= t.deadline

(* BountyClaim.get_start_time: the competition's own start stands in.      *)
StartTime(c, b) == IF c.start_time = Nil THEN b.started_at ELSE c.start_time

(* BountyClaim.is_claim_expired                                            *)
IsExpired(c, b, time) ==
  \/ c.deadline # Nil /\ time > StartTime(c, b) + c.deadline
  \/ /\ c.deadline = Nil
     /\ \/ b.terms.deadline_type = "DueDate" /\ time > b.terms.deadline
        \/ /\ b.terms.deadline_type = "MaxDeadline"
           /\ time > StartTime(c, b) + b.terms.deadline

----------------------------------------------------------------------------
(* Bounty.assert_valid, the clauses about the modelled fields.             *)
TotalShare(t) == MapThenSumSet(LAMBDA p : t.shares[p], 1 .. t.slots)

ValidTerms(t, amount, time) ==
  /\ amount > 0
  /\ t.deadline_type = "DueDate" => t.deadline > time
  /\ t.deadline_type = "MaxDeadline" => t.deadline > 0
  /\ t.deadline_type = "WithoutDeadline" => ~t.stretch
  /\ t.mode = "OneForAll" => /\ t.slots > 1
                             /\ t.min_slots # Nil => t.min_slots > 1
  /\ t.mode = "DifferentTasks" => t.slots > 1 /\ TotalShare(t) = Whole
  /\ t.mode = "Contest" =>
       /\ t.start = "MinAmountToStart" => t.min_slots > 1
       /\ t.window = "Date" =>
            /\ time < t.window_end
            /\ t.deadline_type = "DueDate" => t.window_end <= t.deadline
       /\ t.successful # 1
       /\ TotalShare(t) = amount
  /\ t.flow = "SimpleBounty" =>
       /\ t.approval \in {"WithoutApproval", "ApprovalByWhitelist"}
       /\ t.kyc # "DuringClaimApproval"
       /\ ~t.dao /\ ~t.stretch
  /\ t.many => t.mode # "None"

============================================================================
