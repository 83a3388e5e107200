------------------------------ MODULE Bounties ------------------------------
(***************************************************************************)
(* The bounties contract (bounties/src/lib.rs, internal.rs, callbacks.rs,  *)
(* receiver.rs): escrowed bounties, the claims on them, the claimants'     *)
(* bonds and the fees.                                                     *)
(*                                                                         *)
(* A method call or a callback runs atomically; a panic undoes it, so a    *)
(* direct call that panics is not a step at all.  A call to another        *)
(* contract is a promise: it leaves in one step and its callback is a      *)
(* later step, with any other calls in between.  `calls' holds the         *)
(* promises that are out.  A token transfer and its callback are one step  *)
(* here: the token contract keeps nothing this contract reads, so nothing  *)
(* can happen between the two that tells them from one.  A callback that   *)
(* panics consumes the promise and changes nothing in this contract; the   *)
(* transfer that came before it has still happened.                        *)
(*                                                                         *)
(* An operator X_slip before an operator X is a plausible slip in the code *)
(* X models.  No specification uses it: it takes the place of X to see     *)
(* that a property notices.                                                *)
(***************************************************************************)
EXTENDS BountyTypes, SequencesExt

CONSTANTS
  Configs,        \* the configurations an administrator may set
  FirstConfig,    \* the one the contract starts with
  Deadlines,      \* deadlines a claimant or an owner names
  Updates,        \* the changes owners make with bounty_update
  HasDisputes,    \* whether the contract has a dispute contract
  MaxTime,        \* bound on the block timestamp
  MaxCalls,       \* bound on the promises that are out at one time
  MaxNear         \* bound on the claimants' NEAR, and on that of proposals

VARIABLES
  now,            \* env::block_timestamp()
  config,         \* the contract's Config
  bounties,       \* bounties by index
  claims,         \* claims by bounty, account and number
  bonds,          \* locked_amount, unlocked_amount, and the NEAR behind them
  fees,           \* FeeStats of the platform and of the validators DAO
  held,           \* tokens the token contract holds for this one
  paid,           \* tokens paid out for a claim
  refunded,       \* tokens returned to the owner of a bounty
  calls           \* promises whose callback has not run yet

vars == <<now, config, bounties, claims, bonds, fees, held, paid, refunded,
          calls>>
tokens == <<held, paid, refunded>>

Config ==
  [bond: Nat, forgiveness: Nat, dispute_period: Nat, platform_pct: Nat,
   dao_pct: Nat, penalty_platform_pct: Nat, penalty_dao_pct: Nat]

(* `near' is what the claimants attached, less what was sent back and what *)
(* is out with proposals to a validators DAO, which `proposals' counts.    *)
BondAccounts ==
  [locked_amount: Int, unlocked_amount: Int, near: Int, proposals: Nat]

(* One field of BountyUpdate in each call.                                 *)
Update ==
  [field: {"approval"}, approval: Approvals, whitelist: SUBSET Accounts]
  \cup [field: {"deadline"}, deadline_type: DeadlineTypes, deadline: Nat]
  \cup [field: {"reviewers"}, reviewers: SUBSET Accounts]
  \cup [field: {"amount"}, amount: Nat]

ASSUME BountiesAssumption ==
  /\ Configs \subseteq Config /\ FirstConfig \in Config
  /\ Deadlines \subseteq Nat \cup {Nil}
  /\ Updates \subseteq Update
  /\ HasDisputes \in BOOLEAN
  /\ MaxTime \in Nat /\ MaxCalls \in Nat /\ MaxNear \in Nat

Amounts == [pay: Int, fee: Int, dao: Int]

(* The promises and what their callbacks are given.                        *)
Calls ==
  [kind: {"payout"}, id: BountyId, claim: ClaimKey \cup {Nil},
   amounts: Amounts, place: Places \cup {Nil}]
  \cup [kind: {"withdraw"}, claim: ClaimKey, slot: Places, amount: Int]
  \cup [kind: {"refund"}, id: BountyId, amount: Int]
  \cup [kind: {"fees"}, amount: Int, platform: BOOLEAN]
  \cup [kind: {"kyc"}, claim: ClaimKey,
        place: {"CreatingClaim", "DecisionOnClaim", "ClaimDone"},
        deadline: Nat \cup {Nil}, slot: Places \cup {Nil},
        delayed: Deferments \cup {Nil}]
  \cup [kind: {"addClaimantProposal"}, claim: ClaimKey,
        deadline: Nat \cup {Nil}, slot: Places \cup {Nil}]
  \cup [kind: {"addPayoutProposal", "checkClaimantProposal",
               "createDispute", "getDispute"}, claim: ClaimKey]
  \cup [kind: {"checkPayoutProposal"}, id: BountyId,
        claim: ClaimKey \cup {Nil}]

Init ==
  /\ now = 0
  /\ config = FirstConfig
  /\ bounties = [id \in BountyId |-> NoBounty]
  /\ claims = [k \in ClaimKey |-> NoClaim]
  /\ bonds = [locked_amount |-> 0, unlocked_amount |-> 0, near |-> 0,
              proposals |-> 0]
  /\ fees = [balance |-> 0, locked |-> 0, dao_balance |-> 0, dao_locked |-> 0]
  /\ held = 0
  /\ paid = [k \in ClaimKey |-> 0]
  /\ refunded = [id \in BountyId |-> 0]
  /\ calls = <<>>

----------------------------------------------------------------------------
(* Promises.  q is the queue of promises the step starts from: `calls' in  *)
(* a direct call, `calls' without the answered one in a callback.          *)

Send(q, call) == Len(q) < MaxCalls /\ calls' = Append(q, call)

Answered(i) == RemoveAt(calls, i)

(* The callback of promise i fails, panics or reports a failure: nothing   *)
(* but the promise itself is gone.                                         *)
Drop(i) ==
  /\ calls' = Answered(i)
  /\ UNCHANGED <<now, config, bounties, claims, bonds, fees, tokens>>

----------------------------------------------------------------------------
(* Claims, slots and participants (internal.rs).                           *)

ClaimsOf(id, statuses) ==           \* get_claims_with_statuses
  {k \in ClaimKey : k[1] = id /\ claims[k].status \in statuses}

Active == {"InProgress", "Completed", "Rejected", "Disputed"}
Running == {"Claimed", "ManyClaimed"}

(* internal_get_claims_by_account_id_and_bounty_id(..).len(): a repeated   *)
(* claim overwrites the record unless several are allowed.                 *)
NumberOfClaims(id, who) ==
  Cardinality({k \in ClaimKey :
                 k[1] = id /\ k[2] = who /\ claims[k].status # "Absent"})

AllSlotsComplete_slip(id, except) ==
  \A s \in UsedPlaces(bounties[id]) : bounties[id].slots[s] # Nil

AllSlotsComplete(id, except) ==     \* internal_are_all_slots_complete
  LET b == bounties[id] IN
  \A s \in UsedPlaces(b) :
     /\ b.slots[s] # Nil
     /\ \/ b.slots[s] = except
        \/ /\ s \in b.completed
           /\ claims[b.slots[s]].status \in {"Completed", "CompletedWithDispute"}

ResetSlot_slip(b, s) ==
  [b EXCEPT !.completed = @ \ {s}, !.confirmed = @ \ {s}]

ResetSlot(b, s) ==
  [b EXCEPT !.slots[s] = Nil, !.completed = @ \ {s}, !.confirmed = @ \ {s}]

(* The bounty when a claim that is not being worked on leaves it: the      *)
(* counters only, as bounty_give_up and internal_finalize_some_claim do.   *)
Left(b, k) ==
  CASE b.terms.mode = "Contest" -> [b EXCEPT !.participants = @ - 1]
    [] b.terms.mode = "OneForAll" -> [b EXCEPT !.occupied_slots = @ - 1]
    [] b.terms.mode = "DifferentTasks" -> ResetSlot(b, claims[k].slot)
    [] OTHER -> b

(* The bounty when claim k leaves it: the head of                          *)
(* internal_reset_bounty_to_initial_state.                                 *)
Reopened(b, k) ==
  CASE b.terms.mode = "None" -> [b EXCEPT !.status = "New"]
    [] b.terms.mode = "Contest" ->
         IF b.status = "ManyClaimed" /\ b.participants = 1
         THEN [b EXCEPT !.participants = 0, !.finished_at = now,
                        !.status = "New"]
         ELSE [b EXCEPT !.participants = @ - 1]
    [] b.terms.mode = "OneForAll" ->
         [b EXCEPT !.occupied_slots = @ - 1,
                   !.status = IF @ = "ManyClaimed" /\ b.occupied_slots = 1
                              THEN IF b.paid_slots = 0 THEN "New"
                                                       ELSE "AwaitingClaims"
                              ELSE @]
    [] b.terms.mode = "DifferentTasks" ->
         LET freed == ResetSlot(b, claims[k].slot)
         IN  [freed EXCEPT !.status = IF AllSlotsAvailable(freed) THEN "New"
                                                                  ELSE @]

BondSettled_slip(bond, returned) ==
  [bonds EXCEPT !.unlocked_amount = @ + (IF returned THEN 0 ELSE bond),
                !.near = @ - (IF returned THEN bond ELSE 0)]

(* internal_return_bonds or internal_unlock_non_refunded_bond              *)
BondSettled(bond, returned) ==
  [bonds EXCEPT !.locked_amount = @ - bond,
                !.unlocked_amount = @ + (IF returned THEN 0 ELSE bond),
                !.near = @ - (IF returned THEN bond ELSE 0)]

CloseClaim(k, status, returned) ==  \* internal_claim_closure
  /\ claims' = [claims EXCEPT ![k].status = status]
  /\ bonds' = BondSettled(claims[k].bond, returned)

(* internal_reset_bounty_to_initial_state                                  *)
ResetBounty(k, status, returned) ==
  /\ bounties' = [bounties EXCEPT ![k[1]] = Reopened(@, k)]
  /\ CloseClaim(k, status, returned)

----------------------------------------------------------------------------
(* Approving a claimant (internal_claimant_approval).                      *)

ApprovedStatus(b) ==
  IF b.terms.flow = "SimpleBounty" THEN "Completed"
  ELSE IF b.terms.mode = "Contest" THEN "Competes" ELSE "InProgress"

ReadyBut(k) == ClaimsOf(k[1], {"ReadyToStart"}) \ {k}

(* Whether approving claim k for slot s starts the work on a bounty whose  *)
(* mode starts it for all claimants at once.                               *)
StartsWork(b, k, s) ==
  \/ /\ b.terms.mode = "Contest" /\ ~HasCompetitionStarted(b)
     /\ \/ b.terms.start = "None"
        \/ /\ b.terms.start = "MinAmountToStart"
           /\ b.participants = b.terms.min_slots - 1
  \/ /\ b.terms.mode = "OneForAll" /\ b.status # "ManyClaimed"
     /\ \/ b.terms.min_slots = Nil
        \/ b.status = "AwaitingClaims"
        \/ Cardinality(ReadyBut(k)) = b.terms.min_slots - 1
  \/ /\ b.terms.mode = "DifferentTasks" /\ b.status # "ManyClaimed"
     /\ \A p \in UsedPlaces(b) \ {s} : b.slots[p] # Nil

StatusOnApproval_slip(b, k, s) ==
  IF b.terms.mode = "None" THEN "Claimed" ELSE "ManyClaimed"

StatusOnApproval(b, k, s) ==
  IF b.terms.mode = "None" THEN "Claimed"
  ELSE IF StartsWork(b, k, s) THEN "ManyClaimed" ELSE b.status

(* The claims that waited for the start and are released by it.            *)
Released(b, k, s) ==
  IF b.terms.mode \in {"OneForAll", "DifferentTasks"} /\ b.status = "New"
     /\ StartsWork(b, k, s)
  THEN ReadyBut(k) ELSE {}

BountyOnApproval(b, k, s) ==
  LET after == [b EXCEPT !.status = StatusOnApproval(b, k, s)]
      starts == StartsWork(b, k, s)
  IN
  CASE b.terms.mode = "None" -> after
    [] b.terms.mode = "Contest" ->
         [after EXCEPT !.participants = @ + 1,
                       !.started_at = IF starts THEN now ELSE @,
                       !.finished_at = IF starts THEN Nil ELSE @]
    [] b.terms.mode = "OneForAll" -> [after EXCEPT !.occupied_slots = @ + 1]
    [] b.terms.mode = "DifferentTasks" ->
         [after EXCEPT
            !.slots[s] = k,
            !.confirmed = @ \ {s},
            !.completed =
               IF b.terms.flow = "SimpleBounty" /\ after.status = "ManyClaimed"
               THEN @ \cup {s} \cup {claims[j].slot : j \in Released(b, k, s)}
               ELSE @ \ {s}]

ClaimOnApproval(b, k, c) ==
  LET after == StatusOnApproval(b, k, c.slot) IN
  IF b.terms.mode \in {"OneForAll", "DifferentTasks"} /\ after # "ManyClaimed"
  THEN [c EXCEPT !.status = "ReadyToStart"]
  ELSE [c EXCEPT !.status = ApprovedStatus(b),
                 !.start_time = IF after \in Running THEN now ELSE @]

(* c is the claim record of k before the approval, stored or just made.    *)
ApproveClaimant(k, c, delayed) ==
  LET b == bounties[k[1]]
      started == [status |-> ApprovedStatus(b), start_time |-> now]
  IN
  /\ TakesClaims(b, c.slot, now)
  /\ bounties' = [bounties EXCEPT ![k[1]] = BountyOnApproval(b, k, c.slot)]
  /\ claims' = [j \in ClaimKey |->
       IF j = k
       THEN [ClaimOnApproval(b, k, c) EXCEPT !.kyc_delayed = delayed]
       ELSE IF j \in Released(b, k, c.slot)
       THEN [claims[j] EXCEPT !.status = started.status,
                              !.start_time = started.start_time]
       ELSE claims[j]]

----------------------------------------------------------------------------
(* Creating a claim.                                                       *)

OpenStatuses_slip(mode) ==
  {"New", "Claimed", "ManyClaimed", "AwaitingClaims", "Completed"}

OpenStatuses(mode) ==
  CASE mode = "None" -> {"New"}
    [] mode = "OneForAll" -> {"New", "ManyClaimed", "AwaitingClaims"}
    [] OTHER -> {"New", "ManyClaimed"}

BlockingStatuses(mode) ==
  CASE mode = "None" -> {"New"}
    [] mode = "Contest" -> {"New", "Competes", "Completed", "NotHired"}
    [] mode = "OneForAll" -> {"New", "ReadyToStart"} \cup Active
    [] OTHER -> {"New", "ReadyToStart", "CompletedWithDispute"} \cup Active

(* The key a new claim of `who' on bounty id is stored under.              *)
NextKey(id, who) ==
  <<id, who, IF bounties[id].terms.many THEN NumberOfClaims(id, who) ELSE 0>>

MayCreateClaim(id, who, slot) ==    \* check_if_allowed_to_create_claim_by_status
  LET b == bounties[id] IN
  /\ slot \in (IF b.terms.mode = "DifferentTasks" THEN UsedPlaces(b) ELSE {Nil})
  /\ b.status \in OpenStatuses(b.terms.mode)
  /\ ~b.terms.many =>
       claims[<<id, who, 0>>].status \notin BlockingStatuses(b.terms.mode)
  /\ TakesClaims(b, slot, now)
  /\ NextKey(id, who) \in ClaimKey

(* internal_create_claim: the bond that is locked is the one configured    *)
(* now; `attached' is what came with this very call.                       *)
CreateClaim(k, deadline, slot, proposal, attached) ==
  LET c == [NoClaim EXCEPT !.status = "New", !.deadline = deadline,
                           !.slot = slot, !.bond = config.bond,
                           !.approve_proposal = proposal]
  IN
  /\ IF ApprovalRequired(k[2], bounties[k[1]].terms)
     THEN claims' = [claims EXCEPT ![k] = c] /\ UNCHANGED bounties
     ELSE ApproveClaimant(k, c, Nil)
  /\ bonds' = [bonds EXCEPT !.locked_amount = @ + config.bond,
                            !.near = @ + attached]

(* internal_add_proposal: the owner of the bounty has chosen what the DAO  *)
(* is sent with a proposal, and the contract pays it from its own NEAR.    *)
Propose(q, call, attached) ==
  LET cost == bounties[call.claim[1]].terms.proposal_bond IN
  /\ bonds.proposals + cost <= MaxNear
  /\ Send(q, call)
  /\ bonds' = [bonds EXCEPT !.near = @ + attached - cost,
                            !.proposals = @ + cost]

(* internal_add_proposal_and_create_claim                                  *)
ProposeOrCreateClaim(q, k, deadline, slot, attached) ==
  LET t == bounties[k[1]].terms IN
  IF t.dao /\ ApprovalRequired(k[2], t)
  THEN /\ Propose(q, [kind |-> "addClaimantProposal", claim |-> k,
                      deadline |-> deadline, slot |-> slot], attached)
       /\ UNCHANGED <<bounties, claims>>
  ELSE /\ CreateClaim(k, deadline, slot, FALSE, attached)
       /\ calls' = q

----------------------------------------------------------------------------
(* Money: what a payout, a refund or a withdrawal amounts to.              *)

Nothing == [pay |-> 0, fee |-> 0, dao |-> 0]

AmountsForPayment_slip(b, place) ==
  LET n == b.terms.slots
      slotOf(x) == IF b.paid_slots = n - 1 THEN x - (x \div n) * n
                                           ELSE x \div n
  IN  [pay |-> slotOf(b.amount), fee |-> slotOf(b.platform_fee),
       dao |-> slotOf(b.dao_fee)]

(* internal_get_bounty_amount_for_payment; the last of the slots of a      *)
(* OneForAll bounty takes what the division left over.                     *)
AmountsForPayment(b, place) ==
  LET n == b.terms.slots
      slotOf(x) == IF b.occupied_slots = 1 /\ b.paid_slots = n - 1
                   THEN x - (x \div n) * (n - 1) ELSE x \div n
  IN
  CASE b.terms.postpaid -> Nothing
    [] ~b.terms.postpaid /\ b.terms.mode = "OneForAll" ->
         [pay |-> slotOf(b.amount), fee |-> slotOf(b.platform_fee),
          dao |-> slotOf(b.dao_fee)]
    [] ~b.terms.postpaid /\ b.terms.mode = "Contest" ->
         [pay |-> b.terms.shares[place], fee |-> b.platform_fee \div n,
          dao |-> b.dao_fee \div n]
    [] OTHER ->
         [pay |-> b.amount, fee |-> b.platform_fee, dao |-> b.dao_fee]

(* What one subtask is paid, and what the subtasks of a set are paid       *)
(* together.                                                               *)
TaskPart(b, s) == (b.amount * b.terms.shares[s]) \div Whole
TaskParts(b, S) == MapThenSumSet(LAMBDA s : TaskPart(b, s), S)

(* internal_get_partial_amount: the last subtask to be withdrawn takes     *)
(* what the others have not.                                               *)
PartialAmount(k, slot) ==
  LET b == bounties[k[1]]
      vacant == {s \in UsedPlaces(b) : b.slots[s] = Nil}
  IN
  IF ClaimsOf(k[1], {"Completed", "CompletedWithDispute"}) \ {k} = {}
  THEN b.amount - TaskParts(b, vacant)
  ELSE TaskPart(b, slot)

AmountsToReturn_slip(b) ==
  [pay |-> b.amount, fee |-> b.platform_fee, dao |-> b.dao_fee]

(* internal_get_bounty_amount_to_return.  Its branch for a contest that    *)
(* awaits claims has no counterpart: no step gives a contest that status.  *)
AmountsToReturn(b) ==
  LET n == b.terms.slots
      rest(x) == IF b.terms.mode = "OneForAll" /\ b.status = "AwaitingClaims"
                 THEN (x \div n) * (n - b.paid_slots) ELSE x
  IN
  IF b.terms.postpaid THEN Nothing
  ELSE [pay |-> rest(b.amount), fee |-> rest(b.platform_fee),
        dao |-> rest(b.dao_fee)]

Penalty(fee, penalty_pct, pct) ==
  IF pct = 0 THEN 0 ELSE (fee * penalty_pct) \div pct

AmountToOwner(b) ==
  LET a == AmountsToReturn(b) IN
  a.pay + a.fee - Penalty(a.fee, config.penalty_platform_pct,
                          config.platform_pct)
        + a.dao - Penalty(a.dao, config.penalty_dao_pct, config.dao_pct)

(* What the owner gets is a u128, and so is each sum on the way to it:     *)
(* where a penalty exceeds it, the call panics.                            *)
Returnable(b) ==
  LET a == AmountsToReturn(b) IN
  /\ a.pay + a.fee - Penalty(a.fee, config.penalty_platform_pct,
                             config.platform_pct) \in Nat
  /\ AmountToOwner(b) \in Nat

LockedCovers_slip(a) == fees.balance >= a.fee /\ fees.dao_balance >= a.dao

(* assert_locked_amount_greater_than_or_equal_transaction_amount, which is *)
(* also when commission_unlocking does not underflow.                      *)
LockedCovers(a) == fees.locked >= a.fee /\ fees.dao_locked >= a.dao

CommissionUnlocked(a) ==
  [fees EXCEPT !.locked = @ - a.fee, !.dao_locked = @ - a.dao]

CommissionRefundable(a) ==
  LockedCovers(a) /\ fees.balance >= a.fee /\ fees.dao_balance >= a.dao

CommissionRefunded(a) ==
  [fees EXCEPT !.balance = @ - a.fee, !.locked = @ - a.fee,
               !.dao_balance = @ - a.dao, !.dao_locked = @ - a.dao]

----------------------------------------------------------------------------
(* Completing, paying out and cancelling.                                  *)

MayComplete_slip(id, k, amounts, place) ==
  LockedCovers(amounts) /\ bounties[id].status \in Running

(* When internal_bounty_completion does not panic.                         *)
MayComplete(id, k, amounts, place) ==
  LET b == bounties[id] IN
  /\ LockedCovers(amounts)
  /\ IF b.terms.mode = "DifferentTasks"
     THEN /\ k = Nil
          /\ b.status = "ManyClaimed"
          /\ AllSlotsComplete(id, Nil)
     ELSE /\ b.status \in Running
          /\ claims[k].status \in {"Completed", "Disputed"}
          /\ b.terms.mode = "Contest" /\ ~b.terms.postpaid
               => b.winners[place] = Nil

PaidBounty_slip(b, k, place) ==
  IF b.terms.mode = "Contest"
  THEN [b EXCEPT !.winners = [@ EXCEPT ![place] = k]]
  ELSE [b EXCEPT !.paid_slots = @ + 1]

PaidBounty(b, k, place) ==
  CASE b.terms.mode = "Contest" ->
         LET won == [b EXCEPT !.participants = @ - 1,
                              !.winners = IF b.terms.postpaid THEN @
                                          ELSE [@ EXCEPT ![place] = k]]
         IN  IF AllPrizePlacesTaken(won)
             THEN [won EXCEPT !.finished_at = now, !.status = "Completed"]
             ELSE won
    [] b.terms.mode = "OneForAll" ->
         [b EXCEPT !.occupied_slots = @ - 1, !.paid_slots = @ + 1,
                   !.status = IF b.occupied_slots # 1 THEN @
                              ELSE IF b.paid_slots + 1 = b.terms.slots
                              THEN "Completed" ELSE "AwaitingClaims"]
    [] OTHER -> [b EXCEPT !.status = "Completed"]

Complete(id, k, amounts, place) ==  \* internal_bounty_completion
  /\ fees' = CommissionUnlocked(amounts)
  /\ bounties' = [bounties EXCEPT ![id] = PaidBounty(@, k, place)]
  /\ IF k = Nil THEN UNCHANGED <<claims, bonds>>
                ELSE CloseClaim(k, "Approved", TRUE)

(* internal_bounty_payout: the reward of claim k, or of all subtasks when  *)
(* k is Nil.  Nothing is recorded while the transfer is out.               *)
Payout(q, id, k, place) ==
  LET b == bounties[id]
      amounts == AmountsForPayment(b, place)
  IN
  /\ place = Nil => b.terms.postpaid \/ b.terms.mode # "Contest"
  /\ LockedCovers(amounts)
  /\ IF b.terms.postpaid \/ b.terms.mode = "DifferentTasks"
     THEN /\ MayComplete(id, k, amounts, place)
          /\ Complete(id, k, amounts, place)
          /\ calls' = q
     ELSE /\ Send(q, [kind |-> "payout", id |-> id, claim |-> k,
                      amounts |-> amounts, place |-> place])
          /\ UNCHANGED <<bounties, claims, bonds, fees>>

Cancellation(id) ==                 \* internal_bounty_cancellation
  /\ fees' = CommissionRefunded(AmountsToReturn(bounties[id]))
  /\ bounties' = [bounties EXCEPT ![id].status =
       IF @ = "AwaitingClaims" THEN "PartiallyCompleted" ELSE "Canceled"]

SlotFinalize(k, slot) ==            \* internal_slot_finalize
  /\ bounties' = [bounties EXCEPT ![k[1]] = ResetSlot(@, slot)]
  /\ CloseClaim(k, "Approved", TRUE)

(* internal_reject_claim: the claimant may open a dispute, where disputes  *)
(* are possible, before the claim is given up.                             *)
RejectClaim(k) ==
  LET t == bounties[k[1]].terms IN
  IF HasDisputes /\ ~t.postpaid /\ t.mode # "Contest"
  THEN /\ claims' = [claims EXCEPT ![k].status = "Rejected",
                                   ![k].rejected_at = now]
       /\ UNCHANGED <<bounties, bonds>>
  ELSE ResetBounty(k, "NotCompleted", TRUE)

ReturnedAfterDispute(k) ==          \* internal_claim_return_after_dispute
  /\ claims' = [claims EXCEPT ![k].status = "CompletedWithDispute"]
  /\ UNCHANGED <<bounties, bonds, fees>>

(* The end of a dispute, told by the dispute contract or asked of it.      *)
SettleDispute(q, k, success) ==
  IF ~success
  THEN /\ ResetBounty(k, "NotCompleted", TRUE)
       /\ calls' = q
       /\ UNCHANGED fees
  ELSE IF bounties[k[1]].terms.mode = "DifferentTasks"
  THEN ReturnedAfterDispute(k) /\ calls' = q
  ELSE Payout(q, k[1], k, Nil)

----------------------------------------------------------------------------
(* The administrator, and the owners' calls.                               *)

Tick ==
  /\ now < MaxTime
  /\ now' = now + 1
  /\ UNCHANGED <<config, bounties, claims, bonds, fees, tokens, calls>>

change_config ==
  /\ config' \in Configs \ {config}
  /\ UNCHANGED <<now, bounties, claims, bonds, fees, tokens, calls>>

(* internal_create_bounty: bounties get their indices in order.            *)
AddBounty(id, t) ==
  LET b == NewBounty(t, config) IN
  /\ bounties[id].status = "Absent"
  /\ \A other \in BountyId : other < id => bounties[other].status # "Absent"
  /\ ValidTerms(t, b.amount, now)
  /\ bounties' = [bounties EXCEPT ![id] = b]
  /\ fees' = [fees EXCEPT !.balance = @ + b.platform_fee,
                          !.locked = @ + b.platform_fee,
                          !.dao_balance = @ + b.dao_fee,
                          !.dao_locked = @ + b.dao_fee]
  /\ UNCHANGED <<now, config, claims, bonds, paid, refunded, calls>>

ft_on_transfer(id, t) ==            \* the deposit arrives with the terms
  ~t.postpaid /\ AddBounty(id, t) /\ held' = held + t.deposit

bounty_create(id, t) ==             \* payment outside the contract
  t.postpaid /\ AddBounty(id, t) /\ UNCHANGED held

bounty_cancel(id) ==
  LET b == bounties[id] IN
  /\ b.status \in {"New", "AwaitingClaims"}
  /\ Returnable(b)
  /\ LockedCovers(AmountsToReturn(b))
  /\ IF AmountToOwner(b) = 0
     THEN /\ CommissionRefundable(AmountsToReturn(b))
          /\ Cancellation(id)
          /\ UNCHANGED calls
     ELSE /\ Send(calls, [kind |-> "refund", id |-> id,
                          amount |-> AmountToOwner(b)])
          /\ UNCHANGED <<bounties, fees>>
  /\ UNCHANGED <<now, config, claims, bonds, tokens>>

(* The claims that keep an owner from changing what was agreed, and those  *)
(* of them whose claimant is already hired.                                *)
HiredStatuses(b) ==
  {"InProgress", "Competes", "ReadyToStart"}
    \cup (IF b.terms.mode = "Contest" /\ b.status = "New"
          THEN {"Completed"} ELSE {})
AgreedStatuses(b) == HiredStatuses(b) \cup {"New"}

UpdatedTerms(t, u) ==
  CASE u.field = "approval" -> [t EXCEPT !.approval = u.approval,
                                         !.whitelist = u.whitelist]
    [] u.field = "deadline" -> [t EXCEPT !.deadline_type = u.deadline_type,
                                         !.deadline = u.deadline]
    [] u.field = "reviewers" -> [t EXCEPT !.reviewers = u.reviewers]
    [] u.field = "amount" -> t

Bargained(id) == ClaimsOf(id, AgreedStatuses(bounties[id])) # {}

ApprovalUpdatable_slip(id, u) ==
  \/ ~Bargained(id) /\ bounties[id].status = "New"
  \/ u.approval = bounties[id].terms.approval

(* Another way to approve claimants as long as nobody has claimed, another *)
(* whitelist as long as those who are hired stay on it.                    *)
ApprovalUpdatable(id, u) ==
  LET b == bounties[id] IN
  /\ \/ ~Bargained(id) /\ b.status = "New"
     \/ /\ u.approval = b.terms.approval
        /\ u.approval \in {"ApprovalByWhitelist", "WhitelistWithApprovals"}
  /\ u.approval = "ApprovalByWhitelist" =>
       \A k \in ClaimsOf(id, HiredStatuses(b)) : k[2] \in u.whitelist

DeadlineUpdatable_slip(id, u) ==
  Bargained(id) => bounties[id].terms.deadline_type # "WithoutDeadline"

(* A later deadline, or none, once somebody has claimed.                   *)
DeadlineUpdatable(id, u) ==
  LET t == bounties[id].terms IN
  Bargained(id) =>
    /\ t.deadline_type # "WithoutDeadline"
    /\ u.deadline_type # "WithoutDeadline" =>
         u.deadline_type = t.deadline_type /\ u.deadline > t.deadline

UpdateAllowed(id, u) ==
  LET b == bounties[id] IN
  CASE u.field = "approval" -> ApprovalUpdatable(id, u)
    [] u.field = "deadline" -> DeadlineUpdatable(id, u)
    [] u.field = "reviewers" ->
         /\ b.status = "New" /\ ~b.terms.dao
         /\ u.reviewers # b.terms.reviewers
    [] u.field = "amount" ->
         /\ u.amount > 0
         /\ b.terms.postpaid /\ b.terms.mode = "None"
         /\ ~b.payment_at

bounty_update(id, u) ==             \* one field of the bounty in each call
  LET b == bounties[id]
      terms == UpdatedTerms(b.terms, u)
      amount == IF u.field = "amount" THEN u.amount ELSE b.amount
  IN
  /\ b.status \in {"New", "Claimed", "ManyClaimed", "AwaitingClaims"}
  /\ UpdateAllowed(id, u)
  /\ ValidTerms(terms, amount, now)
  /\ bounties' = [bounties EXCEPT ![id].terms = terms, ![id].amount = amount]
  /\ UNCHANGED <<now, config, claims, bonds, fees, tokens, calls>>

extend_claim_deadline(k, deadline) ==
  LET b == bounties[k[1]]
      c == claims[k]
  IN
  /\ b.terms.flow = "AdvancedFlow"
  /\ b.status \in Running
  /\ c.status \in {"InProgress", "Competes"}
  /\ c.deadline # Nil /\ deadline # Nil
  /\ DeadlineCorrect(b.terms, deadline, now)
  /\ deadline > c.deadline
  /\ claims' = [claims EXCEPT ![k].deadline = deadline]
  /\ UNCHANGED <<now, config, bounties, bonds, fees, tokens, calls>>

start_competition(id) ==
  LET b == bounties[id] IN
  /\ b.status = "New"
  /\ b.terms.mode = "Contest" /\ b.terms.start = "ManuallyStart"
  /\ b.terms.window = "Date" => now > b.terms.window_end
  /\ ~HasCompetitionStarted(b)
  /\ b.participants > 1
  /\ bounties' = [bounties EXCEPT ![id].started_at = now,
                                  ![id].finished_at = Nil,
                                  ![id].status = "ManyClaimed"]
  /\ UNCHANGED <<now, config, claims, bonds, fees, tokens, calls>>

----------------------------------------------------------------------------
(* The claimants' calls; the claimant of k is k[2].                        *)

bounty_claim(who, id, deadline, slot) ==
  LET t == bounties[id].terms
      k == NextKey(id, who)
  IN
  /\ bonds.near + bonds.proposals + config.bond <= MaxNear
  /\ MayCreateClaim(id, who, slot)
  /\ DeadlineCorrect(t, deadline, now)
  /\ ~IsOwnerOrReviewer(who, t)
  /\ MayClaim(who, t)
  /\ IF t.kyc = "WhenCreatingClaim"
     THEN /\ Send(calls, [kind |-> "kyc", claim |-> k,
                          place |-> "CreatingClaim", deadline |-> deadline,
                          slot |-> slot, delayed |-> Nil])
          /\ bonds' = [bonds EXCEPT !.near = @ + config.bond]
          /\ UNCHANGED <<bounties, claims>>
     ELSE ProposeOrCreateClaim(calls, k, deadline, slot, config.bond)
  /\ UNCHANGED <<now, config, fees, tokens>>

(* internal_claim_done                                                     *)
ClaimDone(k, proposal) ==
  LET b == bounties[k[1]]
      c == claims[k]
      isTask == b.terms.mode = "DifferentTasks"
  IN
  /\ b.status \in Running
  /\ c.status \in {"InProgress", "Competes"}
  /\ claims' = [claims EXCEPT
       ![k].status = "Completed",
       ![k].payout_proposal = IF isTask THEN @ ELSE proposal]
  /\ IF isTask
     THEN bounties' = [bounties EXCEPT
            ![k[1]].completed = @ \cup {c.slot},
            ![k[1]].proposal_id = @ \/ proposal]
     ELSE UNCHANGED bounties

(* internal_add_proposal_and_update_claim                                  *)
ProposeOrFinish(q, k) ==
  LET b == bounties[k[1]] IN
  IF /\ b.terms.dao
     /\ \/ b.terms.mode \in {"None", "OneForAll"}
        \/ /\ b.terms.mode = "DifferentTasks"
           /\ AllSlotsComplete(k[1], k)
           /\ ~b.proposal_id
  THEN /\ Propose(q, [kind |-> "addPayoutProposal", claim |-> k], 0)
       /\ UNCHANGED <<bounties, claims>>
  ELSE ClaimDone(k, FALSE) /\ calls' = q /\ UNCHANGED bonds

KycAtDone(k) ==                     \* is_kyc_check_required(.., ClaimDone)
  LET t == bounties[k[1]].terms IN
  /\ t.kyc = "DuringClaimApproval"
  /\ claims[k].kyc_delayed = "BeforeDeadline" \/ ~ApprovalRequired(k[2], t)

bounty_done(k) ==
  LET b == bounties[k[1]]
      c == claims[k]
  IN
  /\ b.terms.flow = "AdvancedFlow"
  /\ \/ b.status \in Running
     \/ b.status = "Completed" /\ b.terms.mode = "Contest"
  /\ c.status \in {"InProgress", "Competes"}
  /\ \/ /\ IsExpired(c, b, now)
        /\ ResetBounty(k, "Expired", FALSE)
        /\ UNCHANGED calls
     \/ /\ ~IsExpired(c, b, now)
        /\ b.status = "Completed" /\ c.status = "Competes"
        /\ bounties' = [bounties EXCEPT ![k[1]] = Left(@, k)]
        /\ CloseClaim(k, "NotCompleted", TRUE)
        /\ UNCHANGED calls
     \/ /\ ~IsExpired(c, b, now)
        /\ b.status # "Completed"
        /\ KycAtDone(k)
        /\ Send(calls, [kind |-> "kyc", claim |-> k, place |-> "ClaimDone",
                        deadline |-> Nil, slot |-> Nil, delayed |-> Nil])
        /\ UNCHANGED <<bounties, claims, bonds>>
     \/ /\ ~IsExpired(c, b, now)
        /\ b.status # "Completed"
        /\ ~KycAtDone(k)
        /\ ProposeOrFinish(calls, k)
  /\ UNCHANGED <<now, config, fees, tokens>>

bounty_give_up(k) ==
  LET b == bounties[k[1]]
      c == claims[k]
      working == \/ c.status = "InProgress"
                 \/ c.status = "Competes" /\ b.status = "ManyClaimed"
  IN
  /\ \/ c.status \in {"New", "InProgress", "Competes", "ReadyToStart"}
     \/ /\ c.status = "Completed" /\ b.terms.mode = "Contest"
        /\ b.status \in {"New", "Canceled"}
  /\ IF working
     THEN ResetBounty(k, "Canceled",
                      now - StartTime(c, b) <= config.forgiveness)
     ELSE /\ bounties' = IF c.status = "New" THEN bounties
                         ELSE [bounties EXCEPT ![k[1]] = Left(@, k)]
          /\ CloseClaim(k, "Canceled", TRUE)
  /\ UNCHANGED <<now, config, fees, tokens, calls>>

withdraw(k) ==
  LET b == bounties[k[1]]
      slot == claims[k].slot
  IN
  /\ b.terms.mode = "DifferentTasks" /\ b.status = "Completed"
  /\ claims[k].status \in {"Completed", "CompletedWithDispute"}
  /\ b.slots[slot] # Nil /\ b.slots[slot][2] = k[2]
  /\ IF b.terms.postpaid
     THEN SlotFinalize(k, slot) /\ UNCHANGED calls
     ELSE /\ PartialAmount(k, slot) \in Nat     \* a u128
          /\ Send(calls, [kind |-> "withdraw", claim |-> k, slot |-> slot,
                          amount |-> PartialAmount(k, slot)])
          /\ UNCHANGED <<bounties, claims, bonds>>
  /\ UNCHANGED <<now, config, fees, tokens>>

open_dispute(k) ==
  /\ HasDisputes
  /\ bounties[k[1]].status \in Running
  /\ claims[k].status = "Rejected"
  /\ now <= claims[k].rejected_at + config.dispute_period
  /\ Send(calls, [kind |-> "createDispute", claim |-> k])
  /\ UNCHANGED <<now, config, bounties, claims, bonds, fees, tokens>>

----------------------------------------------------------------------------
(* Payment outside the contract: the owner says it was made, the claimant  *)
(* confirms it.  internal_get_payment_timestamps says where that is kept.  *)

PaymentMade(b, c) ==
  IF b.terms.mode = "None" THEN b.payment_at ELSE c.payment_at
PaymentConfirmed(b, c) ==
  IF b.terms.mode = "None" THEN b.payment_confirmed_at
                           ELSE c.payment_confirmed_at

PostpaidReady_slip(k) ==
  bounties[k[1]].terms.postpaid => PaymentMade(bounties[k[1]], claims[k])

(* assert_postpaid_is_ready for an approval                                *)
PostpaidReady(k) ==
  LET b == bounties[k[1]] IN
  b.terms.postpaid =>
    PaymentMade(b, claims[k]) /\ PaymentConfirmed(b, claims[k])

Payable(k) ==
  /\ bounties[k[1]].terms.postpaid
  /\ bounties[k[1]].status \in Running
  /\ claims[k].status \in {"Completed", "CompletedWithDispute"}

mark_as_paid(k, place) ==
  LET b == bounties[k[1]] IN
  /\ Payable(k)
  /\ ~PaymentMade(b, claims[k])
  /\ b.terms.mode = "Contest" => b.winners[place] = Nil
  /\ bounties' =
       CASE b.terms.mode = "None" -> [bounties EXCEPT ![k[1]].payment_at = TRUE]
         [] b.terms.mode = "Contest" ->
              [bounties EXCEPT ![k[1]].winners[place] = k]
         [] OTHER -> bounties
  /\ claims' = IF b.terms.mode = "None" THEN claims
               ELSE [claims EXCEPT ![k].payment_at = TRUE]
  /\ UNCHANGED <<now, config, bonds, fees, tokens, calls>>

confirm_payment(k) ==
  LET b == bounties[k[1]] IN
  /\ Payable(k)
  /\ PaymentMade(b, claims[k]) /\ ~PaymentConfirmed(b, claims[k])
  /\ b.terms.mode = "Contest" => \E p \in UsedPlaces(b) : b.winners[p] = k
  /\ bounties' =
       CASE b.terms.mode = "None" ->
              [bounties EXCEPT ![k[1]].payment_confirmed_at = TRUE]
         [] b.terms.mode = "DifferentTasks" ->
              [bounties EXCEPT ![k[1]].confirmed = @ \cup {claims[k].slot}]
         [] OTHER -> bounties
  /\ claims' = IF b.terms.mode = "None" THEN claims
               ELSE [claims EXCEPT ![k].payment_confirmed_at = TRUE]
  /\ UNCHANGED <<now, config, bonds, fees, tokens, calls>>

----------------------------------------------------------------------------
(* Decisions of the owner, a reviewer or the validators DAO.               *)

(* check_if_allowed_to_approve_claim_by_status                             *)
MayDecide(k) ==
  LET b == bounties[k[1]] IN
  /\ claims[k].status = "New"
  /\ b.status \in OpenStatuses(b.terms.mode)
  /\ TakesClaims(b, claims[k].slot, now)

DeclineClaimant(k) ==               \* internal_rejection_and_save_claim
  MayDecide(k) /\ CloseClaim(k, "NotHired", TRUE) /\ UNCHANGED bounties

(* `delayed' is kyc_postponed: it matters only where KYC is checked here.  *)
accept_claimant(sender, k, delayed) ==
  LET t == bounties[k[1]].terms IN
  /\ MayDecide(k)
  /\ IsManager(sender, t)
  /\ t.flow = "AdvancedFlow"
  /\ DeadlineCorrect(t, claims[k].deadline, now)
  /\ delayed # Nil => t.kyc = "DuringClaimApproval"
  /\ IF t.kyc = "DuringClaimApproval" /\ delayed = Nil
     THEN /\ Send(calls, [kind |-> "kyc", claim |-> k,
                          place |-> "DecisionOnClaim", deadline |-> Nil,
                          slot |-> Nil, delayed |-> Nil])
          /\ UNCHANGED <<bounties, claims>>
     ELSE ApproveClaimant(k, claims[k], delayed) /\ UNCHANGED calls
  /\ UNCHANGED <<now, config, bonds, fees, tokens>>

decline_claimant(sender, k) ==
  /\ IsManager(sender, bounties[k[1]].terms)
  /\ bounties[k[1]].terms.flow = "AdvancedFlow"
  /\ DeclineClaimant(k)
  /\ UNCHANGED <<now, config, fees, tokens, calls>>

(* assert_multitasking_requirements: what a contest asks of its winners.   *)
MayWin(k, place) ==
  LET b == bounties[k[1]] IN
  /\ b.terms.deadline_type = "DueDate" => now > b.terms.deadline
  /\ HasCompetitionStarted(b)
  /\ Cardinality(ClaimsOf(k[1], {"Completed"})) >= b.terms.successful
  /\ b.winners[place] = IF b.terms.postpaid THEN k ELSE Nil

bounty_approve(sender, k, place) ==
  LET b == bounties[k[1]] IN
  /\ b.status \in Running
  /\ IsManager(sender, b.terms)
  /\ claims[k].status = "Completed"
  /\ PostpaidReady(k)
  /\ b.terms.mode # "DifferentTasks"
  /\ (place # Nil) <=> (b.terms.mode = "Contest")
  /\ b.terms.mode = "Contest" => MayWin(k, place)
  /\ Payout(calls, k[1], k, place)
  /\ UNCHANGED <<now, config, tokens>>

MayReject_slip(sender, k) ==
  /\ bounties[k[1]].status \in Running
  /\ IsManager(sender, bounties[k[1]].terms)
  /\ claims[k].status = "Completed"

MayReject(sender, k) ==
  LET b == bounties[k[1]] IN
  /\ b.status \in Running
  /\ IsManager(sender, b.terms)
  /\ claims[k].status = "Completed"
  /\ b.terms.postpaid => ~PaymentMade(b, claims[k])

bounty_reject(sender, k) ==
  /\ MayReject(sender, k)
  /\ RejectClaim(k)
  /\ UNCHANGED <<now, config, fees, tokens, calls>>

bounty_approve_of_several(sender, id) ==
  LET b == bounties[id] IN
  /\ b.status \in Running
  /\ IsManager(sender, b.terms)
  /\ b.terms.mode = "DifferentTasks"
  /\ AllSlotsComplete(id, Nil)
  /\ b.terms.postpaid => UsedPlaces(b) \subseteq b.confirmed
  /\ Payout(calls, id, Nil, Nil)
  /\ UNCHANGED <<now, config, tokens>>

----------------------------------------------------------------------------
(* bounty_finalize, which anybody may call.                                *)

AskPayoutProposal(id, k) ==
  /\ Send(calls, [kind |-> "checkPayoutProposal", id |-> id, claim |-> k])
  /\ UNCHANGED <<bounties, claims, bonds>>

TasksProposed(id) ==
  LET b == bounties[id] IN
  b.terms.mode = "DifferentTasks" /\ AllSlotsComplete(id, Nil) /\ b.proposal_id

Overdue(k) ==
  LET b == bounties[k[1]] IN
  /\ claims[k].status \in {"InProgress", "Competes"}
  /\ \/ b.status \in Running
     \/ b.status = "Completed" /\ b.terms.mode = "Contest"
  /\ IsExpired(claims[k], b, now)

AwaitsDao(k) ==
  LET b == bounties[k[1]] IN
  /\ b.status \in Running /\ b.terms.dao
  /\ \/ claims[k].status = "Completed" /\ b.terms.mode # "DifferentTasks"
     \/ TasksProposed(k[1])

(* internal_finalize_active_claim.  Without a claimant named, the active   *)
(* claim of a bounty for one claimant is meant.                            *)
FinalizeActive(k) ==
  LET b == bounties[k[1]]
      c == claims[k]
      isTask == b.terms.mode = "DifferentTasks"
  IN
  /\ IF b.terms.mode = "None" THEN c.status \in Active
                              ELSE c.status # "Absent"
  /\ \/ /\ Overdue(k)
        /\ ResetBounty(k, "Expired", FALSE)
        /\ UNCHANGED calls
     \/ /\ ~Overdue(k) /\ AwaitsDao(k)
        /\ isTask \/ c.payout_proposal
        /\ AskPayoutProposal(k[1], IF isTask THEN Nil ELSE k)
     \/ /\ ~AwaitsDao(k)
        /\ b.status \in Running /\ c.status = "Rejected"
        /\ now > c.rejected_at + config.dispute_period
        /\ ResetBounty(k, "NotCompleted", TRUE)
        /\ UNCHANGED calls
     \/ /\ ~AwaitsDao(k)
        /\ b.status \in Running /\ c.status = "Disputed"
        /\ Send(calls, [kind |-> "getDispute", claim |-> k])
        /\ UNCHANGED <<bounties, claims, bonds>>

(* The rest of internal_finalize_some_claim: what is left of a bounty that *)
(* is over, or a claimant proposal whose vote may have ended.              *)
FinalizeInactive(k) ==
  LET b == bounties[k[1]]
      c == claims[k]
      over == {"Completed", "Canceled", "PartiallyCompleted"}
  IN
  \/ /\ c.status = "New" /\ b.status = "New" /\ b.terms.dao
     /\ c.approve_proposal
     /\ Send(calls, [kind |-> "checkClaimantProposal", claim |-> k])
     /\ UNCHANGED <<bounties, claims, bonds>>
  \/ /\ c.status = "New" /\ b.status \in over
     /\ CloseClaim(k, "Canceled", TRUE)
     /\ UNCHANGED <<bounties, calls>>
  \/ /\ ~Overdue(k)
     /\ \/ /\ b.status \in {"Completed", "Canceled"}
           /\ c.status \in {"Competes", "Completed"}
           /\ b.terms.mode = "Contest"
        \/ /\ b.status = "Canceled"
           /\ c.status = "ReadyToStart"
     /\ bounties' = [bounties EXCEPT ![k[1]] = Left(@, k)]
     /\ CloseClaim(k, IF b.status = "Canceled" THEN "Canceled"
                                               ELSE "NotCompleted", TRUE)
     /\ UNCHANGED calls

bounty_finalize_slip(k) ==
  FinalizeInactive(k) /\ UNCHANGED <<now, config, fees, tokens>>
bounty_finalize_slip2(k) ==
  FinalizeActive(k) /\ UNCHANGED <<now, config, fees, tokens>>

bounty_finalize(k) ==
  /\ FinalizeActive(k) \/ FinalizeInactive(k)
  /\ UNCHANGED <<now, config, fees, tokens>>

bounty_finalize_all(id) ==          \* no claimant named, DifferentTasks
  /\ bounties[id].status = "ManyClaimed" /\ bounties[id].terms.dao
  /\ TasksProposed(id)
  /\ AskPayoutProposal(id, Nil)
  /\ UNCHANGED <<now, config, fees, tokens>>

----------------------------------------------------------------------------
(* The dispute contract's call, and the recipient of the fees.             *)

dispute_result(k, success) ==
  /\ HasDisputes
  /\ bounties[k[1]].status \in Running
  /\ claims[k].status = "Disputed"
  /\ SettleDispute(calls, k, success)
  /\ UNCHANGED <<now, config, tokens>>

SendFees(available, platform) ==
  /\ available > 0
  /\ Send(calls, [kind |-> "fees", amount |-> available,
                  platform |-> platform])
  /\ UNCHANGED <<now, config, bounties, claims, bonds, fees, tokens>>

withdraw_platform_fee == SendFees(fees.balance - fees.locked, TRUE)

withdraw_validators_dao_fee ==
  SendFees(fees.dao_balance - fees.dao_locked, FALSE)

withdraw_non_refunded_bonds ==
  /\ bonds.unlocked_amount > 0
  /\ bonds' = [bonds EXCEPT !.unlocked_amount = 0,
                            !.near = @ - bonds.unlocked_amount]
  /\ UNCHANGED <<now, config, bounties, claims, fees, tokens, calls>>

(* What a proposal on bounty id took comes back to the contract: the DAO   *)
(* did not store the proposal, or it has ended the vote.  It need not: a   *)
(* DAO keeps the bond of a proposal that is removed.                       *)
return_proposal_bond(id) ==
  LET cost == bounties[id].terms.proposal_bond IN
  /\ bounties[id].terms.dao /\ cost > 0
  /\ bonds.proposals >= cost
  /\ bonds' = [bonds EXCEPT !.near = @ + cost, !.proposals = @ - cost]
  /\ UNCHANGED <<now, config, bounties, claims, fees, tokens, calls>>

----------------------------------------------------------------------------
(* The answers to promises.  Each handler below is the answer that lets    *)
(* the callback act; every promise may also be dropped (Drop): the call    *)
(* fails, the answer is the wrong one, or the callback panics.             *)

(* A token transfer.  The tokens have moved when the callback runs: if it  *)
(* panics then, they stay where they went.                                 *)
Transferred(amount) == amount <= held /\ held' = held - amount

after_ft_transfer(i) ==
  LET call == calls[i] IN
  /\ call.kind = "payout"
  /\ Transferred(call.amounts.pay)
  /\ paid' = [paid EXCEPT ![call.claim] = @ + call.amounts.pay]
  /\ calls' = Answered(i)
  /\ IF MayComplete(call.id, call.claim, call.amounts, call.place)
     THEN Complete(call.id, call.claim, call.amounts, call.place)
     ELSE UNCHANGED <<bounties, claims, bonds, fees>>
  /\ UNCHANGED <<now, config, refunded>>

after_bounty_withdraw(i) ==
  LET call == calls[i] IN
  /\ call.kind = "withdraw"
  /\ Transferred(call.amount)
  /\ paid' = [paid EXCEPT ![call.claim] = @ + call.amount]
  /\ calls' = Answered(i)
  /\ IF claims[call.claim].status \in {"Completed", "CompletedWithDispute"}
     THEN SlotFinalize(call.claim, call.slot)
     ELSE UNCHANGED <<bounties, claims, bonds>>
  /\ UNCHANGED <<now, config, fees, refunded>>

after_refund_bounty_amount(i) ==
  LET call == calls[i] IN
  /\ call.kind = "refund"
  /\ Transferred(call.amount)
  /\ refunded' = [refunded EXCEPT ![call.id] = @ + call.amount]
  /\ calls' = Answered(i)
  /\ IF /\ Returnable(bounties[call.id])
        /\ CommissionRefundable(AmountsToReturn(bounties[call.id]))
     THEN Cancellation(call.id)
     ELSE UNCHANGED <<bounties, fees>>
  /\ UNCHANGED <<now, config, claims, bonds, paid>>

after_fees_payout(i) ==
  LET call == calls[i]
      left == IF call.platform
              THEN [fees EXCEPT !.balance = @ - call.amount]
              ELSE [fees EXCEPT !.dao_balance = @ - call.amount]
  IN
  /\ call.kind = "fees"
  /\ Transferred(call.amount)
  /\ fees' = IF left.balance >= 0 /\ left.dao_balance >= 0 THEN left ELSE fees
  /\ calls' = Answered(i)
  /\ UNCHANGED <<now, config, bounties, claims, bonds, paid, refunded>>

(* The KYC whitelist contract says that the claimant is whitelisted.       *)
after_check_if_whitelisted(i) ==
  LET call == calls[i]
      k == call.claim
  IN
  /\ call.kind = "kyc"
  /\ \/ /\ call.place = "CreatingClaim"
        /\ NextKey(k[1], k[2]) \in ClaimKey
        /\ \/ /\ bounties[k[1]].terms.dao
              /\ ApprovalRequired(k[2], bounties[k[1]].terms)
           \/ MayCreateClaim(k[1], k[2], call.slot)
        /\ ProposeOrCreateClaim(Answered(i), NextKey(k[1], k[2]),
                                call.deadline, call.slot, 0)
     \/ /\ call.place = "DecisionOnClaim"
        /\ MayDecide(k)
        /\ ApproveClaimant(k, claims[k], call.delayed)
        /\ calls' = Answered(i)
        /\ UNCHANGED bonds
     \/ /\ call.place = "ClaimDone"
        /\ ProposeOrFinish(Answered(i), k)
  /\ UNCHANGED <<now, config, fees, tokens>>

(* The validators DAO has stored the proposal to approve the claimant.     *)
after_add_proposal(i) ==
  LET call == calls[i]
      id == call.claim[1]
      who == call.claim[2]
  IN
  /\ call.kind = "addClaimantProposal"
  /\ MayCreateClaim(id, who, call.slot)
  /\ CreateClaim(NextKey(id, who), call.deadline, call.slot, TRUE, 0)
  /\ calls' = Answered(i)
  /\ UNCHANGED <<now, config, fees, tokens>>

(* The validators DAO has stored the proposal to pay the bounty out.       *)
on_added_proposal_callback(i) ==
  /\ calls[i].kind = "addPayoutProposal"
  /\ ClaimDone(calls[i].claim, TRUE)
  /\ calls' = Answered(i)
  /\ UNCHANGED <<now, config, bonds, fees, tokens>>

(* The vote on a claimant has ended.                                       *)
after_check_approve_claimant_proposal(i, approved) ==
  LET k == calls[i].claim IN
  /\ calls[i].kind = "checkClaimantProposal"
  /\ IF approved
     THEN MayDecide(k) /\ ApproveClaimant(k, claims[k], Nil) /\ UNCHANGED bonds
     ELSE DeclineClaimant(k)
  /\ calls' = Answered(i)
  /\ UNCHANGED <<now, config, fees, tokens>>

(* The vote on a payout has ended; a bounty of several tasks is only ever  *)
(* approved, a rejected vote on it is not processed.                       *)
after_check_bounty_payout_proposal(i, approved) ==
  LET call == calls[i] IN
  /\ call.kind = "checkPayoutProposal"
  /\ IF call.claim = Nil
     THEN bounties[call.id].status = "ManyClaimed" /\ approved
     ELSE /\ bounties[call.id].status \in Running
          /\ claims[call.claim].status = "Completed"
  /\ IF approved
     THEN Payout(Answered(i), call.id, call.claim, Nil)
     ELSE /\ RejectClaim(call.claim)
          /\ calls' = Answered(i)
          /\ UNCHANGED fees
  /\ UNCHANGED <<now, config, tokens>>

after_create_dispute(i) ==
  LET k == calls[i].claim IN
  /\ calls[i].kind = "createDispute"
  /\ bounties[k[1]].status \in Running
  /\ claims[k].status = "Rejected"
  /\ claims' = [claims EXCEPT ![k].status = "Disputed"]
  /\ calls' = Answered(i)
  /\ UNCHANGED <<now, config, bounties, bonds, fees, tokens>>

(* The dispute contract says that the dispute has ended.                   *)
after_get_dispute(i, success) ==
  LET k == calls[i].claim IN
  /\ calls[i].kind = "getDispute"
  /\ bounties[k[1]].status \in Running
  /\ claims[k].status = "Disputed"
  /\ SettleDispute(Answered(i), k, success)
  /\ UNCHANGED <<now, config, tokens>>

----------------------------------------------------------------------------
Answer(i) ==
  \/ Drop(i)
  \/ after_ft_transfer(i)
  \/ after_bounty_withdraw(i)
  \/ after_refund_bounty_amount(i)
  \/ after_fees_payout(i)
  \/ after_check_if_whitelisted(i)
  \/ after_add_proposal(i)
  \/ on_added_proposal_callback(i)
  \/ \E approved \in BOOLEAN :
        \/ after_check_approve_claimant_proposal(i, approved)
        \/ after_check_bounty_payout_proposal(i, approved)
        \/ after_get_dispute(i, approved)
  \/ after_create_dispute(i)

OnBounty(id) ==
  \/ \E t \in Offers : ft_on_transfer(id, t) \/ bounty_create(id, t)
  \/ bounty_cancel(id)
  \/ start_competition(id)
  \/ \E u \in Updates : bounty_update(id, u)
  \/ \E who \in Claimants, deadline \in Deadlines, slot \in Places \cup {Nil} :
        bounty_claim(who, id, deadline, slot)
  \/ \E sender \in Accounts : bounty_approve_of_several(sender, id)
  \/ bounty_finalize_all(id)
  \/ return_proposal_bond(id)

ClaimCall(k) ==                      \* the accounts' calls about a claim
  \/ bounty_done(k)
  \/ bounty_give_up(k)
  \/ withdraw(k)
  \/ open_dispute(k)
  \/ \E deadline \in Deadlines : extend_claim_deadline(k, deadline)
  \/ \E place \in UsedPlaces(bounties[k[1]]) : mark_as_paid(k, place)
  \/ confirm_payment(k)
  \/ bounty_finalize(k)
  \/ \E sender \in Accounts :
        \/ \E delayed \in Deferments \cup {Nil} :
              accept_claimant(sender, k, delayed)
        \/ decline_claimant(sender, k)
        \/ \E place \in UsedPlaces(bounties[k[1]]) \cup {Nil} :
              bounty_approve(sender, k, place)
        \/ bounty_reject(sender, k)

OnClaim(k) ==
  ClaimCall(k) \/ \E success \in BOOLEAN : dispute_result(k, success)

Next ==
  \/ Tick
  \/ change_config
  \/ \E id \in BountyId : OnBounty(id)
  \/ \E k \in ClaimKey : OnClaim(k)
  \/ withdraw_platform_fee
  \/ withdraw_validators_dao_fee
  \/ withdraw_non_refunded_bonds
  \/ \E i \in 1 .. Len(calls) : Answer(i)

Spec == Init /\ [][Next]_vars

============================================================================
