--------------------------- MODULE BountiesSafety ---------------------------
(***************************************************************************)
(* What the bounties contract promises.  The invariants relate the two     *)
(* records the contract keeps of the same fact (a bounty's status or       *)
(* counters and the statuses of its claims; the bonds that are locked and  *)
(* the claims they belong to; the tokens held and what is owed), which     *)
(* every handler has to move together and no handler reads back.           *)
(***************************************************************************)
EXTENDS Bounties

(* The type of the state.                                                  *)
TypeOK ==
  /\ now \in Nat
  /\ config \in Config
  /\ bounties \in [BountyId -> Bounty]
  /\ claims \in [ClaimKey -> Claim]
  /\ bonds \in BondAccounts
  /\ fees \in [balance: Nat, locked: Nat, dao_balance: Nat, dao_locked: Nat]
  /\ held \in Nat
  /\ paid \in [ClaimKey -> Int]
  /\ refunded \in [BountyId -> Int]
  /\ calls \in Seq(Calls)

Mode(id)   == bounties[id].terms.mode
Status(id) == bounties[id].status
HasMode(id, mode) == Status(id) # "Absent" /\ Mode(id) = mode

----------------------------------------------------------------------------
(* One claimant at a time.                                                 *)

(* A bounty for one claimant (no multitasking) never has two active claims *)
(* at once, however approvals, KYC answers, DAO answers, dispute results   *)
(* and transfers interleave: internal_find_active_claim takes the first it *)
(* meets and would act on the wrong one.                                   *)
OneWorker ==
  \A j, k \in ClaimKey :
     /\ j[1] = k[1] /\ HasMode(k[1], "None")
     /\ claims[j].status \in Active /\ claims[k].status \in Active
     => j = k

(* README, bounty statuses: "Claimed: An active claim exists" and "New:    *)
(* before any claims are in the execution stage".                          *)
ClaimedWhenActive ==
  \A id \in BountyId :
     HasMode(id, "None") /\ Status(id) # "Canceled" =>
       (Status(id) = "Claimed" <=> ClaimsOf(id, Active) # {})

----------------------------------------------------------------------------
(* Counters and slots.                                                     *)

Occupying == {"ReadyToStart", "InProgress", "Completed", "Rejected",
              "Disputed"}

(* The occupied slots of a OneForAll bounty are the claims that occupy     *)
(* one, and no more slots are given away than there are.                   *)
OccupiedSlotsAgree ==
  \A id \in BountyId :
     HasMode(id, "OneForAll") =>
       /\ bounties[id].occupied_slots = Cardinality(ClaimsOf(id, Occupying))
       /\ bounties[id].occupied_slots + bounties[id].paid_slots
            <= bounties[id].terms.slots

(* README, bounty statuses: "AwaitingClaims: The bounty has slots with     *)
(* paid rewards but still unused slots, and there are no active claims";   *)
(* ManyClaimed: "Active claims exist".                                     *)
PauseAgrees ==
  \A id \in BountyId :
     LET b == bounties[id] IN
     /\ b.status \in {"AwaitingClaims", "PartiallyCompleted"} =>
          /\ b.terms.mode = "OneForAll"
          /\ 0 < b.paid_slots /\ b.paid_slots < b.terms.slots
          /\ b.status = "AwaitingClaims" => b.occupied_slots = 0
     /\ HasMode(id, "OneForAll") /\ b.status = "ManyClaimed" =>
          ClaimsOf(id, Active) # {}

(* The participants of a contest are the claims that take part in it.      *)
ParticipantsAgree ==
  \A id \in BountyId :
     HasMode(id, "Contest") =>
       bounties[id].participants =
         Cardinality(ClaimsOf(id, {"Competes", "Completed"}))

(* While a contest runs its start is known, and before it runs it is not   *)
(* taken for started: the unwraps of get_start_time and of the claim       *)
(* window would panic, and would make a claim impossible to close.         *)
StartKnown ==
  \A id \in BountyId :
     HasMode(id, "Contest") =>
       /\ Status(id) = "New" => ~HasCompetitionStarted(bounties[id])
       /\ Status(id) = "ManyClaimed" => HasCompetitionStarted(bounties[id])
       /\ Status(id) = "Completed" => bounties[id].started_at # Nil

Holding == Occupying \cup {"CompletedWithDispute"}

(* A subtask slot and the claim that holds it name each other: no slot is  *)
(* held by a claim that is over, and no claim works on a slot that another *)
(* may take.                                                               *)
SlotsHeld ==
  \A id \in BountyId :
     HasMode(id, "DifferentTasks") =>
       /\ \A s \in UsedPlaces(bounties[id]) :
            bounties[id].slots[s] # Nil =>
              LET k == bounties[id].slots[s] IN
              /\ k[1] = id /\ claims[k].slot = s
              /\ claims[k].status \in Holding
       /\ \A k \in ClaimsOf(id, Holding) :
            claims[k].slot # Nil /\ bounties[id].slots[claims[k].slot] = k

(* README, bounty_approve_of_several: "Freelancer's work can be accepted   *)
(* only simultaneously for all sub-tasks".                                 *)
AcceptedTogether ==
  \A k \in ClaimKey :
     HasMode(k[1], "DifferentTasks") /\ claims[k].status = "Approved" =>
       /\ Status(k[1]) \in {"Completed", "Canceled"}
       /\ ClaimsOf(k[1], {"ReadyToStart", "InProgress", "Rejected",
                          "Disputed"}) = {}

----------------------------------------------------------------------------
(* Bonds.                                                                  *)

Over == {"Absent", "Approved", "Canceled", "Expired", "NotCompleted",
         "NotHired"}

(* The bonds that are locked are those of the claims that are not over:    *)
(* each bond is returned or withheld exactly once, when its claim ends.    *)
BondsLocked ==
  bonds.locked_amount =
    MapThenSumSet(LAMBDA k : claims[k].bond,
                  {k \in ClaimKey : claims[k].status \notin Over})

(* The NEAR of every bond the contract may have to return is in the        *)
(* contract or out with a proposal to a validators DAO, which the contract *)
(* pays for (internal_add_proposal): the claimants' NEAR is short of the   *)
(* bonds by what proposals have taken and by nothing else.  A bond is      *)
(* locked when the claim is made, which with KYC is later than the call it *)
(* came with (types.rs, BountyClaim.bond: "Bond that was at the time of    *)
(* making the claim"): the price must not change in between.               *)
BondsBacked ==
  bonds.near + bonds.proposals >= bonds.locked_amount + bonds.unlocked_amount

----------------------------------------------------------------------------
(* Payment.                                                                *)

(* The prizes of a contest that claim k has won.                           *)
Prizes(b, k) == {p \in UsedPlaces(b) : b.winners[p] = k}
PrizeMoney(b, k) == MapThenSumSet(LAMBDA p : b.terms.shares[p], Prizes(b, k))

(* What a claim that is approved has been paid at least.                   *)
LeastReward(b, k) ==
  CASE b.terms.mode = "None" -> b.amount
    [] b.terms.mode = "OneForAll" -> b.amount \div b.terms.slots
    [] b.terms.mode = "DifferentTasks" -> TaskPart(b, claims[k].slot)
    [] b.terms.mode = "Contest" -> PrizeMoney(b, k)

(* README, claim statuses: "Approved: ... the reward is paid".  The status *)
(* is only set when the token transfer has succeeded.                      *)
ApprovedIsPaid ==
  \A k \in ClaimKey :
     claims[k].status = "Approved" /\ ~bounties[k[1]].terms.postpaid =>
       paid[k] >= LeastReward(bounties[k[1]], k)

(* The prizes of a contest that are not won yet.                           *)
PrizesLeft(b) ==
  MapThenSumSet(LAMBDA p : b.terms.shares[p],
                {p \in UsedPlaces(b) : b.winners[p] = Nil})

(* What the contract still owes for a bounty: the rewards of the claimants *)
(* to come, or of those whose accepted work is not yet withdrawn.          *)
Owed(id) ==
  LET b == bounties[id] IN
  CASE \/ b.terms.postpaid
       \/ b.status \in {"Absent", "Canceled", "PartiallyCompleted"} -> 0
    [] ~b.terms.postpaid /\ b.status = "Completed" ->
         IF b.terms.mode = "DifferentTasks"
         THEN TaskParts(b, {s \in UsedPlaces(b) : b.slots[s] # Nil})
         ELSE 0
    [] ~b.terms.postpaid /\ b.status \in {"New", "AwaitingClaims"} \cup Running ->
         CASE b.terms.mode = "OneForAll" ->
                b.amount - b.paid_slots * (b.amount \div b.terms.slots)
           [] b.terms.mode = "Contest" -> PrizesLeft(b)
           [] OTHER -> b.amount

(* The part of a fee of bounty b that is still locked for it.              *)
FeeDue(b, fee) ==
  IF b.status \notin {"New", "AwaitingClaims"} \cup Running THEN 0
  ELSE CASE b.terms.mode = "OneForAll" ->
              fee - b.paid_slots * (fee \div b.terms.slots)
         [] b.terms.mode = "Contest" ->
              (fee \div b.terms.slots)
                * Cardinality({p \in UsedPlaces(b) : b.winners[p] = Nil})
         [] OTHER -> fee

PlatformDue(id) == FeeDue(bounties[id], bounties[id].platform_fee)
DaoDue(id) == FeeDue(bounties[id], bounties[id].dao_fee)

(* A contest that falls back to New after a prize was paid is refunded as  *)
(* if none was (see CanceledUnpaid); the two sums below leave it out.      *)
ContestsKept ==
  \A id \in BountyId : Mode(id) = "Contest" => refunded[id] = 0

(* The tokens held cover all rewards still owed, over all bounties, and    *)
(* the fees on top of them: slots, prizes, subtasks, fees and penalties    *)
(* are divided so that the parts never exceed the whole.                   *)
EscrowCovers ==
  ContestsKept =>
    held >= fees.balance + fees.dao_balance + MapThenSumSet(Owed, BountyId)

(* The fees that are locked are there, and cover what the bounties that    *)
(* are not over have yet to unlock or to return: no payout and no refund   *)
(* panics for want of them, and none takes them from another bounty.       *)
FeesCover ==
  ContestsKept =>
    /\ MapThenSumSet(PlatformDue, BountyId) <= fees.locked
    /\ fees.locked <= fees.balance
    /\ MapThenSumSet(DaoDue, BountyId) <= fees.dao_locked
    /\ fees.dao_locked <= fees.dao_balance

(* Without a DAO, work that is paid for outside the contract is only       *)
(* accepted when the claimant has confirmed the payment.                   *)
ConfirmedFirst ==
  \A k \in ClaimKey :
     LET b == bounties[k[1]] IN
     claims[k].status = "Approved" /\ b.terms.postpaid /\ ~b.terms.dao =>
       PaymentMade(b, claims[k]) /\ PaymentConfirmed(b, claims[k])

(* A payment that was reported keeps the work from being rejected: the     *)
(* record of it never outlives the claim it was made for.                  *)
PaymentHasClaim ==
  \A id \in BountyId :
     HasMode(id, "None") /\ bounties[id].payment_at /\ ~bounties[id].terms.dao =>
       ClaimsOf(id, {"Completed", "Approved"}) # {}

----------------------------------------------------------------------------
(* Updates.                                                                *)

(* Nobody works on a bounty that is for the whitelist alone without being  *)
(* on it, however claims, decisions and updates follow one another.  (With *)
(* KYC when a claim is made, or a DAO to propose the claimant to, he may be*)
(* hired although he was taken off the whitelist before the answer came.)  *)
HiredOnWhitelist ==
  \A id \in BountyId :
     LET b == bounties[id]
         t == b.terms
     IN
     /\ b.status # "Absent" /\ t.approval = "ApprovalByWhitelist"
     /\ t.kyc # "WhenCreatingClaim" /\ ~t.dao
     => \A k \in ClaimsOf(id, HiredStatuses(b)) : k[2] \in t.whitelist

----------------------------------------------------------------------------
(* What a step may never do.                                               *)

(* The claim statuses of the README as a graph; from a final status, or    *)
(* from none, only a new claim of the same account leads on.               *)
Successors(status) ==
  CASE status \in Over -> {"New", "ReadyToStart", "InProgress", "Competes",
                           "Completed"}
    [] status = "New" -> {"ReadyToStart", "InProgress", "Competes",
                          "NotHired", "Canceled"}
    [] status = "ReadyToStart" -> {"InProgress", "Completed", "Canceled"}
    [] status = "InProgress" -> {"Completed", "Canceled", "Expired"}
    [] status = "Competes" -> {"Completed", "Canceled", "Expired",
                               "NotCompleted"}
    [] status = "Completed" -> {"Approved", "Rejected", "NotCompleted",
                                "Canceled"}
    [] status = "Rejected" -> {"Disputed", "NotCompleted"}
    [] status = "Disputed" -> {"Approved", "NotCompleted",
                               "CompletedWithDispute"}
    [] status = "CompletedWithDispute" -> {"Approved"}

(* README, claim statuses: no answer that arrives late moves a claim along *)
(* a way it does not have; work that won its dispute is not rejected.      *)
ClaimLifecycle ==
  [][\A k \in ClaimKey :
       claims'[k].status # claims[k].status =>
         claims'[k].status \in Successors(claims[k].status)]_vars

(* A bounty that was paid in full takes no more claims and is not brought  *)
(* back by an answer that comes late.                                      *)
OverIsOver ==
  [][\A id \in BountyId :
       Status(id) = "Completed" /\ refunded[id] = 0 /\ refunded'[id] = 0 =>
         Status(id)' = "Completed"]_vars

(* Claimants at work never lose time: neither an update of the bounty, nor *)
(* a longer deadline, nor the restart of a contest makes a claim overdue   *)
(* at a time at which it was not.                                          *)
TimeNotTaken ==
  [][\A k \in ClaimKey, time \in 0 .. MaxTime + 1 :
       /\ claims[k].status \in {"InProgress", "Competes"}
       /\ claims'[k].status = claims[k].status
       /\ StartTime(claims[k], bounties[k[1]]) # Nil
       /\ ~IsExpired(claims[k], bounties[k[1]], time)
       => ~IsExpired(claims'[k], bounties'[k[1]], time)]_vars

----------------------------------------------------------------------------
(* The contract without overtaking: no call comes between a promise and    *)
(* its answer.  What holds here and not under Spec is what the code leaves *)
(* to the timing of its callers.                                           *)
NextInTurn ==
  \/ calls = <<>> /\ Next
  \/ \E i \in 1 .. Len(calls) : Answer(i)

OneAtATime == Init /\ [][NextInTurn]_vars

(* README, bounty_finalize: "Available to any account interested in        *)
(* continuing work with the bounty".  Somebody always is: the claimant     *)
(* wants the bond back and the owner wants the work done.                  *)
FairSpec == Spec /\ \A k \in ClaimKey : WF_vars(bounty_finalize(k))

(* A claim whose time is over does not keep its place: finalizing it never *)
(* fails, whatever the bounty went through in the meantime.                *)
OverdueEnds == \A k \in ClaimKey : Overdue(k) ~> ~Overdue(k)

(* When the reward is paid in full, every claim that got nothing is closed *)
(* and its bond returned: no claim is left in a status that no call moves. *)
LosersReleased ==
  \A k \in ClaimKey :
     Status(k[1]) = "Completed" /\ Mode(k[1]) # "DifferentTasks"
       ~> claims[k].status \in Over

----------------------------------------------------------------------------
(* What the documentation says and the code does not do.                   *)

(* README, bounty_cancel: "The bounty can be canceled only if there are no *)
(* active claims at the time of cancellation."                             *)
CanceledUnclaimed ==
  \A id \in BountyId :
     Status(id) = "Canceled" => ClaimsOf(id, Active) = {}

(* README, bounty statuses: "Canceled: The bounty is canceled, and the     *)
(* reward is not paid."                                                    *)
CanceledUnpaid ==
  \A k \in ClaimKey : Status(k[1]) = "Canceled" => paid[k] = 0

============================================================================
