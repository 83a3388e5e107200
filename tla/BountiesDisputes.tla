-------------------------- MODULE BountiesDisputes --------------------------
(***************************************************************************)
(* The bounties contract and the dispute contract together.  They share    *)
(* the clock and nothing else: each learns of the other by promises, which *)
(* leave in a step of the one, are carried out in a step of the other, and *)
(* are answered in a third.  Bounties allows every answer to a promise to  *)
(* the dispute contract and every result from it; here both are what the   *)
(* dispute contract really says.  `replies' runs parallel to `calls'.      *)
(***************************************************************************)
EXTENDS BountiesSafety

CONSTANTS Periods, FirstPeriods, Statuses,
          MaxDisputes, MaxArguments, MaxProposals, MaxRequests

ASSUME DaoAssumption == DAO \in Accounts   \* it may be a party

ASSUME PeriodsAssumption ==
  /\ \A p \in Periods \cup {FirstPeriods} :
        p \in [argument_period: Nat, decision_period: Nat]
  /\ Statuses \subseteq {"Live", "ReadOnly"}
  /\ Nil \notin BOOLEAN

VARIABLES
  periods, contract_status, disputes, arguments, proposals, requests,
  replies,       \* what has come of each promise of the bounties contract
  dispute_ids    \* BountyClaim.dispute_id

D == INSTANCE Disputes WITH Claims <- ClaimKey

dispute_vars == <<periods, contract_status, disputes, arguments, proposals,
                  requests>>
link_vars == <<replies, dispute_ids>>
joint_vars == <<vars, dispute_vars, link_vars>>

JointInit ==
  /\ Init
  /\ D!Init
  /\ replies = <<>>
  /\ dispute_ids = [k \in ClaimKey |-> Nil]

----------------------------------------------------------------------------
(* The reply to a promise that has just left, and the replies that are     *)
(* left of q after the step.  Only a question about a dispute says which.  *)
NewReply ==
  LET call == Last(calls') IN
  IF call.kind = "getDispute"
  THEN [kind |-> "asked", id |-> dispute_ids[call.claim]] ELSE Nil

RepliesFrom(q) ==
  replies' = IF Len(calls') > Len(q) THEN Append(q, NewReply) ELSE q

(* A claim that is made anew has no dispute yet.                           *)
ClaimsRenewed ==
  dispute_ids' = [k \in ClaimKey |->
    IF claims[k].status \in Over /\ claims'[k].status \notin Over
    THEN Nil ELSE dispute_ids[k]]

(* What the accounts, the owners and the administrators of the bounties    *)
(* contract do, and the answers of other contracts than the disputes'.     *)
OwnStep ==
  /\ \/ change_config
     \/ \E id \in BountyId : OnBounty(id)
     \/ \E k \in ClaimKey : ClaimCall(k)
     \/ withdraw_platform_fee
     \/ withdraw_validators_dao_fee
     \/ withdraw_non_refunded_bonds
  /\ RepliesFrom(replies)
  /\ ClaimsRenewed
  /\ UNCHANGED dispute_vars

OtherAnswer(i) ==
  /\ calls[i].kind \notin {"createDispute", "getDispute"}
  /\ replies[i] = Nil
  /\ Answer(i)
  /\ RepliesFrom(RemoveAt(replies, i))
  /\ ClaimsRenewed
  /\ UNCHANGED dispute_vars

JointTick == Tick /\ D!Tick /\ UNCHANGED link_vars

DisputeStep == D!OwnNext /\ UNCHANGED <<vars, link_vars>>

----------------------------------------------------------------------------
(* Opening a dispute.                                                      *)

Delegate(id) ==                     \* get_bounty_owner_delegate
  IF bounties[id].terms.dao THEN DAO ELSE bounties[id].terms.owner

CreateDispute_slip(i) ==
  LET k == calls[i].claim IN
  /\ calls[i].kind = "createDispute" /\ replies[i] = Nil
  /\ D!create_dispute(k, Delegate(k[1]))
  /\ replies' = [replies EXCEPT ![i] = [kind |-> "created",
                                        id |-> Len(disputes)]]
  /\ UNCHANGED <<vars, dispute_ids>>

CreateDispute_slip2(i) ==
  LET k == calls[i].claim IN
  /\ calls[i].kind = "createDispute" /\ replies[i] = Nil
  /\ Len(disputes) < MaxDisputes
  /\ disputes' = Append(disputes, D!NewDispute(k, Delegate(k[1])))
  /\ arguments' = Append(arguments, 0)
  /\ replies' = [replies EXCEPT ![i] = [kind |-> "created",
                                        id |-> Len(disputes) + 1]]
  /\ UNCHANGED <<vars, dispute_ids, periods, contract_status, proposals,
                 requests>>

CreateDispute(i) ==
  LET k == calls[i].claim IN
  /\ calls[i].kind = "createDispute" /\ replies[i] = Nil
  /\ D!create_dispute(k, Delegate(k[1]))
  /\ replies' = [replies EXCEPT ![i] = [kind |-> "created",
                                        id |-> Len(disputes) + 1]]
  /\ UNCHANGED <<vars, dispute_ids>>

MayOpen(k) ==
  bounties[k[1]].status \in Running /\ claims[k].status = "Rejected"

DisputeCreated_slip(i) ==
  LET k == calls[i].claim IN
  /\ calls[i].kind = "createDispute" /\ replies[i] # Nil
  /\ claims' = [claims EXCEPT ![k].status = "Disputed"]
  /\ calls' = Answered(i)
  /\ UNCHANGED <<now, config, bounties, bonds, fees, tokens>>
  /\ dispute_ids' = [dispute_ids EXCEPT ![k] = replies[i].id]
  /\ replies' = RemoveAt(replies, i)
  /\ UNCHANGED dispute_vars

(* The callback panics when the claim is no longer rejected; the dispute   *)
(* that was opened stays.                                                  *)
DisputeCreated(i) ==
  LET k == calls[i].claim IN
  /\ calls[i].kind = "createDispute" /\ replies[i] # Nil
  /\ \/ /\ after_create_dispute(i)
        /\ dispute_ids' = [dispute_ids EXCEPT ![k] = replies[i].id]
     \/ /\ ~MayOpen(k)
        /\ Drop(i)
        /\ UNCHANGED dispute_ids
  /\ replies' = RemoveAt(replies, i)
  /\ UNCHANGED dispute_vars

NoAnswer(i) ==                      \* the call of the dispute contract failed
  /\ \/ calls[i].kind = "createDispute" /\ replies[i] = Nil
     \/ calls[i].kind = "getDispute" /\ replies[i].kind = "asked"
  /\ Drop(i)
  /\ replies' = RemoveAt(replies, i)
  /\ UNCHANGED <<dispute_vars, dispute_ids>>

----------------------------------------------------------------------------
(* The result of a dispute: told by the dispute contract, or asked of it.  *)

(* When dispute_result and after_get_dispute do not panic.                 *)
Accepts(k, success) ==
  /\ bounties[k[1]].status \in Running
  /\ claims[k].status = "Disputed"
  /\ success /\ bounties[k[1]].terms.mode # "DifferentTasks" =>
       LockedCovers(AmountsForPayment(bounties[k[1]], Nil))

(* The reply to the transfer of a reward that a result has set off: the    *)
(* promise the dispute contract waits for goes on with it.                 *)
Continued(r) == [kind |-> "result", id |-> r.id, canceled |-> r.canceled]

DeliverResult(j) ==
  LET r == requests[j]
      k == disputes[r.id].claim
  IN
  /\ r.kind = "result" /\ r.stage = "sent"
  /\ \/ /\ ~Accepts(k, r.success)
        /\ D!Outcome(j, "failed")
        /\ UNCHANGED <<vars, replies>>
     \/ /\ dispute_result(k, r.success)
        /\ calls' # calls
        /\ D!Outcome(j, "paying")
        /\ replies' = Append(replies, Continued(r))
     \/ /\ dispute_result(k, r.success)
        /\ calls' = calls
        /\ D!Outcome(j, "ok")
        /\ UNCHANGED replies
  /\ UNCHANGED dispute_ids

Awaits(r, reply) ==
  r.kind = "result" /\ r.stage = "paying" /\ Continued(r) = reply

(* after_ft_transfer returns false where the transfer has failed, which    *)
(* is a success for the dispute contract; only where it panics is it not.  *)
ResultPaid(i) ==
  LET call == calls[i] IN
  /\ call.kind = "payout" /\ replies[i] # Nil
  /\ \E j \in 1 .. Len(requests) :
        /\ Awaits(requests[j], replies[i])
        /\ \/ Drop(i) /\ D!Outcome(j, "ok")
           \/ /\ after_ft_transfer(i)
              /\ D!Outcome(j, IF MayComplete(call.id, call.claim,
                                             call.amounts, call.place)
                              THEN "ok" ELSE "failed")
  /\ replies' = RemoveAt(replies, i)
  /\ UNCHANGED dispute_ids

ReadDispute(i) ==                   \* get_dispute of the dispute contract
  /\ calls[i].kind = "getDispute" /\ replies[i].kind = "asked"
  /\ replies' = [replies EXCEPT
       ![i] = [kind |-> "read", status |-> disputes[replies[i].id].status]]
  /\ UNCHANGED <<vars, dispute_vars, dispute_ids>>

Won(status) == status \in {"InFavorOfClaimant", "CanceledByProjectOwner"}

DisputeRead(i) ==
  LET k == calls[i].claim
      status == replies[i].status
  IN
  /\ calls[i].kind = "getDispute" /\ replies[i].kind = "read"
  /\ \/ status \in D!EndedDispute /\ after_get_dispute(i, Won(status))
     \/ /\ status \in D!EndedDispute => ~Accepts(k, Won(status))
        /\ Drop(i)
  /\ RepliesFrom(RemoveAt(replies, i))
  /\ UNCHANGED <<dispute_vars, dispute_ids>>

----------------------------------------------------------------------------
JointNext ==
  \/ JointTick
  \/ OwnStep
  \/ DisputeStep
  \/ \E i \in 1 .. Len(calls) :
        \/ OtherAnswer(i)
        \/ CreateDispute(i)
        \/ DisputeCreated(i)
        \/ NoAnswer(i)
        \/ ResultPaid(i)
        \/ ReadDispute(i)
        \/ DisputeRead(i)
  \/ \E j \in 1 .. Len(requests) : DeliverResult(j)

JointSpec == JointInit /\ [][JointNext]_joint_vars

----------------------------------------------------------------------------
(* What the two contracts promise together.                                *)

(* Seen without the dispute contract, the pair is the bounties contract,   *)
(* so every safety property of it holds of the pair.                       *)
BountiesImplemented == Spec

(* Seen without the bounties contract, it is the dispute contract.         *)
DisputesImplemented == D!Spec

----------------------------------------------------------------------------
(* A disputed claim knows a dispute, and it is about that claim, however   *)
(* often a dispute was opened before the first answer came.                *)
DisputedHasDispute ==
  \A k \in ClaimKey :
     claims[k].status = "Disputed" =>
       /\ dispute_ids[k] \in DOMAIN disputes
       /\ disputes[dispute_ids[k]].claim = k

(* A dispute that is recorded as lost has settled its claim: what the      *)
(* dispute contract records last, the bounties contract did first.  (With  *)
(* two disputes opened on a claim at once, the late answer to the first    *)
(* may bind a later claim of the account to a dispute that is over.)       *)
LossSettled ==
  \A k \in ClaimKey :
     /\ claims[k].status = "Disputed"
     /\ {id \in DOMAIN disputes : disputes[id].claim = k} = {dispute_ids[k]}
     => disputes[dispute_ids[k]].status
          \notin {"InFavorOfProjectOwner", "CanceledByClaimant"}

----------------------------------------------------------------------------
(* The claimant and the owner want the claim settled and finalize it, and  *)
(* not every question and transfer fails for ever; every promise ends.     *)
(* The fairness is strong where the bound on the promises that are out may *)
(* hold a call back, and where the answer to a promise may be a failure.   *)
Progress ==
  /\ \A k \in ClaimKey :
        SF_joint_vars(/\ bounty_finalize(k)
                      /\ RepliesFrom(replies)
                      /\ UNCHANGED <<dispute_vars, dispute_ids>>)
  /\ SF_joint_vars(\E i \in DOMAIN calls : ReadDispute(i))
  /\ SF_joint_vars(\E i \in DOMAIN calls : DisputeRead(i))
  /\ SF_joint_vars(\E i \in DOMAIN calls :
                      after_ft_transfer(i) /\ (ResultPaid(i) \/ OtherAnswer(i)))
  /\ WF_joint_vars(\E i \in DOMAIN calls :
                      OtherAnswer(i) \/ ResultPaid(i) \/ NoAnswer(i)
                        \/ DisputeCreated(i))

FairJointSpec == JointSpec /\ Progress

(* A claim does not stay disputed when its dispute has ended: a result     *)
(* that got lost on the way, because the transfer of the reward failed or  *)
(* because the dispute was bound to the claim too late, is asked for.      *)
(* (Not if the reward went out before for a claim that came to nothing:    *)
(* the contract may then not have the tokens to pay it again.)             *)
DisputeLeft ==
  \A k \in ClaimKey :
     /\ claims[k].status = "Disputed"
     /\ dispute_ids[k] # Nil
     /\ disputes[dispute_ids[k]].status \in D!EndedDispute
     ~> \/ claims[k].status # "Disputed"
        \/ bounties[k[1]].status \notin Running
        \/ paid[k] > 0

============================================================================
