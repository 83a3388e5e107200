----------------------- MODULE BountiesDisputesProofs -----------------------
(***************************************************************************)
(* The bounties contract and the dispute contract together, for every      *)
(* value of the constants: what the two do together is what each of them   *)
(* may do alone, so that what was proved of each alone holds of the pair;  *)
(* and what neither of them can promise alone, that a disputed claim has a *)
(* dispute and that a dispute that is lost has settled its claim.          *)
(*                                                                         *)
(* Neither step lemma stands on its own.  That a dispute is opened on a    *)
(* claim, for an account, rests on the types of the bounties contract;     *)
(* that a result is about a claim, and is a yes or a no, on those of the   *)
(* dispute contract.  Pair, both invariants at once, carries them through. *)
(* Linked and Settled add what ties the two together: which dispute each   *)
(* claim and each answer on its way is about, and which are lost.          *)
(***************************************************************************)
EXTENDS BountiesDisputes, BountiesProofs, Collections

DP == INSTANCE DisputesProofs WITH Claims <- ClaimKey

(* The inductive invariant of this module.                                 *)
Pair == Shape /\ DP!Order

----------------------------------------------------------------------------
(* The dispute contract of the pair is the one of DisputesProofs.          *)

LEMMA DisputesAssumed == DP!DisputesAssumption /\ DP!NilAssumption
BY TypesAssumption, BountiesAssumption, PeriodsAssumption
   DEF DP!DisputesAssumption, DP!PeriodConfig, DP!NilAssumption, ClaimKey

LEMMA SameSide == \A d, sender : D!Side(d, sender) = DP!Side(d, sender)
BY Zenon DEF D!Side, DP!Side

LEMMA SameOwnNext == D!OwnNext => DP!OwnNext
<1>1. ASSUME NEW status, D!set_status(status)
      PROVE  DP!set_status(status)
  BY <1>1 DEF D!set_status, DP!set_status
<1>2. ASSUME D!change_config
      PROVE  DP!change_config
  BY <1>2 DEF D!change_config, DP!change_config, D!Live, DP!Live
<1>3. ASSUME NEW id, NEW sender, D!provide_arguments(id, sender)
      PROVE  DP!provide_arguments(id, sender)
  BY <1>3, SameSide DEF D!provide_arguments, DP!provide_arguments, D!Live,
                        DP!Live, D!IsArgumentPeriodExpired,
                        DP!IsArgumentPeriodExpired
<1>4. ASSUME NEW id, NEW sender, D!cancel_dispute(id, sender)
      PROVE  DP!cancel_dispute(id, sender)
  BY <1>4, SameSide DEF D!cancel_dispute, DP!cancel_dispute, D!Live, DP!Live,
                        D!SendResult, DP!SendResult, D!SendRequest,
                        DP!SendRequest
<1>5. ASSUME NEW id, D!escalation(id)
      PROVE  DP!escalation(id)
  BY <1>5 DEF D!escalation, DP!escalation, D!Live, DP!Live,
              D!IsArgumentPeriodExpired, DP!IsArgumentPeriodExpired,
              D!SendRequest, DP!SendRequest
<1>6. ASSUME NEW id, D!finalize_dispute(id)
      PROVE  DP!finalize_dispute(id)
  BY <1>6 DEF D!finalize_dispute, DP!finalize_dispute, D!Live, DP!Live,
              D!SendRequest, DP!SendRequest
<1>7. ASSUME NEW p, D!result_of_dispute(p)
      PROVE  DP!result_of_dispute(p)
  BY <1>7 DEF D!result_of_dispute, DP!result_of_dispute, D!Live, DP!Live,
              D!IsDecisionPeriodExpired, DP!IsDecisionPeriodExpired,
              D!SendResult, DP!SendResult, D!SendRequest, DP!SendRequest
<1>8. ASSUME NEW p, NEW status, D!Vote(p, status)
      PROVE  DP!Vote(p, status)
  BY <1>8 DEF D!Vote, DP!Vote
<1>9. ASSUME NEW j, D!ReadProposal(j)
      PROVE  DP!ReadProposal(j)
  BY <1>9 DEF D!ReadProposal, DP!ReadProposal
<1>10. ASSUME NEW j, D!on_added_proposal_callback(j)
       PROVE  DP!on_added_proposal_callback(j)
  BY <1>10 DEF D!on_added_proposal_callback, DP!on_added_proposal_callback,
               D!Replied, DP!Replied, D!RemoveAt, DP!RemoveAt
<1>11. ASSUME NEW j, D!after_claim_approval(j)
       PROVE  DP!after_claim_approval(j)
  BY <1>11 DEF D!after_claim_approval, DP!after_claim_approval, D!Replied,
               DP!Replied, D!RemoveAt, DP!RemoveAt, D!Ended, DP!Ended,
               D!EndStatus, DP!EndStatus, D!OpenDispute, DP!OpenDispute
<1>12. ASSUME NEW j, D!after_get_proposal(j)
       PROVE  DP!after_get_proposal(j)
  BY <1>12 DEF D!after_get_proposal, DP!after_get_proposal, D!SendResult,
               DP!SendResult, D!SendRequest, DP!SendRequest, D!Replied,
               DP!Replied, D!RemoveAt, DP!RemoveAt, D!Verdict, DP!Verdict,
               D!IsDecisionPeriodExpired, DP!IsDecisionPeriodExpired
<1>13. ASSUME NEW j, D!DropRequest(j)
       PROVE  DP!DropRequest(j)
  BY <1>13 DEF D!DropRequest, DP!DropRequest, D!Replied, DP!Replied,
               D!RemoveAt, DP!RemoveAt
<1> QED
  BY <1>1, <1>2, <1>3, <1>4, <1>5, <1>6, <1>7, <1>8, <1>9, <1>10, <1>11,
       <1>12, <1>13
  DEF D!OwnNext, DP!OwnNext, D!DisputeIds, DP!DisputeIds

LEMMA SameNext == [D!Next]_(D!vars) => [DP!Next]_(DP!vars)
<1>1. D!Tick => DP!Tick
  BY DEF D!Tick, DP!Tick, D!dispute_vars, DP!dispute_vars
<1>2. ASSUME NEW k, NEW delegate, D!create_dispute(k, delegate)
      PROVE  DP!create_dispute(k, delegate)
  BY <1>2 DEF D!create_dispute, DP!create_dispute, D!NewDispute,
              DP!NewDispute, D!Live, DP!Live
<1>3. ASSUME NEW j, NEW stage, D!Outcome(j, stage)
      PROVE  DP!Outcome(j, stage)
  BY <1>3 DEF D!Outcome, DP!Outcome
<1>4. D!vars = DP!vars /\ D!vars' = DP!vars'
  BY DEF D!vars, DP!vars, D!dispute_vars, DP!dispute_vars
<1>5. D!Stages = DP!Stages
  BY DEF D!Stages, DP!Stages
<1> QED BY <1>1, <1>2, <1>3, <1>4, <1>5, SameOwnNext DEF D!Next, DP!Next

LEMMA SameInit == D!Init => DP!Init
BY DEF D!Init, DP!Init

----------------------------------------------------------------------------
(* Seen from the dispute contract.                                         *)

LEMMA OwnStepTime == OwnStep => UNCHANGED now
<1>1. ASSUME NEW id \in BountyId, OnBounty(id)
      PROVE  UNCHANGED now
  <2>1. ASSUME NEW t \in Offers, ft_on_transfer(id, t) \/ bounty_create(id, t)
        PROVE  UNCHANGED now
    BY <2>1 DEF ft_on_transfer, bounty_create, AddBounty
  <2>2. ASSUME \/ bounty_cancel(id) \/ start_competition(id)
               \/ \E u \in Updates : bounty_update(id, u)
        PROVE  UNCHANGED now
    BY <2>2 DEF bounty_cancel, start_competition, bounty_update
  <2>3. ASSUME NEW who, NEW deadline, NEW slot,
               bounty_claim(who, id, deadline, slot)
        PROVE  UNCHANGED now
    BY <2>3 DEF bounty_claim
  <2>4. ASSUME \/ \E sender \in Accounts : bounty_approve_of_several(sender, id)
               \/ bounty_finalize_all(id) \/ return_proposal_bond(id)
        PROVE  UNCHANGED now
    BY <2>4 DEF bounty_approve_of_several, bounty_finalize_all,
       return_proposal_bond
  <2> QED BY <1>1, <2>1, <2>2, <2>3, <2>4 DEF OnBounty
<1>2. ASSUME NEW k \in ClaimKey, ClaimCall(k)
      PROVE  UNCHANGED now
  BY <1>2 DEF ClaimCall, bounty_done, bounty_give_up, withdraw, open_dispute,
     extend_claim_deadline, mark_as_paid, confirm_payment, bounty_finalize,
     accept_claimant, decline_claimant, bounty_approve, bounty_reject
<1>3. ASSUME \/ change_config \/ withdraw_platform_fee
             \/ withdraw_validators_dao_fee \/ withdraw_non_refunded_bonds
      PROVE  UNCHANGED now
  BY <1>3 DEF change_config, withdraw_platform_fee,
     withdraw_validators_dao_fee, withdraw_non_refunded_bonds, SendFees
<1> QED BY <1>1, <1>2, <1>3 DEF OwnStep

LEMMA AnswerTime ==
  ASSUME NEW i, Answer(i)
  PROVE  UNCHANGED now
BY DEF Answer, Drop, after_ft_transfer, after_bounty_withdraw,
   after_refund_bounty_amount, after_fees_payout, after_check_if_whitelisted,
   after_add_proposal, on_added_proposal_callback,
   after_check_approve_claimant_proposal, after_check_bounty_payout_proposal,
   after_get_dispute, after_create_dispute

(* A dispute is opened on a claim, and the other party is an account.      *)
LEMMA OpenedOnClaim ==
  ASSUME Shape, NEW i \in 1 .. Len(calls), calls[i].kind = "createDispute"
  PROVE  calls[i].claim \in ClaimKey /\ Delegate(calls[i].claim[1]) \in Accounts
<1>1. calls[i] \in Calls /\ bounties \in [BountyId -> Bounty]
  BY DEF Shape, TypeOK
<1>2. calls[i].claim \in ClaimKey
  BY <1>1 DEF Calls
<1>3. calls[i].claim[1] \in BountyId
  BY <1>2 DEF ClaimKey
<1>4. bounties[calls[i].claim[1]].terms.owner \in Accounts
  BY <1>1, <1>3 DEF Bounty, Terms
<1> QED BY <1>2, <1>4, DaoAssumption DEF Delegate

(* What the pair does is what the dispute contract may do.                 *)
LEMMA JointStepDisputes ==
  Shape /\ [JointNext]_joint_vars => [D!Next]_(D!vars)
<1> SUFFICES ASSUME Shape, [JointNext]_joint_vars PROVE [D!Next]_(D!vars)
  OBVIOUS
<1>1. CASE JointTick
  BY <1>1 DEF JointTick, D!Next
<1>2. CASE OwnStep
  BY <1>2, OwnStepTime DEF OwnStep, dispute_vars, D!vars, D!dispute_vars
<1>3. CASE DisputeStep
  BY <1>3 DEF DisputeStep, D!Next
<1>4. ASSUME NEW i \in 1 .. Len(calls),
             OtherAnswer(i) \/ ReadDispute(i) \/ NoAnswer(i)
      PROVE  UNCHANGED D!vars
  <2>1. UNCHANGED now
    BY <1>4, AnswerTime DEF OtherAnswer, ReadDispute, NoAnswer, Drop, vars
  <2> QED BY <1>4, <2>1
          DEF OtherAnswer, ReadDispute, NoAnswer, dispute_vars, D!vars,
              D!dispute_vars
<1>5. ASSUME NEW i \in 1 .. Len(calls), CreateDispute(i)
      PROVE  D!Next
  BY <1>5, OpenedOnClaim DEF CreateDispute, D!Next
<1>6. ASSUME NEW i \in 1 .. Len(calls), DisputeCreated(i)
      PROVE  UNCHANGED D!vars
  BY <1>6 DEF DisputeCreated, after_create_dispute, Drop, dispute_vars, D!vars,
              D!dispute_vars
<1>7. ASSUME NEW i \in 1 .. Len(calls), ResultPaid(i)
      PROVE  D!Next
  BY <1>7 DEF ResultPaid, D!Next, D!Stages
<1>8. ASSUME NEW i \in 1 .. Len(calls), DisputeRead(i)
      PROVE  UNCHANGED D!vars
  BY <1>8 DEF DisputeRead, after_get_dispute, Drop, dispute_vars, D!vars,
              D!dispute_vars
<1>9. ASSUME NEW j \in 1 .. Len(requests), DeliverResult(j)
      PROVE  D!Next
  BY <1>9 DEF DeliverResult, D!Next, D!Stages
<1>10. CASE UNCHANGED joint_vars
  BY <1>10 DEF joint_vars, vars, dispute_vars, D!vars, D!dispute_vars
<1> QED BY <1>1, <1>2, <1>3, <1>4, <1>5, <1>6, <1>7, <1>8, <1>9, <1>10
        DEF JointNext

----------------------------------------------------------------------------
(* Seen from the bounties contract.                                        *)

(* A result is about a claim, and is a yes or a no.                        *)
LEMMA ResultOnClaim ==
  ASSUME DP!Order, NEW j \in 1 .. Len(requests), requests[j].kind = "result"
  PROVE  /\ disputes[requests[j].id].claim \in ClaimKey
         /\ requests[j].success \in BOOLEAN
<1>1. requests[j] \in DP!Requests /\ DP!Rests(requests[j])
  BY DP!OrderTypes, DisputesAssumed
<1>2. requests[j].success \in BOOLEAN
  BY <1>1 DEF DP!Requests
<1>3. requests[j].id \in DP!DisputeIds
  BY <1>1 DEF DP!Rests
<1>4. disputes[requests[j].id] \in DP!Dispute
  BY <1>3, DP!OrderTypes, DisputesAssumed
<1> QED BY <1>2, <1>4 DEF DP!Dispute

(* What the pair does is what the bounties contract may do.                *)
LEMMA JointStepBounties ==
  DP!Order /\ [JointNext]_joint_vars => [Next]_vars
<1> SUFFICES ASSUME DP!Order, [JointNext]_joint_vars PROVE [Next]_vars
  OBVIOUS
<1>1. CASE JointTick
  BY <1>1 DEF JointTick, Next
<1>2. CASE OwnStep
  BY <1>2 DEF OwnStep, Next, OnClaim
<1>3. CASE DisputeStep
  BY <1>3 DEF DisputeStep
<1>4. ASSUME NEW i \in 1 .. Len(calls), OtherAnswer(i)
      PROVE  Next
  BY <1>4 DEF OtherAnswer, Next
<1>5. ASSUME NEW i \in 1 .. Len(calls), CreateDispute(i) \/ ReadDispute(i)
      PROVE  UNCHANGED vars
  BY <1>5 DEF CreateDispute, ReadDispute
<1>6. ASSUME NEW i \in 1 .. Len(calls), DisputeCreated(i) \/ NoAnswer(i)
      PROVE  Next
  <2>1. Answer(i)
    BY <1>6 DEF DisputeCreated, NoAnswer, Answer
  <2> QED BY <2>1 DEF Next
<1>7. ASSUME NEW i \in 1 .. Len(calls), ResultPaid(i)
      PROVE  Next
  <2>1. Answer(i)
    BY <1>7 DEF ResultPaid, Answer
  <2> QED BY <2>1 DEF Next
<1>8. ASSUME NEW i \in 1 .. Len(calls), DisputeRead(i)
      PROVE  Next
  <2> DEFINE won == Won(replies[i].status)
  <2>1. won \in BOOLEAN
    BY DEF Won
  <2>2. after_get_dispute(i, won) \/ Drop(i)
    BY <1>8 DEF DisputeRead
  <2> HIDE DEF won
  <2>3. Answer(i)
    BY <2>1, <2>2 DEF Answer
  <2> QED BY <2>3 DEF Next
<1>9. ASSUME NEW j \in 1 .. Len(requests), DeliverResult(j)
      PROVE  [Next]_vars
  <2>1. requests[j].kind = "result"
    BY <1>9 DEF DeliverResult
  <2>2. \/ UNCHANGED vars
        \/ dispute_result(disputes[requests[j].id].claim, requests[j].success)
    BY <1>9 DEF DeliverResult
  <2> QED BY <2>1, <2>2, ResultOnClaim DEF Next, OnClaim
<1>10. CASE UNCHANGED joint_vars
  BY <1>10 DEF joint_vars
<1> QED BY <1>1, <1>2, <1>3, <1>4, <1>5, <1>6, <1>7, <1>8, <1>9, <1>10
        DEF JointNext

----------------------------------------------------------------------------
(* Together.                                                               *)

LEMMA JointInitPair == JointInit => Pair
BY InitShape, SameInit, DP!InitOrder, DisputesAssumed DEF JointInit, Pair

LEMMA JointNextPair == Pair /\ [JointNext]_joint_vars => Pair'
<1>1. Pair /\ [JointNext]_joint_vars => Shape'
  BY JointStepBounties, NextShape DEF Pair
<1>2. Pair /\ [JointNext]_joint_vars => DP!Order'
  BY JointStepDisputes, SameNext, DP!NextOrder, DisputesAssumed DEF Pair
<1> QED BY <1>1, <1>2 DEF Pair

LEMMA PairAlways == JointSpec => []Pair
BY JointInitPair, JointNextPair, PTL DEF JointSpec

(* The pair implements the bounties contract as it was modelled alone:     *)
(* whatever the dispute contract answers, and in whichever order its       *)
(* answers and results arrive, the bounties contract was allowed for.  So  *)
(* every safety property of the one is a property of the pair.             *)
THEOREM PairIsBounties == JointSpec => BountiesImplemented
<1>1. JointInit => Init
  BY DEF JointInit
<1>2. Pair /\ [JointNext]_joint_vars => [Next]_vars
  BY JointStepBounties DEF Pair
<1> QED BY <1>1, <1>2, PairAlways, PTL DEF JointSpec, BountiesImplemented, Spec

(* The pair implements the dispute contract as it was modelled alone: the  *)
(* bounties contract opens disputes on claims, and answers a result with   *)
(* the outcomes that the dispute contract provides for.                    *)
THEOREM PairIsDisputes == JointSpec => DisputesImplemented
<1>1. JointInit => D!Init
  BY DEF JointInit
<1>2. Pair /\ [JointNext]_joint_vars => [D!Next]_(D!vars)
  BY JointStepDisputes DEF Pair
<1> QED BY <1>1, <1>2, PairAlways, PTL
        DEF JointSpec, DisputesImplemented, D!Spec

(* With a real dispute contract, however its results race with what        *)
(* claimants and owners do, a bounty for one claimant still never has two  *)
(* active claims at once.                                                  *)
THEOREM PairOneWorker == JointSpec => []OneWorker
BY PairIsBounties, OneWorkerAlways, PTL DEF BountiesImplemented

----------------------------------------------------------------------------
(* Only the answer to open_dispute makes a claim disputed.                 *)

(* The step disputes no claim.                                             *)
NoneArgued ==
  \A k \in ClaimKey :
     claims'[k].status = "Disputed" => claims[k].status = "Disputed"

(* The step sends one promise at most, and leaves those in q.              *)
SendsOne(q) == calls' = q \/ \E c : calls' = Append(q, c)

(* What every step of the bounties contract but that answer does, with q   *)
(* the promises that it leaves out.                                        *)
Tame(q) == NoneArgued /\ SendsOne(q)

LEMMA SentTame ==
  ASSUME NEW q, NEW c, Send(q, c), UNCHANGED claims
  PROVE  Tame(q)
BY DEF Send, Tame, NoneArgued, SendsOne

LEMMA StillTame ==
  ASSUME UNCHANGED claims, NEW q, calls' = q
  PROVE  Tame(q)
BY DEF Tame, NoneArgued, SendsOne

(* A claim gets another status.                                            *)
LEMMA StatusTame ==
  ASSUME Shape, NEW k, NEW s, s # "Disputed",
         claims' = [claims EXCEPT ![k].status = s]
  PROVE  NoneArgued
<1>1. claims \in [ClaimKey -> Claim]
  BY DEF Shape, TypeOK
<1>2. ASSUME NEW j \in ClaimKey
      PROVE  claims'[j].status \in {claims[j].status, s}
  <2>1. claims[j] \in Claim /\ "status" \in DOMAIN claims[j]
    BY <1>1 DEF Claim
  <2>2. CASE j = k
    <3>1. claims'[j] = [claims[j] EXCEPT !.status = s]
      BY <1>1, <2>2
    <3>2. [claims[j] EXCEPT !.status = s].status = s
      BY <2>1
    <3> QED BY <3>1, <3>2
  <2>3. CASE j # k
    BY <1>1, <2>3
  <2> QED BY <2>2, <2>3
<1> QED BY <1>2 DEF NoneArgued

(* internal_claim_closure, internal_reset_bounty_to_initial_state          *)
LEMMA CloseTame ==
  ASSUME Shape, NEW k, NEW s, s # "Disputed", NEW returned,
         CloseClaim(k, s, returned) \/ ResetBounty(k, s, returned)
  PROVE  NoneArgued
<1>1. claims' = [claims EXCEPT ![k].status = s]
  BY DEF ResetBounty, CloseClaim
<1> QED BY <1>1, StatusTame

(* internal_claimant_approval                                              *)
LEMMA ApproveTame ==
  ASSUME Shape, NEW k, NEW c \in Claim, c.status = "New", NEW delayed,
         ApproveClaimant(k, c, delayed)
  PROVE  NoneArgued
<1> DEFINE b == bounties[k[1]]
           mine == ClaimOnApproval(b, k, c)
<1>1. claims \in [ClaimKey -> Claim] /\ ApprovedStatus(b) # "Disputed"
  BY DEF Shape, TypeOK, ApprovedStatus
<1>2. \/ mine = [c EXCEPT !.status = "ReadyToStart"]
      \/ \E f : mine = [c EXCEPT !.status = ApprovedStatus(b),
                                 !.start_time = f]
  BY Zenon DEF ClaimOnApproval
<1>3. mine.status # "Disputed"
  <2>1. ASSUME NEW s, NEW f
        PROVE  /\ [c EXCEPT !.status = s].status = s
               /\ [c EXCEPT !.status = s, !.start_time = f].status = s
    BY Zenon DEF Claim
  <2>2. CASE mine = [c EXCEPT !.status = "ReadyToStart"]
    <3>1. [c EXCEPT !.status = "ReadyToStart"].status = "ReadyToStart"
      BY <2>1
    <3> HIDE DEF mine
    <3> QED BY <2>2, <3>1
  <2>3. ASSUME NEW f, mine = [c EXCEPT !.status = ApprovedStatus(b),
                                       !.start_time = f]
        PROVE  mine.status = ApprovedStatus(b)
    <3>1. [c EXCEPT !.status = ApprovedStatus(b), !.start_time = f].status
            = ApprovedStatus(b)
      BY <2>1
    <3> HIDE DEF mine, b
    <3> QED BY <2>3, <3>1
  <2> HIDE DEF mine, b
  <2> QED BY <1>1, <1>2, <2>2, <2>3
<1>4. [mine EXCEPT !.kyc_delayed = delayed].status = mine.status
  <2>1. "status" \in DOMAIN mine
    <3>1. \A s, f : /\ DOMAIN [c EXCEPT !.status = s] = DOMAIN c
                    /\ DOMAIN [c EXCEPT !.status = s, !.start_time = f]
                         = DOMAIN c
      BY Zenon
    <3>2. "status" \in DOMAIN c
      BY DEF Claim
    <3> HIDE DEF mine, b
    <3> QED BY <1>2, <3>1, <3>2
  <2>2. ASSUME NEW m, "status" \in DOMAIN m
        PROVE  [m EXCEPT !.kyc_delayed = delayed].status = m.status
    BY <2>2, Zenon
  <2> HIDE DEF mine
  <2> QED BY <2>1, <2>2
<1>5. ASSUME NEW j \in ClaimKey
      PROVE  claims'[j].status = "Disputed" => claims[j].status = "Disputed"
  <2>1. claims'[j] = IF j = k THEN [mine EXCEPT !.kyc_delayed = delayed]
                     ELSE IF j \in Released(b, k, c.slot)
                     THEN [claims[j] EXCEPT !.status = ApprovedStatus(b),
                                            !.start_time = now]
                     ELSE claims[j]
    BY Zenon DEF ApproveClaimant
  <2>2. [claims[j] EXCEPT !.status = ApprovedStatus(b),
                          !.start_time = now].status = ApprovedStatus(b)
    <3>1. claims[j] \in Claim
      BY <1>1
    <3> QED BY <3>1, Zenon DEF Claim
  <2> HIDE DEF mine, b
  <2> QED BY <1>1, <1>3, <1>4, <2>1, <2>2
<1> QED BY <1>5 DEF NoneArgued

(* internal_create_claim, and the proposal that may come before it         *)
LEMMA CreateTame ==
  ASSUME Shape, NEW k, NEW deadline \in Nat \cup {Nil},
         NEW slot \in Places \cup {Nil}, NEW proposal \in BOOLEAN,
         NEW attached, CreateClaim(k, deadline, slot, proposal, attached)
  PROVE  NoneArgued
<1> DEFINE c == [NoClaim EXCEPT !.status = "New", !.deadline = deadline,
                                !.slot = slot, !.bond = config.bond,
                                !.approve_proposal = proposal]
<1>1. /\ NoClaim \in Claim /\ "New" \in ClaimStatus /\ config.bond \in Nat
      /\ claims \in [ClaimKey -> Claim]
  BY DEF NoClaim, Claim, ClaimStatus, Shape, TypeOK, Config
<1>2. c \in Claim /\ c.status = "New"
  BY <1>1, Zenon DEF Claim
<1>3. \/ ApproveClaimant(k, c, Nil)
      \/ claims' = [claims EXCEPT ![k] = c]
  BY Zenon DEF CreateClaim
<1> HIDE DEF c
<1>4. CASE claims' = [claims EXCEPT ![k] = c]
  BY <1>1, <1>2, <1>4 DEF NoneArgued
<1> QED BY <1>2, <1>3, <1>4, ApproveTame

LEMMA ProposeTame ==
  ASSUME Shape, NEW q, NEW k, NEW deadline \in Nat \cup {Nil},
         NEW slot \in Places \cup {Nil}, NEW attached,
         ProposeOrCreateClaim(q, k, deadline, slot, attached)
  PROVE  Tame(q)
<1>1. \/ \E c : Send(q, c) /\ UNCHANGED claims
      \/ CreateClaim(k, deadline, slot, FALSE, attached) /\ calls' = q
  BY Zenon DEF ProposeOrCreateClaim, Propose
<1>2. FALSE \in BOOLEAN
  OBVIOUS
<1> QED BY <1>1, <1>2, SentTame, CreateTame DEF Tame, SendsOne

(* internal_claim_done, and the proposal that may come before it           *)
LEMMA DoneTame ==
  ASSUME Shape, NEW k, NEW proposal, ClaimDone(k, proposal)
  PROVE  NoneArgued
<1>1. claims \in [ClaimKey -> Claim]
  BY DEF Shape, TypeOK
<1>2. PICK p : claims' = [claims EXCEPT ![k] =
                            [@ EXCEPT !.status = "Completed",
                                      !.payout_proposal = p]]
  BY Zenon DEF ClaimDone
<1>3. ASSUME NEW j \in ClaimKey
      PROVE  claims'[j].status \in {claims[j].status, "Completed"}
  <2>1. claims[j] \in Claim
    BY <1>1
  <2>2. [claims[j] EXCEPT !.status = "Completed",
                          !.payout_proposal = p].status = "Completed"
    BY <2>1, Zenon DEF Claim
  <2> QED BY <1>1, <1>2, <2>2
<1> QED BY <1>3 DEF NoneArgued

LEMMA FinishTame ==
  ASSUME Shape, NEW q, NEW k, ProposeOrFinish(q, k)
  PROVE  Tame(q)
<1>1. \/ \E c : Send(q, c) /\ UNCHANGED claims
      \/ ClaimDone(k, FALSE) /\ calls' = q
  BY Zenon DEF ProposeOrFinish, Propose
<1> QED BY <1>1, SentTame, DoneTame DEF Tame, SendsOne

(* internal_reject_claim                                                   *)
LEMMA RejectTame ==
  ASSUME Shape, NEW k, RejectClaim(k)
  PROVE  NoneArgued
<1>1. \/ ResetBounty(k, "NotCompleted", TRUE)
      \/ claims' = [claims EXCEPT ![k] = [@ EXCEPT !.status = "Rejected",
                                                   !.rejected_at = now]]
  BY Zenon DEF RejectClaim
<1>2. CASE claims' = [claims EXCEPT ![k] = [@ EXCEPT !.status = "Rejected",
                                                     !.rejected_at = now]]
  <2>1. claims \in [ClaimKey -> Claim]
    BY DEF Shape, TypeOK
  <2>2. ASSUME NEW j \in ClaimKey
        PROVE  claims'[j].status \in {claims[j].status, "Rejected"}
    <3>1. claims[j] \in Claim
      BY <2>1
    <3>2. [claims[j] EXCEPT !.status = "Rejected",
                            !.rejected_at = now].status = "Rejected"
      BY <3>1, Zenon DEF Claim
    <3> QED BY <1>2, <2>1, <3>2
  <2> QED BY <2>2 DEF NoneArgued
<1> QED BY <1>1, <1>2, CloseTame

(* internal_bounty_payout and internal_bounty_completion                   *)
LEMMA CompleteTame ==
  ASSUME Shape, NEW id, NEW k, NEW amounts, NEW place,
         Complete(id, k, amounts, place)
  PROVE  NoneArgued
<1>1. UNCHANGED claims \/ CloseClaim(k, "Approved", TRUE)
  BY Zenon DEF Complete
<1> QED BY <1>1, CloseTame DEF NoneArgued

LEMMA PayoutTame ==
  ASSUME Shape, NEW q, NEW id, NEW k, NEW place, Payout(q, id, k, place)
  PROVE  Tame(q)
<1>1. \/ \E c : Send(q, c) /\ UNCHANGED claims
      \/ \E amounts : Complete(id, k, amounts, place) /\ calls' = q
  BY Zenon DEF Payout
<1> QED BY <1>1, SentTame, CompleteTame DEF Tame, SendsOne

(* A dispute is settled.                                                   *)
LEMMA SettleTame ==
  ASSUME Shape, NEW q, NEW k, NEW success, SettleDispute(q, k, success)
  PROVE  Tame(q)
<1>1. \/ ResetBounty(k, "NotCompleted", TRUE) /\ calls' = q
      \/ ReturnedAfterDispute(k) /\ calls' = q
      \/ Payout(q, k[1], k, Nil)
  BY Zenon DEF SettleDispute
<1>2. ReturnedAfterDispute(k) => NoneArgued
  BY StatusTame DEF ReturnedAfterDispute
<1> QED BY <1>1, <1>2, CloseTame, PayoutTame DEF Tame, SendsOne

(* The calls that name a bounty and no claim of it.                        *)
LEMMA OnBountyTame ==
  ASSUME Shape, NEW id \in BountyId, OnBounty(id)
  PROVE  Tame(calls)
<1>1. ASSUME \/ \E t \in Offers : ft_on_transfer(id, t) \/ bounty_create(id, t)
             \/ start_competition(id)
             \/ \E u \in Updates : bounty_update(id, u)
      PROVE  Tame(calls)
  <2>1. UNCHANGED claims /\ UNCHANGED calls
    BY <1>1, Zenon DEF ft_on_transfer, bounty_create, AddBounty,
                       start_competition, bounty_update
  <2> QED BY <2>1, StillTame
<1>2. CASE bounty_cancel(id)
  <2>1. UNCHANGED claims /\ (UNCHANGED calls \/ \E c : Send(calls, c))
    BY <1>2, Zenon DEF bounty_cancel
  <2> QED BY <2>1, SentTame, StillTame
<1>3. ASSUME NEW who \in Claimants, NEW deadline \in Deadlines,
             NEW slot \in Places \cup {Nil},
             bounty_claim(who, id, deadline, slot)
      PROVE  Tame(calls)
  <2>1. \/ \E c : Send(calls, c) /\ UNCHANGED claims
        \/ ProposeOrCreateClaim(calls, NextKey(id, who), deadline, slot,
                                config.bond)
    BY <1>3, Zenon DEF bounty_claim
  <2>2. deadline \in Nat \cup {Nil}
    BY BountiesAssumption
  <2> QED BY <2>1, <2>2, SentTame, ProposeTame
<1>4. ASSUME NEW sender, bounty_approve_of_several(sender, id)
      PROVE  Tame(calls)
  BY <1>4, PayoutTame DEF bounty_approve_of_several
<1>5. CASE bounty_finalize_all(id)
  <2>1. UNCHANGED claims /\ \E c : Send(calls, c)
    BY <1>5, Zenon DEF bounty_finalize_all, AskPayoutProposal
  <2> QED BY <2>1, SentTame
<1>6. CASE return_proposal_bond(id)
  <2>1. UNCHANGED claims /\ UNCHANGED calls
    BY <1>6, Zenon DEF return_proposal_bond
  <2> QED BY <2>1, StillTame
<1> QED BY <1>1, <1>2, <1>3, <1>4, <1>5, <1>6, Zenon DEF OnBounty

(* The claimants' calls.                                                   *)
LEMMA ClaimantTame ==
  ASSUME Shape, NEW k \in ClaimKey,
         \/ bounty_done(k) \/ bounty_give_up(k) \/ withdraw(k)
         \/ open_dispute(k)
  PROVE  Tame(calls)
<1>1. CASE bounty_done(k)
  <2>1. \/ ResetBounty(k, "Expired", FALSE) /\ UNCHANGED calls
        \/ CloseClaim(k, "NotCompleted", TRUE) /\ UNCHANGED calls
        \/ \E c : Send(calls, c) /\ UNCHANGED claims
        \/ ProposeOrFinish(calls, k)
    BY <1>1, Zenon DEF bounty_done
  <2> QED BY <2>1, CloseTame, SentTame, FinishTame DEF Tame, SendsOne
<1>2. CASE bounty_give_up(k)
  <2>1. /\ UNCHANGED calls
        /\ \E returned : \/ ResetBounty(k, "Canceled", returned)
                         \/ CloseClaim(k, "Canceled", returned)
    BY <1>2, Zenon DEF bounty_give_up
  <2> QED BY <2>1, CloseTame DEF Tame, SendsOne
<1>3. CASE withdraw(k)
  <2>1. \/ CloseClaim(k, "Approved", TRUE) /\ UNCHANGED calls
        \/ \E c : Send(calls, c) /\ UNCHANGED claims
    BY <1>3, Zenon DEF withdraw, SlotFinalize
  <2> QED BY <2>1, CloseTame, SentTame DEF Tame, SendsOne
<1>4. CASE open_dispute(k)
  <2>1. UNCHANGED claims /\ \E c : Send(calls, c)
    BY <1>4, Zenon DEF open_dispute
  <2> QED BY <2>1, SentTame
<1> QED BY <1>1, <1>2, <1>3, <1>4

(* What is noted about a claim does not change its status.                 *)
LEMMA NotesTame ==
  ASSUME Shape, NEW k \in ClaimKey,
         \/ \E deadline \in Deadlines : extend_claim_deadline(k, deadline)
         \/ \E place : mark_as_paid(k, place)
         \/ confirm_payment(k)
  PROVE  Tame(calls)
<1>1. claims \in [ClaimKey -> Claim]
  BY DEF Shape, TypeOK
<1>2. UNCHANGED calls
  BY Zenon DEF extend_claim_deadline, mark_as_paid, confirm_payment
<1>3. \/ UNCHANGED claims
      \/ \E d : claims' = [claims EXCEPT ![k] = [@ EXCEPT !.deadline = d]]
      \/ claims' = [claims EXCEPT ![k] = [@ EXCEPT !.payment_at = TRUE]]
      \/ claims' = [claims EXCEPT
                      ![k] = [@ EXCEPT !.payment_confirmed_at = TRUE]]
  BY Zenon DEF extend_claim_deadline, mark_as_paid, confirm_payment
<1>4. claims'[k].status = claims[k].status
  <2>1. claims[k] \in Claim
    BY <1>1
  <2>2. ASSUME NEW c, claims' = [claims EXCEPT ![k] = c]
        PROVE  claims'[k] = c
    BY <1>1, <2>2
  <2>3. ASSUME NEW d,
               claims' = [claims EXCEPT ![k] = [@ EXCEPT !.deadline = d]]
        PROVE  claims'[k].status = claims[k].status
    <3>1. claims'[k] = [claims[k] EXCEPT !.deadline = d]
      BY <2>2, <2>3
    <3> QED BY <2>1, <3>1, Zenon DEF Claim
  <2>4. CASE claims' = [claims EXCEPT ![k] = [@ EXCEPT !.payment_at = TRUE]]
    <3>1. claims'[k] = [claims[k] EXCEPT !.payment_at = TRUE]
      BY <2>2, <2>4
    <3> QED BY <2>1, <3>1, Zenon DEF Claim
  <2>5. CASE claims' = [claims EXCEPT
                          ![k] = [@ EXCEPT !.payment_confirmed_at = TRUE]]
    <3>1. claims'[k] = [claims[k] EXCEPT !.payment_confirmed_at = TRUE]
      BY <2>2, <2>5
    <3> QED BY <2>1, <3>1, Zenon DEF Claim
  <2> QED BY <1>3, <2>3, <2>4, <2>5
<1>5. ASSUME NEW j \in ClaimKey, j # k
      PROVE  claims'[j] = claims[j]
  BY <1>1, <1>3, <1>5
<1> QED BY <1>2, <1>4, <1>5 DEF Tame, NoneArgued, SendsOne

(* bounty_finalize                                                         *)
LEMMA FinalizeTame ==
  ASSUME Shape, NEW k \in ClaimKey, bounty_finalize(k)
  PROVE  Tame(calls)
<1>1. \/ ResetBounty(k, "Expired", FALSE) /\ UNCHANGED calls
      \/ ResetBounty(k, "NotCompleted", TRUE) /\ UNCHANGED calls
      \/ \E c : Send(calls, c) /\ UNCHANGED claims
      \/ /\ UNCHANGED calls
         /\ \E s \in {"Canceled", "NotCompleted"} : CloseClaim(k, s, TRUE)
  <2>1. CASE FinalizeActive(k)
    BY <2>1, Zenon DEF FinalizeActive, AskPayoutProposal
  <2>2. CASE FinalizeInactive(k)
    BY <2>2, Zenon DEF FinalizeInactive
  <2> QED BY <2>1, <2>2, Zenon DEF bounty_finalize
<1> QED BY <1>1, CloseTame, SentTame DEF Tame, SendsOne

(* The decisions of the owner and of the reviewers.                        *)
LEMMA DecisionTame ==
  ASSUME Shape, NEW k \in ClaimKey, NEW sender,
         \/ \E delayed : accept_claimant(sender, k, delayed)
         \/ decline_claimant(sender, k)
         \/ \E place : bounty_approve(sender, k, place)
         \/ bounty_reject(sender, k)
  PROVE  Tame(calls)
<1>1. ASSUME NEW delayed, accept_claimant(sender, k, delayed)
      PROVE  Tame(calls)
  <2>1. /\ claims[k].status = "New"
        /\ \/ \E c : Send(calls, c) /\ UNCHANGED claims
           \/ ApproveClaimant(k, claims[k], delayed) /\ UNCHANGED calls
    BY <1>1, Zenon DEF accept_claimant, MayDecide
  <2>2. claims[k] \in Claim
    BY DEF Shape, TypeOK
  <2> QED BY <2>1, <2>2, SentTame, ApproveTame DEF Tame, SendsOne
<1>2. CASE decline_claimant(sender, k)
  <2>1. CloseClaim(k, "NotHired", TRUE) /\ UNCHANGED calls
    BY <1>2, Zenon DEF decline_claimant, DeclineClaimant
  <2> QED BY <2>1, CloseTame DEF Tame, SendsOne
<1>3. ASSUME NEW place, bounty_approve(sender, k, place)
      PROVE  Tame(calls)
  BY <1>3, PayoutTame DEF bounty_approve
<1>4. CASE bounty_reject(sender, k)
  <2>1. RejectClaim(k) /\ UNCHANGED calls
    BY <1>4 DEF bounty_reject
  <2> QED BY <2>1, RejectTame DEF Tame, SendsOne
<1> QED BY <1>1, <1>2, <1>3, <1>4

(* What the accounts do by themselves.                                     *)
LEMMA OwnTame ==
  ASSUME Shape, OwnStep
  PROVE  Tame(calls)
<1>1. ASSUME NEW k \in ClaimKey, ClaimCall(k)
      PROVE  Tame(calls)
  BY <1>1, ClaimantTame, NotesTame, FinalizeTame, DecisionTame DEF ClaimCall
<1>2. CASE change_config \/ withdraw_non_refunded_bonds
  BY <1>2, StillTame DEF change_config, withdraw_non_refunded_bonds
<1>3. CASE withdraw_platform_fee \/ withdraw_validators_dao_fee
  <2>1. UNCHANGED claims /\ \E c : Send(calls, c)
    BY <1>3, Zenon DEF withdraw_platform_fee, withdraw_validators_dao_fee,
                       SendFees
  <2> QED BY <2>1, SentTame
<1> QED BY <1>1, <1>2, <1>3, OnBountyTame DEF OwnStep

(* The transfer of a reward.                                               *)
LEMMA PaidTame ==
  ASSUME Shape, NEW i, after_ft_transfer(i)
  PROVE  Tame(Answered(i))
<1>1. /\ calls' = Answered(i)
      /\ \/ UNCHANGED claims
         \/ \E id, k, amounts, place : Complete(id, k, amounts, place)
  BY Zenon DEF after_ft_transfer
<1> QED BY <1>1, StillTame, CompleteTame DEF Tame, SendsOne

(* The answer of the dispute contract that a dispute has ended.            *)
LEMMA EndedTame ==
  ASSUME Shape, NEW i, NEW success, after_get_dispute(i, success)
  PROVE  Tame(Answered(i))
BY SettleTame DEF after_get_dispute

(* The answer of the KYC whitelist contract.                               *)
LEMMA KycTame ==
  ASSUME Shape, NEW i \in 1 .. Len(calls), after_check_if_whitelisted(i)
  PROVE  Tame(Answered(i))
<1>1. PICK k, deadline, slot, delayed :
         /\ k = calls[i].claim /\ deadline = calls[i].deadline
         /\ slot = calls[i].slot /\ delayed = calls[i].delayed
  OBVIOUS
<1>2. /\ k \in ClaimKey /\ deadline \in Nat \cup {Nil}
      /\ slot \in Places \cup {Nil}
  BY <1>1, AnsweredType, CallFacts DEF after_check_if_whitelisted
<1>3. \/ \E j : ProposeOrCreateClaim(Answered(i), j, deadline, slot, 0)
      \/ /\ claims[k].status = "New" /\ ApproveClaimant(k, claims[k], delayed)
         /\ calls' = Answered(i)
      \/ ProposeOrFinish(Answered(i), k)
  BY <1>1, Zenon DEF after_check_if_whitelisted, MayDecide
<1>4. claims[k] \in Claim
  BY <1>2 DEF Shape, TypeOK
<1> QED BY <1>2, <1>3, <1>4, ProposeTame, ApproveTame, FinishTame
        DEF Tame, SendsOne

(* The answers of the validators DAO.                                      *)
LEMMA DaoTame ==
  ASSUME Shape, NEW i \in 1 .. Len(calls),
         \/ after_add_proposal(i) \/ on_added_proposal_callback(i)
         \/ \E approved \in BOOLEAN :
               \/ after_check_approve_claimant_proposal(i, approved)
               \/ after_check_bounty_payout_proposal(i, approved)
  PROVE  Tame(Answered(i))
<1>0. calls[i] \in Calls
  BY AnsweredType
<1>1. CASE after_add_proposal(i)
  <2>1. PICK deadline, slot :
           deadline = calls[i].deadline /\ slot = calls[i].slot
    OBVIOUS
  <2>2. calls' = Answered(i) /\ \E j : CreateClaim(j, deadline, slot, TRUE, 0)
    BY <1>1, <2>1, Zenon DEF after_add_proposal
  <2>3. deadline \in Nat \cup {Nil} /\ slot \in Places \cup {Nil}
    BY <1>0, <1>1, <2>1, CallFacts DEF after_add_proposal
  <2>4. TRUE \in BOOLEAN
    OBVIOUS
  <2> QED BY <2>2, <2>3, <2>4, CreateTame DEF Tame, SendsOne
<1>2. CASE on_added_proposal_callback(i)
  BY <1>2, DoneTame DEF on_added_proposal_callback, Tame, SendsOne
<1>3. ASSUME NEW approved,
             after_check_approve_claimant_proposal(i, approved)
      PROVE  Tame(Answered(i))
  <2>1. PICK k : k = calls[i].claim
    OBVIOUS
  <2>2. /\ claims[k].status = "New" /\ calls' = Answered(i)
        /\ \/ ApproveClaimant(k, claims[k], Nil)
           \/ CloseClaim(k, "NotHired", TRUE)
    BY <1>3, <2>1, Zenon
       DEF after_check_approve_claimant_proposal, MayDecide, DeclineClaimant
  <2>3. claims[k] \in Claim
    BY <1>0, <1>3, <2>1, CallFacts
       DEF after_check_approve_claimant_proposal, Shape, TypeOK
  <2> QED BY <2>2, <2>3, ApproveTame, CloseTame DEF Tame, SendsOne
<1>4. ASSUME NEW approved, after_check_bounty_payout_proposal(i, approved)
      PROVE  Tame(Answered(i))
  <2>1. \/ \E id, k : Payout(Answered(i), id, k, Nil)
        \/ calls' = Answered(i) /\ \E k : RejectClaim(k)
    BY <1>4, Zenon DEF after_check_bounty_payout_proposal
  <2> QED BY <2>1, PayoutTame, RejectTame DEF Tame, SendsOne
<1> QED BY <1>1, <1>2, <1>3, <1>4

(* The answers of other contracts than the disputes'.                      *)
LEMMA AnswerTame ==
  ASSUME Shape, NEW i \in 1 .. Len(calls), Answer(i),
         calls[i].kind # "createDispute"
  PROVE  Tame(Answered(i))
<1>1. CASE Drop(i) \/ after_refund_bounty_amount(i) \/ after_fees_payout(i)
  <2>1. UNCHANGED claims /\ calls' = Answered(i)
    BY <1>1, Zenon DEF Drop, after_refund_bounty_amount, after_fees_payout
  <2> QED BY <2>1, StillTame
<1>2. CASE after_bounty_withdraw(i)
  <2>1. /\ calls' = Answered(i)
        /\ UNCHANGED claims \/ \E k : CloseClaim(k, "Approved", TRUE)
    BY <1>2, Zenon DEF after_bounty_withdraw, SlotFinalize
  <2> QED BY <2>1, StillTame, CloseTame DEF Tame, SendsOne
<1>3. ~after_create_dispute(i)
  BY DEF after_create_dispute
<1> QED BY <1>1, <1>2, <1>3, PaidTame, EndedTame, KycTame, DaoTame DEF Answer

----------------------------------------------------------------------------
(* A disputed claim has a dispute.                                         *)

(* Promise i to open a dispute has been answered: the dispute is d.        *)
Opened(i, d) ==
  calls[i].kind = "createDispute" /\ replies[i] # Nil /\ replies[i].id = d

(* There is a reply, or the absence of one, for each promise.              *)
Parallel == Len(replies) = Len(calls) /\ \E S : replies \in Seq(S)

(* What ties claims to disputes: a claim knows of no dispute but its own,  *)
(* and of one while it is disputed; a promise that opened a dispute opened *)
(* it on its own claim, alone, and the claim does not know of it yet.      *)
Linked ==
  /\ Parallel
  /\ dispute_ids \in [ClaimKey -> Nat \cup {Nil}]
  /\ \A k \in ClaimKey :
       /\ dispute_ids[k] # Nil =>
            /\ dispute_ids[k] \in DOMAIN disputes
            /\ disputes[dispute_ids[k]].claim = k
       /\ claims[k].status = "Disputed" => dispute_ids[k] # Nil
  /\ \A i \in 1 .. Len(calls) : \A d : Opened(i, d) =>
       /\ d \in DOMAIN disputes
       /\ disputes[d].claim = calls[i].claim
       /\ dispute_ids[calls[i].claim] # d
       /\ \A j \in 1 .. Len(calls) : Opened(j, d) => i = j

(* The promises that are out after the step and have opened a dispute are  *)
(* some of those in `left', each of them at one place.                     *)
Carried(left) ==
  \A i, j \in 1 .. Len(calls') : \A d :
     Opened(i, d)' /\ Opened(j, d)' =>
       \E m, n \in left :
          /\ Opened(m, d) /\ calls[m].claim = calls'[i].claim
          /\ Opened(n, d) /\ calls[n].claim = calls'[j].claim
          /\ m = n => i = j

(* The promises q and their replies r are left, with at most one promise   *)
(* more, and that one has opened nothing.                                  *)
SendsNew(q, r) ==
  \/ calls' = q /\ replies' = r
  \/ \E c, x : /\ calls' = Append(q, c) /\ replies' = Append(r, x)
               /\ c.kind = "createDispute" => x = Nil

(* No dispute is taken away or moved to another claim.                     *)
DisputesGrow ==
  /\ DOMAIN disputes \subseteq DOMAIN disputes'
  /\ \A d \in DOMAIN disputes : disputes'[d].claim = disputes[d].claim

----------------------------------------------------------------------------
(* The promises and their replies.                                         *)

LEMMA SendsReplied ==
  ASSUME NEW q \in Seq(Calls), NEW r, calls' \in Seq(Calls), SendsOne(q),
         RepliesFrom(r), Len(r) = Len(q)
  PROVE  SendsNew(q, r)
<1>1. CASE calls' = q
  BY <1>1 DEF RepliesFrom, SendsNew
<1>2. ASSUME NEW c, calls' = Append(q, c)
      PROVE  SendsNew(q, r)
  <2>1. Len(calls') = Len(q) + 1 /\ calls'[Len(q) + 1] = c /\ Len(q) \in Nat
    BY <1>2
  <2>2. Last(calls') = c
    BY <2>1 DEF Last
  <2>3. replies' = Append(r, NewReply)
    BY <2>1 DEF RepliesFrom
  <2>4. c.kind = "createDispute" => NewReply = Nil
    BY <2>2 DEF NewReply
  <2> QED BY <1>2, <2>3, <2>4 DEF SendsNew
<1> QED BY <1>1, <1>2 DEF SendsOne

(* The promises q and their replies r were, in another order maybe, among  *)
(* those in `left', the one at j at f[j].                                  *)
Picked(q, r, left, f) ==
  /\ \A j \in 1 .. Len(q) :
        f[j] \in left /\ q[j] = calls[f[j]] /\ r[j] = replies[f[j]]
  /\ \A i, j \in 1 .. Len(q) : f[i] = f[j] => i = j

LEMMA CarriedFrom ==
  ASSUME NEW q \in Seq(Calls), NEW S, NEW r \in Seq(S), Len(r) = Len(q),
         calls' \in Seq(Calls), SendsNew(q, r), NEW left, NEW f,
         Picked(q, r, left, f)
  PROVE  Parallel' /\ Carried(left)
<1>1. Parallel'
  <2>1. CASE calls' = q /\ replies' = r
    BY <2>1 DEF Parallel
  <2>2. ASSUME NEW c, NEW x, calls' = Append(q, c), replies' = Append(r, x)
        PROVE  Parallel'
    <3>1. Len(calls') = Len(q) + 1
      BY <2>2
    <3>2. r \in Seq(S \cup {x}) /\ x \in S \cup {x}
      OBVIOUS
    <3>3. replies' \in Seq(S \cup {x}) /\ Len(replies') = Len(r) + 1
      BY <2>2, <3>2, AppendKeeps
    <3> QED BY <3>1, <3>3 DEF Parallel
  <2> QED BY <2>1, <2>2 DEF SendsNew
<1>2. ASSUME NEW j \in 1 .. Len(calls'), NEW d, Opened(j, d)'
      PROVE  j \in 1 .. Len(q) /\ calls'[j] = q[j] /\ replies'[j] = r[j]
  <2>1. CASE calls' = q /\ replies' = r
    BY <2>1
  <2>2. ASSUME NEW c, NEW x, calls' = Append(q, c), replies' = Append(r, x),
               c.kind = "createDispute" => x = Nil
        PROVE  j \in 1 .. Len(q) /\ calls'[j] = q[j] /\ replies'[j] = r[j]
    <3>1. Len(calls') = Len(q) + 1 /\ Len(q) \in Nat
      BY <2>2
    <3>2. r \in Seq(S \cup {x}) /\ x \in S \cup {x}
      OBVIOUS
    <3>3. /\ replies'[Len(q) + 1] = x
          /\ \A m \in 1 .. Len(q) : replies'[m] = r[m]
      BY <2>2, <3>2, AppendKeeps
    <3>4. /\ calls'[Len(q) + 1] = c
          /\ \A m \in 1 .. Len(q) : calls'[m] = q[m]
      BY <2>2
    <3>5. j # Len(q) + 1
      BY <1>2, <2>2, <3>3, <3>4 DEF Opened
    <3>6. j \in 1 .. Len(q)
      BY <3>1, <3>5
    <3> QED BY <3>3, <3>4, <3>6
  <2> QED BY <2>1, <2>2 DEF SendsNew
<1>3. ASSUME NEW j \in 1 .. Len(calls'), NEW d, Opened(j, d)'
      PROVE  /\ f[j] \in left /\ Opened(f[j], d)
             /\ calls[f[j]].claim = calls'[j].claim
  BY <1>2, <1>3 DEF Opened, Picked
<1>4. ASSUME NEW i \in 1 .. Len(calls'), NEW j \in 1 .. Len(calls'), NEW d,
             Opened(i, d)', Opened(j, d)'
      PROVE  f[i] = f[j] => i = j
  BY <1>2, <1>4 DEF Picked
<1> QED BY <1>1, <1>3, <1>4 DEF Carried

(* No promise is answered.                                                 *)
LEMMA CarriedAll ==
  ASSUME Shape, calls' \in Seq(Calls), Parallel, SendsNew(calls, replies)
  PROVE  Parallel' /\ Carried(1 .. Len(calls))
<1>1. PICK S : replies \in Seq(S)
  BY DEF Parallel
<1>2. calls \in Seq(Calls) /\ Len(replies) = Len(calls)
  BY DEF Shape, TypeOK, Parallel
<1>3. PICK f : f = [j \in 1 .. Len(calls) |-> j]
  OBVIOUS
<1>4. PICK left : left = 1 .. Len(calls)
  OBVIOUS
<1>5. \A j \in 1 .. Len(calls) :
        /\ f[j] = j /\ f[j] \in left
        /\ calls[j] = calls[f[j]] /\ replies[j] = replies[f[j]]
  BY <1>3, <1>4
<1>6. \A i, j \in 1 .. Len(calls) : f[i] = f[j] => i = j
  BY <1>3
<1>7. Picked(calls, replies, left, f)
  BY <1>5, <1>6 DEF Picked
<1>8. Parallel' /\ Carried(left)
  BY <1>1, <1>2, <1>7, CarriedFrom
<1> QED BY <1>4, <1>8

(* Promise i is answered.                                                  *)
LEMMA CarriedRest ==
  ASSUME Shape, calls' \in Seq(Calls), Parallel, NEW i \in 1 .. Len(calls),
         SendsNew(Answered(i), RemoveAt(replies, i))
  PROVE  Parallel' /\ Carried((1 .. Len(calls)) \ {i})
<1>1. PICK S : replies \in Seq(S)
  BY DEF Parallel
<1>2. calls \in Seq(Calls) /\ Len(replies) = Len(calls) /\ Len(calls) \in Nat
  BY DEF Shape, TypeOK, Parallel
<1>3. /\ Answered(i) \in Seq(Calls) /\ Len(Answered(i)) = Len(calls) - 1
      /\ \A j \in 1 .. Len(calls) - 1 :
           Answered(i)[j] = calls[IF j < i THEN j ELSE j + 1]
  BY <1>2, RemoveAtKeeps DEF Answered
<1>4. /\ RemoveAt(replies, i) \in Seq(S)
      /\ Len(RemoveAt(replies, i)) = Len(calls) - 1
      /\ \A j \in 1 .. Len(calls) - 1 :
           RemoveAt(replies, i)[j] = replies[IF j < i THEN j ELSE j + 1]
  <2>1. i \in 1 .. Len(replies) /\ Len(replies) - 1 = Len(calls) - 1
    BY <1>2
  <2>2. PICK r : r = replies
    OBVIOUS
  <2>3. /\ RemoveAt(r, i) \in Seq(S) /\ Len(RemoveAt(r, i)) = Len(r) - 1
        /\ \A j \in 1 .. Len(r) - 1 :
             RemoveAt(r, i)[j] = r[IF j < i THEN j ELSE j + 1]
    BY <1>1, <2>1, <2>2, RemoveAtKeeps
  <2> QED BY <1>2, <2>2, <2>3
<1>5. PICK f : f = [j \in 1 .. Len(calls) - 1 |-> IF j < i THEN j ELSE j + 1]
  OBVIOUS
<1>8. PICK left : left = (1 .. Len(calls)) \ {i}
  OBVIOUS
<1>6. \A j \in 1 .. Len(calls) - 1 :
        /\ f[j] \in left
        /\ Answered(i)[j] = calls[f[j]]
        /\ RemoveAt(replies, i)[j] = replies[f[j]]
  BY <1>2, <1>3, <1>4, <1>5, <1>8
<1>7. \A j, m \in 1 .. Len(calls) - 1 : f[j] = f[m] => j = m
  BY <1>2, <1>5
<1>9. PICK q, r : q = Answered(i) /\ r = RemoveAt(replies, i)
  OBVIOUS
<1>10. Len(r) = Len(q) /\ Len(q) = Len(calls) - 1
  BY <1>3, <1>4, <1>9
<1>11. Picked(q, r, left, f)
  BY <1>6, <1>7, <1>9, <1>10 DEF Picked
<1>12. q \in Seq(Calls) /\ r \in Seq(S) /\ SendsNew(q, r)
  BY <1>3, <1>4, <1>9
<1>13. Parallel' /\ Carried(left)
  BY <1>10, <1>11, <1>12, CarriedFrom
<1> QED BY <1>8, <1>13

(* The promises stay, and a reply to one that opens no dispute changes.    *)
LEMMA CarriedSame ==
  ASSUME Parallel, UNCHANGED calls, NEW i \in 1 .. Len(calls), NEW x,
         calls[i].kind # "createDispute",
         replies' = [replies EXCEPT ![i] = x]
  PROVE  Parallel' /\ Carried(1 .. Len(calls))
<1>1. PICK S : replies \in Seq(S)
  BY DEF Parallel
<1>2. replies' \in Seq(S \cup {x}) /\ Len(replies') = Len(replies)
  <2>1. replies \in Seq(S \cup {x}) /\ x \in S \cup {x}
    BY <1>1
  <2>2. i \in 1 .. Len(replies)
    BY DEF Parallel
  <2> QED BY <2>1, <2>2
<1>3. Parallel'
  BY <1>2 DEF Parallel
<1>4. ASSUME NEW j \in 1 .. Len(calls), j # i
      PROVE  replies'[j] = replies[j]
  BY <1>1, <1>4 DEF Parallel
<1>5. ASSUME NEW j \in 1 .. Len(calls), NEW d, Opened(j, d)'
      PROVE  Opened(j, d)
  BY <1>4, <1>5 DEF Opened
<1> QED BY <1>3, <1>5 DEF Carried

----------------------------------------------------------------------------
(* What the steps do to the links.                                         *)

(* A claim keeps its dispute or, made anew, has none; and a claim that is  *)
(* disputed was so, with the same dispute.                                 *)
IdsKept ==
  /\ dispute_ids' \in [ClaimKey -> Nat \cup {Nil}]
  /\ \A k \in ClaimKey :
       /\ dispute_ids'[k] \in {Nil, dispute_ids[k]}
       /\ claims'[k].status = "Disputed" =>
            claims[k].status = "Disputed" /\ dispute_ids'[k] = dispute_ids[k]

LEMMA IdsSame ==
  ASSUME Linked, NoneArgued, UNCHANGED dispute_ids
  PROVE  IdsKept
BY DEF Linked, NoneArgued, IdsKept

LEMMA IdsRenewed ==
  ASSUME Linked, NoneArgued, ClaimsRenewed
  PROVE  IdsKept
<1>1. dispute_ids \in [ClaimKey -> Nat \cup {Nil}]
  BY DEF Linked
<1>2. ASSUME NEW k \in ClaimKey
      PROVE  dispute_ids'[k] =
               IF claims[k].status \in Over /\ claims'[k].status \notin Over
               THEN Nil ELSE dispute_ids[k]
  BY DEF ClaimsRenewed
<1>3. dispute_ids' \in [ClaimKey -> Nat \cup {Nil}]
  <2>1. dispute_ids' = [k \in ClaimKey |-> dispute_ids'[k]]
    BY DEF ClaimsRenewed
  <2>2. \A k \in ClaimKey : dispute_ids'[k] \in Nat \cup {Nil}
    BY <1>1, <1>2
  <2> QED BY <2>1, <2>2
<1>4. ASSUME NEW k \in ClaimKey, claims'[k].status = "Disputed"
      PROVE  claims[k].status = "Disputed" /\ dispute_ids'[k] = dispute_ids[k]
  <2>1. claims[k].status = "Disputed"
    BY <1>4 DEF NoneArgued
  <2> QED BY <1>2, <2>1 DEF Over
<1> QED BY <1>2, <1>3, <1>4 DEF IdsKept

(* The claims of the promises and the numbers of the disputes.             *)
LEMMA LinkTypes ==
  ASSUME Pair
  PROVE  /\ Nil \notin Nat /\ Len(disputes) \in Nat
         /\ DOMAIN disputes = 1 .. Len(disputes)
         /\ \A d \in DOMAIN disputes : disputes[d].claim \in ClaimKey
         /\ \A i \in 1 .. Len(calls) : calls[i].kind = "createDispute" =>
              calls[i].claim \in ClaimKey
<1>1. /\ Len(disputes) \in Nat /\ DOMAIN disputes = 1 .. Len(disputes)
      /\ \A d \in 1 .. Len(disputes) : disputes[d] \in DP!Dispute
  BY DP!OrderTypes, DisputesAssumed DEF Pair, DP!DisputeIds
<1>2. \A d \in DOMAIN disputes : disputes[d].claim \in ClaimKey
  BY <1>1 DEF DP!Dispute
<1> QED BY <1>1, <1>2, OpenedOnClaim, NilAssumption DEF Pair

(* Where the promises that opened a dispute came from.                     *)
LEMMA OpenedFrom ==
  ASSUME Linked, NEW left \in SUBSET (1 .. Len(calls)), Carried(left),
         NEW i \in 1 .. Len(calls'), NEW d, Opened(i, d)'
  PROVE  /\ \E m \in left : Opened(m, d) /\ calls[m].claim = calls'[i].claim
         /\ \A j \in 1 .. Len(calls') : Opened(j, d)' => i = j
<1>1. \E m \in left : Opened(m, d) /\ calls[m].claim = calls'[i].claim
  BY DEF Carried
<1>2. ASSUME NEW j \in 1 .. Len(calls'), Opened(j, d)'
      PROVE  i = j
  <2>1. PICK m, n \in left : Opened(m, d) /\ Opened(n, d) /\ (m = n => i = j)
    BY <1>2 DEF Carried
  <2>2. m = n
    BY <2>1 DEF Linked
  <2> QED BY <2>1, <2>2
<1> QED BY <1>1, <1>2

(* What holds of the claims holds after a step that links nothing.         *)
LEMMA ClaimsLinked ==
  ASSUME Linked, DisputesGrow, IdsKept, NEW k \in ClaimKey
  PROVE  /\ dispute_ids'[k] # Nil =>
              /\ dispute_ids'[k] \in DOMAIN disputes'
              /\ disputes'[dispute_ids'[k]].claim = k
         /\ claims'[k].status = "Disputed" => dispute_ids'[k] # Nil
BY DEF Linked, DisputesGrow, IdsKept

LEMMA LinkKept ==
  ASSUME Pair, Linked, Parallel', NEW left \in SUBSET (1 .. Len(calls)),
         Carried(left), DisputesGrow, IdsKept
  PROVE  Linked'
<1>1. ASSUME NEW i \in 1 .. Len(calls'), NEW d, Opened(i, d)'
      PROVE  /\ d \in DOMAIN disputes'
             /\ disputes'[d].claim = calls'[i].claim
             /\ dispute_ids'[calls'[i].claim] # d
             /\ \A j \in 1 .. Len(calls') : Opened(j, d)' => i = j
  <2>1. PICK m \in left : Opened(m, d) /\ calls[m].claim = calls'[i].claim
    BY <1>1, OpenedFrom
  <2>2. m \in 1 .. Len(calls) /\ calls[m].kind = "createDispute"
    BY <2>1 DEF Opened
  <2>3. /\ d \in DOMAIN disputes /\ disputes[d].claim = calls[m].claim
        /\ dispute_ids[calls[m].claim] # d
    BY <2>1, <2>2 DEF Linked
  <2>4. calls[m].claim \in ClaimKey /\ d # Nil
    BY <2>2, <2>3, LinkTypes
  <2>5. dispute_ids'[calls[m].claim] # d
    BY <2>3, <2>4 DEF IdsKept
  <2>6. d \in DOMAIN disputes' /\ disputes'[d].claim = disputes[d].claim
    BY <2>3 DEF DisputesGrow
  <2> QED BY <1>1, <2>1, <2>3, <2>5, <2>6, OpenedFrom
<1>2. dispute_ids' \in [ClaimKey -> Nat \cup {Nil}]
  BY DEF IdsKept
<1> QED BY <1>1, <1>2, ClaimsLinked DEF Linked

LEMMA StillGrow ==
  ASSUME UNCHANGED disputes
  PROVE  DisputesGrow
BY DEF DisputesGrow

(* The answer to a promise to open a dispute: the dispute is opened.       *)
LEMMA CreateOpens ==
  ASSUME Pair, Parallel, NEW i \in 1 .. Len(calls), CreateDispute(i)
  PROVE  /\ UNCHANGED <<claims, calls, dispute_ids, requests>>
         /\ Parallel' /\ DisputesGrow
         /\ calls[i].kind = "createDispute"
         /\ DOMAIN disputes' = 1 .. Len(disputes) + 1
         /\ \A d \in 1 .. Len(disputes) : disputes'[d] = disputes[d]
         /\ disputes'[Len(disputes) + 1].claim = calls[i].claim
         /\ disputes'[Len(disputes) + 1].status = "New"
         /\ \A d : Opened(i, d)' => d = Len(disputes) + 1
         /\ \A j \in 1 .. Len(calls) : \A d :
              j # i /\ Opened(j, d)' => Opened(j, d)
<1> DEFINE k == calls[i].claim
           n == Len(disputes) + 1
<1>1. PICK delegate, x :
         /\ disputes' = Append(disputes, D!NewDispute(k, delegate))
         /\ replies' = [replies EXCEPT ![i] = x] /\ x.id = n
         /\ UNCHANGED <<vars, dispute_ids, requests>>
         /\ calls[i].kind = "createDispute"
  BY DEF CreateDispute, D!create_dispute
<1>2. Len(disputes) \in Nat /\ DOMAIN disputes = 1 .. Len(disputes)
  BY LinkTypes
<1>3. disputes \in Seq(DP!Dispute)
  BY DP!OrderTypes, DisputesAssumed DEF Pair, DP!DataOK
<1>4. /\ DOMAIN disputes' = 1 .. n
      /\ \A d \in 1 .. Len(disputes) : disputes'[d] = disputes[d]
      /\ disputes'[n].claim = k /\ disputes'[n].status = "New"
  <2>1. /\ D!NewDispute(k, delegate).claim = k
        /\ D!NewDispute(k, delegate).status = "New"
    BY DEF D!NewDispute
  <2> HIDE DEF k
  <2> QED BY <1>1, <1>2, <1>3, <2>1
<1>5. DisputesGrow
  BY <1>2, <1>4 DEF DisputesGrow
<1>6. PICK S : replies \in Seq(S)
  BY DEF Parallel
<1>7. Len(replies) = Len(calls) /\ UNCHANGED <<claims, calls>>
  BY <1>1 DEF Parallel, vars
<1>8. Parallel'
  <2>1. replies \in Seq(S \cup {x}) /\ i \in 1 .. Len(replies)
    BY <1>6, <1>7
  <2>2. replies' \in Seq(S \cup {x}) /\ Len(replies') = Len(replies)
    BY <1>1, <2>1
  <2> QED BY <1>7, <2>2 DEF Parallel
<1>9. /\ replies'[i] = x
      /\ \A j \in 1 .. Len(calls) : j # i => replies'[j] = replies[j]
  BY <1>1, <1>6, <1>7
<1>10. ASSUME NEW d, Opened(i, d)'
       PROVE  d = n
  BY <1>1, <1>9, <1>10 DEF Opened
<1>11. ASSUME NEW j \in 1 .. Len(calls), NEW d, j # i, Opened(j, d)'
       PROVE  Opened(j, d)
  BY <1>7, <1>9, <1>11 DEF Opened
<1> QED BY <1>1, <1>4, <1>5, <1>7, <1>8, <1>10, <1>11

LEMMA CreateLinks ==
  ASSUME Pair, Linked, NEW i \in 1 .. Len(calls), CreateDispute(i)
  PROVE  Linked'
<1>1. PICK k, n : k = calls[i].claim /\ n = Len(disputes) + 1
  OBVIOUS
<1>2. /\ UNCHANGED <<claims, calls, dispute_ids>>
      /\ Parallel' /\ DisputesGrow
      /\ calls[i].kind = "createDispute"
      /\ DOMAIN disputes' = 1 .. n
      /\ disputes'[n].claim = k
  BY <1>1, CreateOpens DEF Linked
<1>3. \A d : Opened(i, d)' => d = n
  BY <1>1, CreateOpens DEF Linked
<1>4. \A j \in 1 .. Len(calls) : \A d : j # i /\ Opened(j, d)' => Opened(j, d)
  BY CreateOpens DEF Linked
<1>5. Len(disputes) \in Nat /\ DOMAIN disputes = 1 .. Len(disputes)
  BY LinkTypes
<1>6. n \notin 1 .. Len(disputes) /\ n \in 1 .. n /\ n \in Nat
  BY <1>1, <1>5
<1>7. ASSUME NEW j \in 1 .. Len(calls), NEW d, Opened(j, d)'
      PROVE  /\ d \in DOMAIN disputes'
             /\ disputes'[d].claim = calls[j].claim
             /\ dispute_ids[calls[j].claim] # d
             /\ \A m \in 1 .. Len(calls) : Opened(m, d)' => j = m
  <2>1. ASSUME NEW m \in 1 .. Len(calls), Opened(m, d)', m # i
        PROVE  d \in 1 .. Len(disputes)
    BY <1>4, <1>5, <2>1 DEF Linked
  <2>2. CASE j = i
    <3>1. d = n /\ calls[j].claim = k
      BY <1>1, <1>3, <1>7, <2>2
    <3>2. \A m \in 1 .. Len(calls) : Opened(m, d)' => j = m
      BY <1>6, <2>1, <2>2, <3>1
    <3>3. dispute_ids[k] # n
      <4>1. k \in ClaimKey /\ Nil \notin Nat
        BY <1>1, <1>2, LinkTypes
      <4> QED BY <1>5, <1>6, <4>1 DEF Linked
    <3> QED BY <1>2, <1>6, <3>1, <3>2, <3>3
  <2>3. CASE j # i
    <3>1. Opened(j, d) /\ d \in 1 .. Len(disputes)
      BY <1>4, <1>7, <2>1, <2>3
    <3>2. ASSUME NEW m \in 1 .. Len(calls), Opened(m, d)'
          PROVE  j = m
      <4>1. m # i
        BY <1>3, <1>6, <3>1, <3>2
      <4> QED BY <1>4, <3>1, <3>2, <4>1 DEF Linked
    <3>3. disputes[d].claim = calls[j].claim /\ dispute_ids[calls[j].claim] # d
      BY <3>1 DEF Linked
    <3> QED BY <1>2, <1>5, <3>1, <3>2, <3>3 DEF DisputesGrow
  <2> QED BY <2>2, <2>3
<1>8. IdsKept
  BY <1>2, IdsSame DEF NoneArgued
<1>9. \A j \in 1 .. Len(calls') : \A d : Opened(j, d)' =>
        /\ d \in DOMAIN disputes'
        /\ disputes'[d].claim = calls'[j].claim
        /\ dispute_ids'[calls'[j].claim] # d
        /\ \A m \in 1 .. Len(calls') : Opened(m, d)' => j = m
  BY <1>2, <1>7
<1>10. dispute_ids' \in [ClaimKey -> Nat \cup {Nil}]
  BY <1>8 DEF IdsKept
<1> QED BY <1>2, <1>8, <1>9, <1>10, ClaimsLinked DEF Linked

(* The answer arrives: the claim learns of its dispute, or it does not     *)
(* want one any more.                                                      *)
LEMMA CreatedLinks ==
  ASSUME Pair, Linked, NEW i \in 1 .. Len(calls), DisputeCreated(i)
  PROVE  /\ Linked' /\ UNCHANGED <<disputes, requests>>
         /\ \E left \in SUBSET (1 .. Len(calls)) :
              i \notin left /\ Carried(left)
<1> DEFINE k == calls[i].claim
           left == (1 .. Len(calls)) \ {i}
<1>1. /\ calls' = Answered(i) /\ replies' = RemoveAt(replies, i)
      /\ calls[i].kind = "createDispute" /\ replies[i] # Nil
      /\ UNCHANGED dispute_vars
  BY DEF DisputeCreated, after_create_dispute, Drop
<1>2. Shape /\ calls' \in Seq(Calls) /\ Parallel /\ UNCHANGED disputes
  BY <1>1, AnsweredType DEF Pair, Linked, dispute_vars
<1>3. Parallel' /\ Carried(left)
  BY <1>1, <1>2, CarriedRest DEF SendsNew
<1>4. left \in SUBSET (1 .. Len(calls)) /\ i \notin left /\ DisputesGrow
  BY <1>2, StillGrow
<1> HIDE DEF left
<1>5. ASSUME Drop(i), UNCHANGED dispute_ids
      PROVE  Linked'
  <2>1. IdsKept
    BY <1>5, IdsSame DEF Drop, NoneArgued
  <2> QED BY <1>3, <1>4, <2>1, LinkKept
<1>6. ASSUME after_create_dispute(i),
             dispute_ids' = [dispute_ids EXCEPT ![k] = replies[i].id]
      PROVE  Linked'
  <2> DEFINE e == replies[i].id
  <2>1. Opened(i, e)
    BY <1>1 DEF Opened
  <2>2. /\ e \in DOMAIN disputes /\ disputes[e].claim = k
        /\ \A j \in 1 .. Len(calls) : Opened(j, e) => i = j
    BY <2>1 DEF Linked
  <2>3. k \in ClaimKey /\ e \in Nat /\ e # Nil
    BY <1>1, <2>2, LinkTypes
  <2>4. claims \in [ClaimKey -> Claim]
    BY <1>2 DEF Shape, TypeOK
  <2>5. \A j \in ClaimKey : j # k => claims'[j] = claims[j]
    BY <1>6, <2>4 DEF after_create_dispute
  <2> HIDE DEF k, e
  <2>6. /\ dispute_ids \in [ClaimKey -> Nat \cup {Nil}]
        /\ dispute_ids' \in [ClaimKey -> Nat \cup {Nil}]
        /\ dispute_ids'[k] = e
        /\ \A j \in ClaimKey : j # k => dispute_ids'[j] = dispute_ids[j]
    BY <1>6, <2>3 DEF Linked, e
  <2>7. ASSUME NEW j \in ClaimKey
        PROVE  /\ dispute_ids'[j] # Nil =>
                    /\ dispute_ids'[j] \in DOMAIN disputes'
                    /\ disputes'[dispute_ids'[j]].claim = j
               /\ claims'[j].status = "Disputed" => dispute_ids'[j] # Nil
    <3>1. CASE j = k
      BY <1>2, <2>2, <2>3, <2>6, <3>1
    <3>2. CASE j # k
      BY <1>2, <2>5, <2>6, <3>2 DEF Linked
    <3> QED BY <3>1, <3>2
  <2>8. ASSUME NEW j \in 1 .. Len(calls'), NEW d, Opened(j, d)'
        PROVE  /\ d \in DOMAIN disputes'
               /\ disputes'[d].claim = calls'[j].claim
               /\ dispute_ids'[calls'[j].claim] # d
               /\ \A m \in 1 .. Len(calls') : Opened(m, d)' => j = m
    <3>1. PICK m \in left : Opened(m, d) /\ calls[m].claim = calls'[j].claim
      BY <1>3, <1>4, <2>8, OpenedFrom
    <3>2. m \in 1 .. Len(calls) /\ m # i /\ calls[m].kind = "createDispute"
      BY <1>4, <3>1 DEF Opened
    <3>3. /\ d \in DOMAIN disputes /\ disputes[d].claim = calls[m].claim
          /\ dispute_ids[calls[m].claim] # d
      BY <3>1, <3>2 DEF Linked
    <3>4. d # e
      BY <2>2, <3>1, <3>2
    <3>5. calls[m].claim \in ClaimKey
      BY <3>2, LinkTypes
    <3>6. dispute_ids'[calls[m].claim] # d
      BY <2>6, <3>3, <3>4, <3>5
    <3>7. \A n \in 1 .. Len(calls') : Opened(n, d)' => j = n
      BY <1>3, <1>4, <2>8, OpenedFrom
    <3> QED BY <1>2, <3>1, <3>3, <3>6, <3>7
  <2> QED BY <1>3, <2>6, <2>7, <2>8 DEF Linked
<1>7. Linked'
  BY <1>5, <1>6 DEF DisputeCreated
<1> QED BY <1>1, <1>3, <1>4, <1>7 DEF dispute_vars

(* The other answers to promises.                                          *)
LEMMA AnswersLink ==
  ASSUME Pair, Linked, NEW i \in 1 .. Len(calls),
         OtherAnswer(i) \/ NoAnswer(i) \/ ResultPaid(i) \/ DisputeRead(i)
  PROVE  /\ Linked' /\ UNCHANGED disputes /\ NoneArgued
         /\ \E left \in SUBSET (1 .. Len(calls)) : Carried(left)
<1>1. Shape /\ Shape' /\ Parallel
  <2>1. JointNext
    BY DEF JointNext
  <2>2. [Next]_vars
    BY <2>1, JointStepBounties DEF Pair
  <2> QED BY <2>2, NextShape DEF Pair, Linked
<1>2. calls' \in Seq(Calls) /\ Answered(i) \in Seq(Calls)
  BY <1>1, AnsweredType DEF Shape, TypeOK
<1>3. Tame(Answered(i)) /\ UNCHANGED disputes
  <2>1. CASE OtherAnswer(i)
    BY <1>1, <2>1, AnswerTame DEF OtherAnswer, dispute_vars
  <2>2. CASE NoAnswer(i)
    BY <2>2, StillTame DEF NoAnswer, Drop, dispute_vars
  <2>3. CASE ResultPaid(i)
    BY <1>1, <2>3, StillTame, PaidTame DEF ResultPaid, Drop, D!Outcome
  <2>4. CASE DisputeRead(i)
    BY <1>1, <2>4, StillTame, EndedTame DEF DisputeRead, Drop, dispute_vars
  <2> QED BY <2>1, <2>2, <2>3, <2>4
<1>4. IdsKept
  <2>1. UNCHANGED dispute_ids \/ ClaimsRenewed
    BY DEF OtherAnswer, NoAnswer, ResultPaid, DisputeRead
  <2> QED BY <1>3, <2>1, IdsSame, IdsRenewed DEF Tame
<1>5. SendsNew(Answered(i), RemoveAt(replies, i))
  <2>1. CASE calls' = Answered(i) /\ replies' = RemoveAt(replies, i)
    BY <2>1 DEF SendsNew
  <2>2. CASE RepliesFrom(RemoveAt(replies, i))
    <3>1. Len(RemoveAt(replies, i)) = Len(Answered(i))
      <4>1. PICK S : replies \in Seq(S)
        BY <1>1 DEF Parallel
      <4>2. /\ Len(replies) = Len(calls) /\ i \in 1 .. Len(replies)
            /\ calls \in Seq(Calls)
        BY <1>1, CallsType DEF Parallel
      <4> QED BY <4>1, <4>2, RemoveAtKeeps DEF Answered
    <3>2. PICK q, r : q = Answered(i) /\ r = RemoveAt(replies, i)
      OBVIOUS
    <3>3. SendsOne(q) /\ q \in Seq(Calls) /\ Len(r) = Len(q) /\ RepliesFrom(r)
      BY <1>2, <1>3, <2>2, <3>1, <3>2 DEF Tame
    <3>4. SendsNew(q, r)
      BY <1>2, <3>3, SendsReplied
    <3> QED BY <3>2, <3>4
  <2>3. NoAnswer(i) \/ ResultPaid(i) =>
          calls' = Answered(i) /\ replies' = RemoveAt(replies, i)
    BY DEF NoAnswer, ResultPaid, Drop, after_ft_transfer
  <2>4. OtherAnswer(i) \/ DisputeRead(i) => RepliesFrom(RemoveAt(replies, i))
    BY DEF OtherAnswer, DisputeRead
  <2> QED BY <2>1, <2>2, <2>3, <2>4
<1>6. Parallel' /\ Carried((1 .. Len(calls)) \ {i})
  BY <1>1, <1>2, <1>5, CarriedRest
<1>7. DisputesGrow
  BY <1>3, StillGrow
<1>8. PICK left : left = (1 .. Len(calls)) \ {i}
  OBVIOUS
<1>9. left \in SUBSET (1 .. Len(calls)) /\ Carried(left)
  BY <1>6, <1>8
<1>10. Linked'
  BY <1>4, <1>6, <1>7, <1>9, LinkKept
<1> QED BY <1>3, <1>9, <1>10 DEF Tame

----------------------------------------------------------------------------
(* What the accounts do, and what leaves the promises as they are.         *)

LEMMA OwnLinks ==
  ASSUME Pair, Linked, OwnStep
  PROVE  /\ Linked' /\ UNCHANGED disputes /\ NoneArgued
         /\ \E left \in SUBSET (1 .. Len(calls)) : Carried(left)
<1>1. Shape /\ Shape' /\ Parallel
  <2>1. [Next]_vars
    BY JointStepBounties DEF Pair, JointNext
  <2> QED BY <2>1, NextShape DEF Pair, Linked
<1>2. calls \in Seq(Calls) /\ calls' \in Seq(Calls)
  BY <1>1 DEF Shape, TypeOK
<1>3. /\ Tame(calls) /\ UNCHANGED disputes
      /\ RepliesFrom(replies) /\ ClaimsRenewed
  BY <1>1, OwnTame DEF OwnStep, dispute_vars
<1>4. IdsKept
  BY <1>3, IdsRenewed DEF Tame
<1>5. SendsNew(calls, replies)
  <2>1. PICK q, r : q = calls /\ r = replies
    OBVIOUS
  <2>2. q \in Seq(Calls) /\ SendsOne(q) /\ RepliesFrom(r) /\ Len(r) = Len(q)
    BY <1>1, <1>2, <1>3, <2>1 DEF Tame, Parallel
  <2>3. SendsNew(q, r)
    BY <1>2, <2>2, SendsReplied
  <2> QED BY <2>1, <2>3
<1>6. Parallel' /\ Carried(1 .. Len(calls))
  BY <1>1, <1>2, <1>5, CarriedAll
<1>7. PICK left : left = 1 .. Len(calls)
  OBVIOUS
<1>8. left \in SUBSET (1 .. Len(calls)) /\ Carried(left)
  BY <1>6, <1>7
<1>9. Linked'
  BY <1>3, <1>4, <1>6, <1>8, StillGrow, LinkKept
<1> QED BY <1>3, <1>8, <1>9 DEF Tame

LEMMA StillLinks ==
  ASSUME Pair, Linked, DisputesGrow, UNCHANGED <<claims, calls, link_vars>>
  PROVE  /\ Linked' /\ NoneArgued
         /\ \E left \in SUBSET (1 .. Len(calls)) : Carried(left)
<1>1. Parallel' /\ NoneArgued /\ UNCHANGED dispute_ids
  BY DEF Linked, Parallel, NoneArgued, link_vars
<1>2. PICK left : left = 1 .. Len(calls)
  OBVIOUS
<1>3. left \in SUBSET (1 .. Len(calls)) /\ Carried(left)
  <2>1. ASSUME NEW i \in 1 .. Len(calls'), NEW d, Opened(i, d)'
        PROVE  i \in left /\ Opened(i, d) /\ calls[i].claim = calls'[i].claim
    BY <1>2, <2>1 DEF Opened, link_vars
  <2> QED BY <1>2, <2>1 DEF Carried
<1>4. Linked'
  BY <1>1, <1>3, IdsSame, LinkKept
<1> QED BY <1>1, <1>3, <1>4

(* The dispute contract is asked how a dispute has ended.                  *)
LEMMA ReadLinks ==
  ASSUME Pair, Linked, NEW i \in 1 .. Len(calls), ReadDispute(i)
  PROVE  /\ Linked' /\ UNCHANGED disputes /\ NoneArgued
         /\ \E left \in SUBSET (1 .. Len(calls)) : Carried(left)
<1>1. PICK x : replies' = [replies EXCEPT ![i] = x]
  BY DEF ReadDispute
<1>2. /\ UNCHANGED <<claims, calls, disputes, dispute_ids>>
      /\ calls[i].kind # "createDispute"
  BY DEF ReadDispute, vars, dispute_vars
<1>3. Parallel' /\ Carried(1 .. Len(calls))
  BY <1>1, <1>2, CarriedSame DEF Linked
<1>4. PICK left : left = 1 .. Len(calls)
  OBVIOUS
<1>5. left \in SUBSET (1 .. Len(calls)) /\ Carried(left)
  BY <1>3, <1>4
<1>6. NoneArgued /\ DisputesGrow
  BY <1>2, StillGrow DEF NoneArgued
<1>7. Linked'
  BY <1>2, <1>3, <1>5, <1>6, IdsSame, LinkKept
<1> QED BY <1>2, <1>5, <1>6, <1>7

(* The result of a dispute sends the reward, or ends the claim.            *)
LEMMA SettleSends ==
  ASSUME NEW q, NEW k, NEW success, SettleDispute(q, k, success), calls' # q
  PROVE  success /\ \E c : calls' = Append(q, c) /\ c.kind = "payout"
<1>1. success /\ Payout(q, k[1], k, Nil)
  BY Zenon DEF SettleDispute
<1> DEFINE c == [kind |-> "payout", id |-> k[1], claim |-> k,
                 amounts |-> AmountsForPayment(bounties[k[1]], Nil),
                 place |-> Nil]
<1>2. calls' = Append(q, c)
  BY <1>1, Zenon DEF Payout, Send
<1>3. c.kind = "payout"
  OBVIOUS
<1> HIDE DEF c
<1> QED BY <1>1, <1>2, <1>3

LEMMA ResultLinks ==
  ASSUME Pair, Linked, NEW j \in 1 .. Len(requests), DeliverResult(j)
  PROVE  /\ Linked' /\ UNCHANGED disputes /\ NoneArgued
         /\ \E left \in SUBSET (1 .. Len(calls)) : Carried(left)
<1> DEFINE r == requests[j]
           k == disputes[r.id].claim
<1>1. UNCHANGED disputes /\ UNCHANGED dispute_ids
  BY DEF DeliverResult, D!Outcome
<1>2. DisputesGrow
  BY <1>1, StillGrow
<1> HIDE DEF r, k
<1>3. CASE UNCHANGED <<vars, replies>>
  BY <1>1, <1>2, <1>3, StillLinks DEF vars, link_vars
<1>4. ASSUME SettleDispute(calls, k, r.success),
             \/ calls' # calls /\ replies' = Append(replies, Continued(r))
             \/ UNCHANGED calls /\ UNCHANGED replies
      PROVE  /\ Linked' /\ NoneArgued
             /\ \E left \in SUBSET (1 .. Len(calls)) : Carried(left)
  <2>1. Shape /\ Shape' /\ Parallel
    <3>1. [Next]_vars
      BY JointStepBounties DEF Pair, JointNext
    <3> QED BY <3>1, NextShape DEF Pair, Linked
  <2>2. calls' \in Seq(Calls)
    BY <2>1 DEF Shape, TypeOK
  <2>3. NoneArgued
    BY <1>4, <2>1, SettleTame DEF Tame
  <2>4. SendsNew(calls, replies)
    <3>1. CASE UNCHANGED calls /\ UNCHANGED replies
      BY <3>1 DEF SendsNew
    <3>2. CASE calls' # calls /\ replies' = Append(replies, Continued(r))
      <4>1. PICK c : calls' = Append(calls, c) /\ c.kind = "payout"
        BY <1>4, <3>2, SettleSends
      <4>2. c.kind # "createDispute"
        BY <4>1
      <4> QED BY <3>2, <4>1, <4>2 DEF SendsNew
    <3> QED BY <1>4, <3>1, <3>2
  <2>5. Parallel' /\ Carried(1 .. Len(calls))
    BY <2>1, <2>2, <2>4, CarriedAll
  <2>6. PICK left : left = 1 .. Len(calls)
    OBVIOUS
  <2>7. left \in SUBSET (1 .. Len(calls)) /\ Carried(left)
    BY <2>5, <2>6
  <2>8. Linked'
    BY <1>1, <1>2, <2>3, <2>5, <2>7, IdsSame, LinkKept
  <2> QED BY <2>3, <2>7, <2>8
<1>5. \/ UNCHANGED <<vars, replies>>
      \/ /\ SettleDispute(calls, k, r.success)
         /\ \/ calls' # calls /\ replies' = Append(replies, Continued(r))
            \/ UNCHANGED calls /\ UNCHANGED replies
  BY DEF DeliverResult, dispute_result, r, k
<1> QED BY <1>1, <1>3, <1>4, <1>5

----------------------------------------------------------------------------
(* A dispute that is lost has settled its claim.                           *)

Losses == {"InFavorOfProjectOwner", "CanceledByClaimant"}

(* The bounties contract has acted on the result r, or is about to.        *)
Telling(r) == r.kind = "result" /\ r.stage \in {"paying", "ok"}

(* Dispute d is lost: that is recorded, or the bounties contract has been  *)
(* told and it will be.                                                    *)
Lost(d) ==
  \/ disputes[d].status \in Losses
  \/ \E j \in 1 .. Len(requests) :
       /\ requests[j].kind = "result" /\ requests[j].stage = "ok"
       /\ ~requests[j].success /\ requests[j].id = d

(* No other dispute is about the same claim.                               *)
Only(d) ==
  \A e \in DOMAIN disputes : disputes[e].claim = disputes[d].claim => e = d

(* A reward is only sent for a result that grants it.                      *)
PaysWon ==
  \A j \in 1 .. Len(requests) :
     requests[j].kind = "result" /\ requests[j].stage = "paying" =>
       requests[j].success

(* The inductive form of LossSettled: it also takes in the losses that the *)
(* dispute contract has still to record, and says that no answer is on its *)
(* way that would tie a claim to a dispute that is lost.                   *)
Settled ==
  /\ PaysWon
  /\ \A d \in DOMAIN disputes : Only(d) /\ Lost(d) =>
       /\ claims[disputes[d].claim].status # "Disputed"
       /\ \A i \in 1 .. Len(calls) : ~Opened(i, d)

(* The step loses no dispute, and sends no reward without a result.        *)
NoneLost ==
  /\ PaysWon'
  /\ \A d \in DOMAIN disputes' : Lost(d)' => d \in DOMAIN disputes /\ Lost(d)

LEMMA OnlyBefore ==
  ASSUME DisputesGrow, NEW d \in DOMAIN disputes, Only(d)'
  PROVE  Only(d)
BY DEF DisputesGrow, Only

LEMMA SettledKept ==
  ASSUME Pair, Settled, DisputesGrow, NoneArgued, NoneLost,
         \E left \in SUBSET (1 .. Len(calls)) : Carried(left)
  PROVE  Settled'
<1>1. PICK left \in SUBSET (1 .. Len(calls)) : Carried(left)
  OBVIOUS
<1>2. ASSUME NEW d \in DOMAIN disputes', Only(d)', Lost(d)'
      PROVE  /\ claims'[disputes'[d].claim].status # "Disputed"
             /\ \A i \in 1 .. Len(calls') : ~Opened(i, d)'
  <2>1. d \in DOMAIN disputes /\ Lost(d)
    BY <1>2 DEF NoneLost
  <2>2. Only(d)
    BY <1>2, <2>1, OnlyBefore
  <2>3. /\ claims[disputes[d].claim].status # "Disputed"
        /\ \A i \in 1 .. Len(calls) : ~Opened(i, d)
    BY <2>1, <2>2 DEF Settled
  <2>4. disputes'[d].claim = disputes[d].claim /\ disputes[d].claim \in ClaimKey
    BY <2>1, LinkTypes DEF DisputesGrow
  <2>5. claims'[disputes'[d].claim].status # "Disputed"
    BY <2>3, <2>4 DEF NoneArgued
  <2>6. ASSUME NEW i \in 1 .. Len(calls'), Opened(i, d)'
        PROVE  FALSE
    <3>1. \E m \in left : Opened(m, d)
      BY <1>1, <2>6 DEF Carried
    <3> QED BY <2>3, <3>1
  <2> QED BY <2>5, <2>6
<1> QED BY <1>2 DEF Settled, NoneLost

LEMMA StillNoneLost ==
  ASSUME Settled, UNCHANGED <<disputes, requests>>
  PROVE  NoneLost
BY DEF Settled, NoneLost, PaysWon, Lost

(* The promises of the dispute contract after the step: one on which the   *)
(* bounties contract has acted was there before.                           *)
Told(q) ==
  \A m \in 1 .. Len(q) :
     Telling(q[m]) => \E n \in 1 .. Len(requests) : requests[n] = q[m]

LEMMA ToldNoneLost ==
  ASSUME Pair, Settled, Told(requests'),
         \A d \in DOMAIN disputes' :
            disputes'[d].status \in Losses => d \in DOMAIN disputes /\ Lost(d)
  PROVE  NoneLost
<1>1. ASSUME NEW j \in 1 .. Len(requests'), Telling(requests'[j])
      PROVE  \E n \in 1 .. Len(requests) :
               /\ requests[n] = requests'[j]
               /\ requests[n].id \in DOMAIN disputes
  <2>1. PICK n \in 1 .. Len(requests) : requests[n] = requests'[j]
    BY <1>1 DEF Told
  <2>2. requests[n].id \in DOMAIN disputes
    BY DP!OrderTypes, DisputesAssumed DEF Pair, DP!Rests
  <2> QED BY <2>1, <2>2
<1>2. PaysWon'
  BY <1>1 DEF Settled, PaysWon, Telling
<1>3. ASSUME NEW d \in DOMAIN disputes', Lost(d)'
      PROVE  d \in DOMAIN disputes /\ Lost(d)
  <2>1. CASE disputes'[d].status \in Losses
    BY <2>1
  <2>2. ASSUME NEW j \in 1 .. Len(requests'),
               requests'[j].kind = "result", requests'[j].stage = "ok",
               ~requests'[j].success, requests'[j].id = d
        PROVE  d \in DOMAIN disputes /\ Lost(d)
    BY <1>1, <2>2 DEF Telling, Lost
  <2> QED BY <1>3, <2>1, <2>2 DEF Lost
<1> QED BY <1>2, <1>3 DEF NoneLost

LEMMA StillToldNoneLost ==
  ASSUME Pair, Settled, Told(requests'), UNCHANGED disputes
  PROVE  NoneLost
BY ToldNoneLost DEF Lost

LEMMA RequestsType ==
  ASSUME Pair
  PROVE  requests \in Seq(DP!Requests)
BY DEF Pair, DP!Order, DP!Grounded, DP!RestsSeq

LEMMA ToldAll == Told(requests)
BY DEF Told

LEMMA ToldRest ==
  ASSUME Pair, NEW j \in 1 .. Len(requests)
  PROVE  D!Replied(j) \in Seq(DP!Requests) /\ Told(D!Replied(j))
<1>1. D!Replied(j) = RemoveAt(requests, j)
  BY DEF D!Replied, D!RemoveAt, RemoveAt
<1>2. requests \in Seq(DP!Requests)
  BY RequestsType
<1>3. RemoveAt(requests, j) \in Seq(DP!Requests)
  BY <1>2, RemoveAtKeeps
<1>4. ASSUME NEW m \in 1 .. Len(RemoveAt(requests, j))
      PROVE  \E n \in 1 .. Len(requests) :
               requests[n] = RemoveAt(requests, j)[m]
  BY <1>2, RemoveAtFrom
<1> QED BY <1>1, <1>3, <1>4 DEF Told

LEMMA ToldSent ==
  ASSUME NEW q \in Seq(DP!Requests), Told(q), NEW c, ~Telling(c),
         D!SendRequest(q, c)
  PROVE  Told(requests')
<1>1. requests' = Append(q, c)
  BY DEF D!SendRequest
<1>2. /\ Len(requests') = Len(q) + 1 /\ requests'[Len(q) + 1] = c
      /\ \A m \in 1 .. Len(q) : requests'[m] = q[m]
      /\ Len(q) \in Nat
  BY <1>1
<1>3. ASSUME NEW m \in 1 .. Len(requests'), Telling(requests'[m])
      PROVE  \E n \in 1 .. Len(requests) : requests[n] = requests'[m]
  <2>1. m # Len(q) + 1
    BY <1>2, <1>3
  <2>2. m \in 1 .. Len(q) /\ requests'[m] = q[m]
    BY <1>2, <2>1
  <2> QED BY <1>3, <2>2 DEF Told
<1> QED BY <1>3 DEF Told

(* The dispute contract asks, or tells.                                    *)
LEMMA SendingNoneLost ==
  ASSUME Pair, Settled, NEW q \in Seq(DP!Requests), Told(q),
         NEW c, ~Telling(c), D!SendRequest(q, c), UNCHANGED disputes
  PROVE  NoneLost
BY ToldSent, StillToldNoneLost

LEMMA TellingNoneLost ==
  ASSUME Pair, Settled, NEW q \in Seq(DP!Requests), Told(q),
         NEW id, NEW success, NEW canceled,
         D!SendResult(q, id, success, canceled), UNCHANGED disputes
  PROVE  NoneLost
<1> DEFINE c == [kind |-> "result", id |-> id, success |-> success,
                 canceled |-> canceled, stage |-> "sent"]
<1>1. ~Telling(c)
  BY DEF Telling
<1>2. D!SendRequest(q, c)
  BY DEF D!SendResult
<1> HIDE DEF c
<1> QED BY <1>1, <1>2, SendingNoneLost

(* The dispute contract records how a dispute has ended.                   *)
LEMMA RecordNoneLost ==
  ASSUME Pair, Settled, NEW j \in 1 .. Len(requests),
         D!after_claim_approval(j)
  PROVE  DisputesGrow /\ NoneLost
<1>1. PICK r : r = requests[j]
  OBVIOUS
<1> DEFINE d == D!Ended(disputes[r.id], r.success, r.canceled)
<1>2. /\ r.kind = "result" /\ r.stage = "ok"
      /\ disputes' = [disputes EXCEPT ![r.id] = d]
      /\ requests' = D!Replied(j)
  BY <1>1 DEF D!after_claim_approval
<1>3. /\ r.id \in DOMAIN disputes /\ r.success \in BOOLEAN
      /\ r.canceled \in BOOLEAN
  <2>1. /\ r \in DP!Requests /\ DP!Rests(r)
        /\ DOMAIN disputes = DP!DisputeIds
    BY <1>1, DP!OrderTypes, DisputesAssumed DEF Pair
  <2> QED BY <1>2, <2>1 DEF DP!Rests, DP!Requests
<1>4. disputes[r.id] \in DP!Dispute /\ disputes \in Seq(DP!Dispute)
  BY <1>3, DP!OrderTypes, DisputesAssumed DEF Pair, DP!DataOK
<1>5. /\ d.claim = disputes[r.id].claim
      /\ d.status \in Losses =>
           disputes[r.id].status \in Losses \/ ~r.success
  <2>1. CASE disputes[r.id].status \notin D!OpenDispute
    BY <2>1 DEF D!Ended
  <2>2. CASE disputes[r.id].status \in D!OpenDispute
    <3> DEFINE s == D!EndStatus(r.success, r.canceled)
    <3>1. d = [disputes[r.id] EXCEPT !.status = s]
      BY <2>2 DEF D!Ended
    <3>2. s \in Losses => ~r.success
      BY <1>3 DEF D!EndStatus, Losses
    <3> HIDE DEF s, d
    <3>3. d.claim = disputes[r.id].claim /\ d.status = s
      BY <1>4, <3>1 DEF DP!Dispute
    <3> QED BY <3>2, <3>3
  <2> QED BY <2>1, <2>2
<1> HIDE DEF d
<1>6. /\ DOMAIN disputes' = DOMAIN disputes
      /\ \A e \in DOMAIN disputes :
           disputes'[e] = IF e = r.id THEN d ELSE disputes[e]
  BY <1>2
<1>7. DisputesGrow
  BY <1>5, <1>6 DEF DisputesGrow
<1>8. ASSUME NEW e \in DOMAIN disputes', disputes'[e].status \in Losses
      PROVE  e \in DOMAIN disputes /\ Lost(e)
  BY <1>1, <1>2, <1>5, <1>6, <1>8 DEF Lost
<1>9. Told(requests')
  BY <1>2, ToldRest
<1> QED BY <1>7, <1>8, <1>9, ToldNoneLost

(* The DAO has stored a proposal about a dispute.                          *)
LEMMA ProposedNoneLost ==
  ASSUME Pair, Settled, NEW j \in 1 .. Len(requests),
         D!on_added_proposal_callback(j)
  PROVE  DisputesGrow /\ NoneLost
<1>1. PICK id, n, t :
        /\ id = requests[j].id
        /\ disputes' = IF disputes[id].status = "New"
                       THEN [disputes EXCEPT
                               ![id].status = "DecisionPending",
                               ![id].proposal_id = n,
                               ![id].proposal_timestamp = t]
                       ELSE disputes
        /\ requests' = D!Replied(j)
  BY DEF D!on_added_proposal_callback
<1> DEFINE d == [disputes[id] EXCEPT !.status = "DecisionPending",
                                     !.proposal_id = n,
                                     !.proposal_timestamp = t]
<1>2. id \in DOMAIN disputes
  BY <1>1, DP!OrderTypes, DisputesAssumed DEF Pair, DP!Rests
<1>3. disputes[id] \in DP!Dispute /\ disputes \in Seq(DP!Dispute)
  BY <1>2, DP!OrderTypes, DisputesAssumed DEF Pair, DP!DataOK
<1>4. d.claim = disputes[id].claim /\ d.status = "DecisionPending"
  BY <1>3, Zenon DEF DP!Dispute
<1>5. disputes' = IF disputes[id].status = "New"
                  THEN [disputes EXCEPT ![id] = d] ELSE disputes
  BY <1>1, <1>3, Zenon DEF d
<1> HIDE DEF d
<1>6. /\ DOMAIN disputes' = DOMAIN disputes
      /\ \A e \in DOMAIN disputes :
           disputes'[e] = IF e = id /\ disputes[id].status = "New"
                          THEN d ELSE disputes[e]
  BY <1>5
<1>7. DisputesGrow
  BY <1>4, <1>6 DEF DisputesGrow
<1>8. "DecisionPending" \notin Losses
  BY DEF Losses
<1>9. ASSUME NEW e \in DOMAIN disputes', disputes'[e].status \in Losses
      PROVE  e \in DOMAIN disputes /\ Lost(e)
  BY <1>4, <1>6, <1>8, <1>9 DEF Lost
<1>10. Told(requests')
  BY <1>1, ToldRest
<1> QED BY <1>7, <1>9, <1>10, ToldNoneLost

(* What the dispute contract, its parties and the DAO do.                  *)
LEMMA DisputeStepNoneLost ==
  ASSUME Pair, Settled, D!OwnNext
  PROVE  DisputesGrow /\ NoneLost
<1>0. requests \in Seq(DP!Requests) /\ Told(requests)
  BY RequestsType, ToldAll
<1>1. ASSUME \/ \E status : D!set_status(status)
             \/ D!change_config
             \/ \E id, sender : D!provide_arguments(id, sender)
             \/ \E p, status : D!Vote(p, status)
      PROVE  UNCHANGED <<disputes, requests>>
  BY <1>1 DEF D!set_status, D!change_config, D!provide_arguments, D!Vote
<1>2. ASSUME NEW id, NEW sender, D!cancel_dispute(id, sender)
      PROVE  UNCHANGED disputes /\ NoneLost
  <2>1. PICK success :
          D!SendResult(requests, id, success, TRUE) /\ UNCHANGED disputes
    BY <1>2 DEF D!cancel_dispute
  <2> QED BY <1>0, <2>1, TellingNoneLost
<1>3. ASSUME NEW id, D!escalation(id) \/ D!finalize_dispute(id)
      PROVE  UNCHANGED disputes /\ NoneLost
  <2>1. PICK c : D!SendRequest(requests, c) /\ ~Telling(c)
    BY <1>3 DEF D!escalation, D!finalize_dispute, Telling
  <2>2. UNCHANGED disputes
    BY <1>3 DEF D!escalation, D!finalize_dispute
  <2> QED BY <1>0, <2>1, <2>2, SendingNoneLost
<1>4. ASSUME NEW p, D!result_of_dispute(p)
      PROVE  UNCHANGED disputes /\ NoneLost
  <2>1. PICK id : D!SendResult(requests, id, TRUE, FALSE) /\ UNCHANGED disputes
    BY <1>4 DEF D!result_of_dispute
  <2> QED BY <1>0, <2>1, TellingNoneLost
<1>5. ASSUME NEW j \in 1 .. Len(requests), D!after_get_proposal(j)
      PROVE  UNCHANGED disputes /\ NoneLost
  <2>1. PICK q, id, success :
          /\ q = D!Replied(j) /\ D!SendResult(q, id, success, FALSE)
          /\ UNCHANGED disputes
    BY <1>5 DEF D!after_get_proposal
  <2>2. q \in Seq(DP!Requests) /\ Told(q)
    BY <2>1, ToldRest
  <2> QED BY <2>1, <2>2, TellingNoneLost
<1>6. ASSUME NEW j \in 1 .. Len(requests), D!DropRequest(j)
      PROVE  UNCHANGED disputes /\ NoneLost
  BY <1>6, ToldRest, StillToldNoneLost DEF D!DropRequest
<1>7. ASSUME NEW j \in 1 .. Len(requests), D!ReadProposal(j)
      PROVE  UNCHANGED disputes /\ NoneLost
  <2>1. PICK x :
          /\ requests' = [requests EXCEPT ![j] = [@ EXCEPT !.read = x]]
          /\ requests[j].kind = "getProposal" /\ UNCHANGED disputes
    BY <1>7 DEF D!ReadProposal
  <2> DEFINE c == [requests[j] EXCEPT !.read = x]
  <2>2. ~Telling(c)
    <3>1. requests[j] \in [kind: {"getProposal"}, id: Nat, proposal: Nat,
                           read: DP!Votes \cup {Nil}]
      BY <1>0, <2>1 DEF DP!Requests
    <3>2. c.kind = "getProposal"
      BY <2>1, <3>1
    <3> QED BY <3>2 DEF Telling
  <2>3. requests' = [requests EXCEPT ![j] = c]
    BY <2>1
  <2> HIDE DEF c
  <2>4. /\ Len(requests') = Len(requests) /\ requests'[j] = c
        /\ \A m \in 1 .. Len(requests) : m # j => requests'[m] = requests[m]
    BY <1>0, <2>3
  <2>5. ASSUME NEW m \in 1 .. Len(requests'), Telling(requests'[m])
        PROVE  m \in 1 .. Len(requests) /\ requests[m] = requests'[m]
    BY <2>2, <2>4, <2>5
  <2>6. Told(requests')
    BY <2>5 DEF Told
  <2> QED BY <2>1, <2>6, StillToldNoneLost
<1> QED
  BY <1>1, <1>2, <1>3, <1>4, <1>5, <1>6, <1>7, StillNoneLost, StillGrow,
     RecordNoneLost, ProposedNoneLost DEF D!OwnNext

----------------------------------------------------------------------------
(* The steps of the two contracts together.                                *)

(* The bounties contract has acted on a result that does not take the      *)
(* claim away, or has not acted on it.                                     *)
LEMMA OutcomeNoneLost ==
  ASSUME Pair, Settled, NEW j \in 1 .. Len(requests), NEW stage,
         D!Outcome(j, stage), requests[j].success \/ stage = "failed"
  PROVE  NoneLost /\ UNCHANGED disputes
<1> DEFINE c == [requests[j] EXCEPT !.stage = stage]
<1>1. requests \in Seq(DP!Requests) /\ requests[j].kind = "result"
  BY RequestsType DEF D!Outcome
<1>2. requests[j] \in [kind: {"result"}, id: Nat, success: BOOLEAN,
                       canceled: BOOLEAN, stage: DP!Stages]
  BY <1>1 DEF DP!Requests
<1>3. c.success = requests[j].success /\ c.stage = stage
  BY <1>2
<1>4. requests' = [requests EXCEPT ![j] = c] /\ UNCHANGED disputes
  BY DEF D!Outcome
<1> HIDE DEF c
<1>5. /\ Len(requests') = Len(requests) /\ requests'[j] = c
      /\ \A m \in 1 .. Len(requests) : m # j => requests'[m] = requests[m]
  BY <1>1, <1>4
<1>6. PaysWon'
  BY <1>3, <1>5 DEF Settled, PaysWon
<1>7. ASSUME NEW d \in DOMAIN disputes', Lost(d)'
      PROVE  d \in DOMAIN disputes /\ Lost(d)
  <2>1. CASE disputes'[d].status \in Losses
    BY <1>4, <2>1 DEF Lost
  <2>2. ASSUME NEW m \in 1 .. Len(requests'),
               requests'[m].kind = "result", requests'[m].stage = "ok",
               ~requests'[m].success, requests'[m].id = d
        PROVE  d \in DOMAIN disputes /\ Lost(d)
    <3>1. m # j
      BY <1>3, <1>5, <2>2
    <3> QED BY <1>4, <1>5, <2>2, <3>1 DEF Lost
  <2> QED BY <1>7, <2>1, <2>2 DEF Lost
<1> QED BY <1>4, <1>6, <1>7 DEF NoneLost

(* The transfer of the reward has ended.                                   *)
LEMMA PaidNoneLost ==
  ASSUME Pair, Settled, NEW i \in 1 .. Len(calls), ResultPaid(i)
  PROVE  NoneLost
<1>1. PICK j \in 1 .. Len(requests) :
        /\ Awaits(requests[j], replies[i])
        /\ \E stage : D!Outcome(j, stage)
  BY DEF ResultPaid
<1>2. requests[j].success
  BY <1>1 DEF Awaits, Settled, PaysWon
<1> QED BY <1>1, <1>2, OutcomeNoneLost

(* A dispute is opened.                                                    *)
LEMMA CreateSettled ==
  ASSUME Pair, Linked, Settled, NEW i \in 1 .. Len(calls), CreateDispute(i)
  PROVE  Settled'
<1>1. PICK n : n = Len(disputes) + 1
  OBVIOUS
<1>2. /\ UNCHANGED <<claims, calls, requests>> /\ DisputesGrow
      /\ DOMAIN disputes' = 1 .. n
      /\ \A d \in 1 .. Len(disputes) : disputes'[d] = disputes[d]
      /\ disputes'[n].status = "New"
  BY <1>1, CreateOpens DEF Linked
<1>3. /\ \A d : Opened(i, d)' => d = n
      /\ \A j \in 1 .. Len(calls) : \A d :
           j # i /\ Opened(j, d)' => Opened(j, d)
  BY <1>1, CreateOpens DEF Linked
<1>4. Len(disputes) \in Nat /\ DOMAIN disputes = 1 .. Len(disputes)
  BY LinkTypes
<1>5. \A j \in 1 .. Len(requests) : requests[j].id \in 1 .. Len(disputes)
  BY <1>4, DP!OrderTypes, DisputesAssumed DEF Pair, DP!Rests
<1>6. n \notin 1 .. Len(disputes)
  BY <1>1, <1>4
<1>7. ~Lost(n)'
  <2>1. disputes'[n].status \notin Losses
    BY <1>2 DEF Losses
  <2> QED BY <1>2, <1>5, <1>6, <2>1 DEF Lost
<1>8. ASSUME NEW d \in DOMAIN disputes', Only(d)', Lost(d)'
      PROVE  /\ claims'[disputes'[d].claim].status # "Disputed"
             /\ \A m \in 1 .. Len(calls') : ~Opened(m, d)'
  <2>1. d \in 1 .. Len(disputes)
    <3>1. d # n
      BY <1>7, <1>8
    <3> QED BY <1>1, <1>2, <1>4, <3>1
  <2>2. Lost(d)
    BY <1>2, <1>8, <2>1 DEF Lost
  <2>3. Only(d)
    BY <1>2, <1>4, <1>8, <2>1, OnlyBefore
  <2>4. /\ claims[disputes[d].claim].status # "Disputed"
        /\ \A m \in 1 .. Len(calls) : ~Opened(m, d)
    BY <1>4, <2>1, <2>2, <2>3 DEF Settled
  <2>5. d # n
    BY <1>6, <2>1
  <2> QED BY <1>2, <1>3, <2>1, <2>4, <2>5
<1>9. PaysWon'
  BY <1>2 DEF Settled, PaysWon
<1> QED BY <1>8, <1>9 DEF Settled

(* The answer arrives: the dispute is not lost yet.                        *)
LEMMA CreatedSettled ==
  ASSUME Pair, Linked, Settled, NEW i \in 1 .. Len(calls), DisputeCreated(i)
  PROVE  Settled'
<1>1. PICK left \in SUBSET (1 .. Len(calls)) : i \notin left /\ Carried(left)
  BY CreatedLinks
<1>2. UNCHANGED <<disputes, requests>>
  BY CreatedLinks
<1>3. NoneLost /\ DisputesGrow
  BY <1>2, StillNoneLost, StillGrow
<1>4. CASE Drop(i)
  <2>1. NoneArgued
    BY <1>4 DEF Drop, NoneArgued
  <2> QED BY <1>1, <1>3, <2>1, SettledKept
<1>5. CASE after_create_dispute(i)
  <2>1. PICK k, e : k = calls[i].claim /\ e = replies[i].id
    OBVIOUS
  <2>2. Opened(i, e)
    BY <2>1 DEF DisputeCreated, Opened
  <2>3. e \in DOMAIN disputes /\ disputes[e].claim = k
    BY <2>1, <2>2 DEF Linked
  <2>4. claims \in [ClaimKey -> Claim]
    BY DEF Pair, Shape, TypeOK
  <2>5. \A j \in ClaimKey : j # k => claims'[j] = claims[j]
    BY <1>5, <2>1, <2>4 DEF after_create_dispute
  <2>6. ASSUME NEW d \in DOMAIN disputes', Only(d)', Lost(d)'
        PROVE  /\ claims'[disputes'[d].claim].status # "Disputed"
               /\ \A m \in 1 .. Len(calls') : ~Opened(m, d)'
    <3>1. d \in DOMAIN disputes /\ Lost(d)
      BY <1>3, <2>6 DEF NoneLost
    <3>2. Only(d)
      BY <1>3, <2>6, <3>1, OnlyBefore
    <3>3. /\ claims[disputes[d].claim].status # "Disputed"
          /\ \A m \in 1 .. Len(calls) : ~Opened(m, d)
      BY <3>1, <3>2 DEF Settled
    <3>4. disputes[d].claim # k
      BY <2>2, <2>3, <3>2, <3>3 DEF Only
    <3>5. disputes[d].claim \in ClaimKey
      BY <3>1, LinkTypes
    <3>6. ASSUME NEW m \in 1 .. Len(calls'), Opened(m, d)'
          PROVE  FALSE
      <4>1. \E n \in left : Opened(n, d)
        BY <1>1, <3>6 DEF Carried
      <4> QED BY <3>3, <4>1
    <3> QED BY <1>2, <2>5, <3>3, <3>4, <3>5, <3>6
  <2> QED BY <1>3, <2>6 DEF Settled, NoneLost
<1> QED BY <1>4, <1>5 DEF DisputeCreated

(* A result against the claimant ends the claim.                           *)
LEMMA DefeatSettled ==
  ASSUME Pair, Linked, Settled,
         NEW j \in 1 .. Len(requests), NEW k \in ClaimKey,
         k = disputes[requests[j].id].claim, claims[k].status = "Disputed",
         SettleDispute(calls, k, FALSE), D!Outcome(j, "ok"),
         UNCHANGED replies
  PROVE  Settled'
<1>1. UNCHANGED <<calls, disputes>>
  BY DEF SettleDispute, D!Outcome
<1>2. /\ claims'[k].status # "Disputed"
      /\ \A q \in ClaimKey : q # k => claims'[q] = claims[q]
  <2>1. claims \in [ClaimKey -> Claim]
    BY DEF Pair, Shape, TypeOK
  <2>2. claims' = [claims EXCEPT ![k].status = "NotCompleted"]
    BY DEF SettleDispute, ResetBounty, CloseClaim
  <2>3. claims[k] \in Claim
    BY <2>1
  <2>4. claims'[k] = [claims[k] EXCEPT !.status = "NotCompleted"]
    BY <2>1, <2>2
  <2>5. claims'[k].status = "NotCompleted"
    BY <2>3, <2>4 DEF Claim
  <2> QED BY <2>1, <2>2, <2>5
<1>3. requests \in Seq(DP!Requests)
  BY RequestsType
<1>4. /\ Len(requests') = Len(requests) /\ requests'[j].stage = "ok"
      /\ requests'[j].id = requests[j].id
      /\ \A m \in 1 .. Len(requests) : m # j => requests'[m] = requests[m]
  <2>1. requests[j] \in [kind: {"result"}, id: Nat, success: BOOLEAN,
                         canceled: BOOLEAN, stage: DP!Stages]
    BY <1>3 DEF DP!Requests, D!Outcome
  <2> QED BY <1>3, <2>1 DEF D!Outcome
<1>5. PaysWon'
  BY <1>4 DEF Settled, PaysWon
<1>6. ASSUME NEW d \in DOMAIN disputes', Only(d)', Lost(d)'
      PROVE  /\ claims'[disputes'[d].claim].status # "Disputed"
             /\ \A i \in 1 .. Len(calls') : ~Opened(i, d)'
  <2>1. d \in DOMAIN disputes /\ Only(d) /\ disputes[d].claim \in ClaimKey
    BY <1>1, <1>6, LinkTypes DEF Only
  <2>2. Lost(d) \/ d = requests[j].id
    BY <1>1, <1>4, <1>6 DEF Lost
  <2>3. ASSUME NEW i, Opened(i, d)'
        PROVE  Opened(i, d)
    BY <1>1, <2>3 DEF Opened
  <2>4. CASE Lost(d)
    <3>1. /\ claims[disputes[d].claim].status # "Disputed"
          /\ \A i \in 1 .. Len(calls) : ~Opened(i, d)
      BY <2>1, <2>4 DEF Settled
    <3> QED BY <1>1, <1>2, <2>1, <2>3, <3>1
  <2>5. CASE d = requests[j].id
    <3>1. dispute_ids[k] \in DOMAIN disputes
            /\ disputes[dispute_ids[k]].claim = k
      BY DEF Linked
    <3>2. dispute_ids[k] = d
      BY <2>1, <2>5, <3>1 DEF Only
    <3>3. ASSUME NEW i \in 1 .. Len(calls), Opened(i, d)
          PROVE  FALSE
      BY <2>5, <3>2, <3>3 DEF Linked
    <3> QED BY <1>1, <1>2, <2>3, <2>5, <3>3
  <2> QED BY <2>2, <2>4, <2>5
<1> QED BY <1>5, <1>6 DEF Settled

(* The result of a dispute arrives.                                        *)
LEMMA ResultSettled ==
  ASSUME Pair, Linked, Settled, NEW j \in 1 .. Len(requests), DeliverResult(j)
  PROVE  Settled'
<1>1. PICK success, k : success = requests[j].success
                          /\ k = disputes[requests[j].id].claim
  OBVIOUS
<1>2. /\ UNCHANGED disputes /\ NoneArgued
      /\ \E left \in SUBSET (1 .. Len(calls)) : Carried(left)
  BY ResultLinks
<1>3. ASSUME NoneLost
      PROVE  Settled'
  BY <1>2, <1>3, StillGrow, SettledKept
<1>4. \/ D!Outcome(j, "failed")
      \/ /\ SettleDispute(calls, k, success) /\ calls' # calls
         /\ D!Outcome(j, "paying")
      \/ /\ claims[k].status = "Disputed"
         /\ SettleDispute(calls, k, success)
         /\ D!Outcome(j, "ok") /\ UNCHANGED replies
  BY <1>1 DEF DeliverResult, dispute_result
<1>5. k \in ClaimKey /\ success \in BOOLEAN
  <2>1. requests[j].kind = "result"
    BY DEF DeliverResult
  <2> QED BY <1>1, <2>1, ResultOnClaim DEF Pair
<1>6. CASE D!Outcome(j, "failed")
  BY <1>3, <1>6, OutcomeNoneLost
<1>7. CASE success /\ \E stage : D!Outcome(j, stage)
  BY <1>1, <1>3, <1>7, OutcomeNoneLost
<1>8. CASE ~success /\ claims[k].status = "Disputed"
             /\ SettleDispute(calls, k, success)
             /\ D!Outcome(j, "ok") /\ UNCHANGED replies
  <2>1. success = FALSE
    BY <1>5, <1>8
  <2> QED BY <1>1, <1>5, <1>8, <2>1, DefeatSettled
<1> QED BY <1>4, <1>5, <1>6, <1>7, <1>8, SettleSends

(* The inductive invariant of this section.                                *)
Bound == Pair /\ Linked /\ Settled

LEMMA JointInitBound == JointInit => Bound
<1> SUFFICES ASSUME JointInit PROVE Bound
  OBVIOUS
<1>1. /\ calls = <<>> /\ replies = <<>>
      /\ disputes = <<>> /\ requests = <<>>
      /\ dispute_ids = [k \in ClaimKey |-> Nil]
      /\ \A k \in ClaimKey : claims[k].status = "Absent"
  BY DEF JointInit, Init, D!Init, NoClaim
<1>2. Parallel
  <2>1. replies \in Seq({}) /\ Len(replies) = Len(calls)
    BY <1>1
  <2> QED BY <2>1 DEF Parallel
<1>3. Linked
  BY <1>1, <1>2 DEF Linked
<1>4. Settled
  BY <1>1 DEF Settled, PaysWon
<1> QED BY <1>3, <1>4, JointInitPair DEF Bound

LEMMA JointNextBound == Bound /\ [JointNext]_joint_vars => Bound'
<1> SUFFICES ASSUME Bound, [JointNext]_joint_vars PROVE Bound'
  OBVIOUS
<1>0. Pair /\ Linked /\ Settled /\ Pair'
  BY JointNextPair DEF Bound
<1>1. ASSUME DisputesGrow, NoneLost, UNCHANGED <<claims, calls, link_vars>>
      PROVE  Linked' /\ Settled'
  BY <1>0, <1>1, StillLinks, SettledKept
<1>2. CASE JointTick \/ UNCHANGED joint_vars
  <2>1. UNCHANGED <<claims, calls, link_vars, disputes, requests>>
    BY <1>2 DEF JointTick, Tick, D!Tick, D!dispute_vars, joint_vars, vars,
                dispute_vars
  <2> QED BY <1>0, <1>1, <2>1, StillGrow, StillNoneLost DEF Bound
<1>3. CASE DisputeStep
  <2>1. D!OwnNext /\ UNCHANGED <<claims, calls, link_vars>>
    BY <1>3 DEF DisputeStep, vars
  <2> QED BY <1>0, <1>1, <2>1, DisputeStepNoneLost DEF Bound
<1>4. CASE OwnStep
  <2>1. /\ Linked' /\ UNCHANGED disputes /\ NoneArgued
        /\ \E left \in SUBSET (1 .. Len(calls)) : Carried(left)
    BY <1>0, <1>4, OwnLinks
  <2>2. NoneLost
    BY <1>0, <1>4, <2>1, StillNoneLost DEF OwnStep, dispute_vars
  <2> QED BY <1>0, <2>1, <2>2, StillGrow, SettledKept DEF Bound
<1>5. ASSUME NEW i \in 1 .. Len(calls),
             OtherAnswer(i) \/ NoAnswer(i) \/ ResultPaid(i) \/ DisputeRead(i)
      PROVE  Linked' /\ Settled'
  <2>1. /\ Linked' /\ UNCHANGED disputes /\ NoneArgued
        /\ \E left \in SUBSET (1 .. Len(calls)) : Carried(left)
    BY <1>0, <1>5, AnswersLink
  <2>2. NoneLost
    <3>1. CASE ResultPaid(i)
      BY <1>0, <3>1, PaidNoneLost
    <3>2. CASE OtherAnswer(i) \/ NoAnswer(i) \/ DisputeRead(i)
      BY <1>0, <2>1, <3>2, StillNoneLost
         DEF OtherAnswer, NoAnswer, DisputeRead, dispute_vars
    <3> QED BY <1>5, <3>1, <3>2
  <2> QED BY <1>0, <2>1, <2>2, StillGrow, SettledKept
<1>6. ASSUME NEW i \in 1 .. Len(calls), ReadDispute(i)
      PROVE  Linked' /\ Settled'
  <2>1. /\ Linked' /\ UNCHANGED disputes /\ NoneArgued
        /\ \E left \in SUBSET (1 .. Len(calls)) : Carried(left)
    BY <1>0, <1>6, ReadLinks
  <2>2. NoneLost
    BY <1>0, <1>6, <2>1, StillNoneLost DEF ReadDispute, dispute_vars
  <2> QED BY <1>0, <2>1, <2>2, StillGrow, SettledKept
<1>7. ASSUME NEW i \in 1 .. Len(calls), CreateDispute(i) \/ DisputeCreated(i)
      PROVE  Linked' /\ Settled'
  BY <1>0, <1>7, CreateLinks, CreateSettled, CreatedLinks, CreatedSettled
<1>8. ASSUME NEW j \in 1 .. Len(requests), DeliverResult(j)
      PROVE  Linked' /\ Settled'
  BY <1>0, <1>8, ResultLinks, ResultSettled
<1> QED BY <1>0, <1>2, <1>3, <1>4, <1>5, <1>6, <1>7, <1>8
        DEF JointNext, Bound

LEMMA BoundAlways == JointSpec => []Bound
BY JointInitBound, JointNextBound, PTL DEF JointSpec

(* Whenever a claim is disputed it knows of a dispute, and that dispute is *)
(* about it, however many were opened on it before the first answer came.  *)
THEOREM DisputedHasDisputeAlways == JointSpec => []DisputedHasDispute
<1>1. Bound => DisputedHasDispute
  BY DEF Bound, Linked, DisputedHasDispute
<1> QED BY <1>1, BoundAlways, PTL

(* The dispute contract records a loss only when the bounties contract has *)
(* ended the claim: no claim whose only dispute is lost is still disputed. *)
THEOREM LossSettledAlways == JointSpec => []LossSettled
<1>1. ASSUME Bound
      PROVE  LossSettled
  <2>1. ASSUME NEW k \in ClaimKey, claims[k].status = "Disputed",
               {id \in DOMAIN disputes : disputes[id].claim = k}
                 = {dispute_ids[k]},
               disputes[dispute_ids[k]].status \in Losses
        PROVE  FALSE
    <3>1. PICK d : d = dispute_ids[k]
      OBVIOUS
    <3>2. d \in DOMAIN disputes /\ disputes[d].claim = k
      BY <2>1, <3>1
    <3>3. Only(d)
      BY <2>1, <3>1, <3>2 DEF Only
    <3>4. Lost(d)
      BY <2>1, <3>1 DEF Lost
    <3> QED BY <1>1, <2>1, <3>2, <3>3, <3>4 DEF Bound, Settled
  <2> QED BY <2>1 DEF LossSettled, Losses
<1> QED BY <1>1, BoundAlways, PTL
=============================================================================
