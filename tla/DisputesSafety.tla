--------------------------- MODULE DisputesSafety ---------------------------
(***************************************************************************)
(* What the dispute contract promises by itself, whatever the bounties     *)
(* contract answers.                                                       *)
(***************************************************************************)
EXTENDS Disputes

(* The type of the state.                                                  *)
TypeOK ==
  /\ now \in Nat
  /\ periods \in PeriodConfig
  /\ contract_status \in ContractStatuses
  /\ disputes \in Seq(Dispute)
  /\ arguments \in Seq(Nat) /\ Len(arguments) = Len(disputes)
  /\ proposals \in Seq(Proposal)
  /\ requests \in Seq(Requests)

(* A dispute ends once: no result that comes second, from a party, from    *)
(* the DAO's call and from finalize_dispute at the same time, changes what *)
(* was recorded, and no late proposal brings the dispute back.             *)
EndsOnce ==
  [][\A id \in DisputeIds :
       disputes[id].status \in EndedDispute =>
         disputes'[id].status = disputes[id].status]_vars

(* The DAO is asked about a dispute at most once that counts: a dispute    *)
(* that is with the DAO, or was decided by it, names a proposal about it.  *)
ProposalKnown ==
  \A id \in DisputeIds :
     disputes[id].status \in {"DecisionPending", "InFavorOfClaimant",
                              "InFavorOfProjectOwner"} =>
       /\ disputes[id].proposal_id \in DOMAIN proposals
       /\ proposals[disputes[id].proposal_id].dispute = id
       /\ disputes[id].proposal_timestamp \in 0 .. now

TimeIsOver(d) ==
  \E p \in Periods \cup {FirstPeriods} :
     now > d.proposal_timestamp + p.decision_period

(* What is recorded for the project owner without the claimant giving in   *)
(* was voted for; what is recorded for the claimant without the owner      *)
(* giving in was voted for or was not voted on in time: however votes,     *)
(* calls and answers that are stale when they are used interleave.         *)
VerdictFollowed ==
  \A id \in DisputeIds :
     LET d == disputes[id] IN
     /\ d.status = "InFavorOfProjectOwner" =>
          proposals[d.proposal_id].status = "Rejected"
     /\ d.status = "InFavorOfClaimant" =>
          \/ TimeIsOver(d)
          \/ \E p \in DOMAIN proposals :
                proposals[p].dispute = id /\ proposals[p].status = "Approved"

(* The DAO votes on all arguments that the parties brought: none is taken  *)
(* after the proposal was written.  (An administrator who lengthens the    *)
(* time for arguments while the proposal is on its way breaks this.)       *)
AllHeard ==
  \A id \in DisputeIds :
     disputes[id].proposal_id # Nil =>
       proposals[disputes[id].proposal_id].heard = arguments[id]

----------------------------------------------------------------------------
(* The parties want the dispute decided, so they escalate and finalize it, *)
(* again where the DAO did not answer; a call that the bounties contract   *)
(* can settle is not refused for ever.  The fairness is strong where a     *)
(* bound on the promises that are out may hold a call back, and where the  *)
(* promise may fail.                                                       *)
Progress ==
  /\ WF_vars(Tick)
  /\ \A id \in 1 .. MaxDisputes :
        /\ SF_vars(id \in DisputeIds /\ escalation(id))
        /\ SF_vars(id \in DisputeIds /\ finalize_dispute(id))
  /\ SF_vars(\E j \in DOMAIN requests : on_added_proposal_callback(j))
  /\ SF_vars(\E j \in DOMAIN requests : ReadProposal(j))
  /\ SF_vars(\E j \in DOMAIN requests : after_get_proposal(j))
  /\ SF_vars(\E j \in DOMAIN requests : Outcome(j, "ok"))
  /\ WF_vars(\E j \in DOMAIN requests :
                DropRequest(j) \/ after_claim_approval(j))

FairSpec == Spec /\ Progress

HasStatus(id, status) == id \in DisputeIds /\ disputes[id].status = status

(* While the contract is live, a dispute goes to the DAO when the time for *)
(* arguments is over, and ends when the time for the vote is over, whether *)
(* anybody votes or not and however many promises fail on the way.         *)
DisputeEnds ==
  \A id \in 1 .. MaxDisputes :
     /\ /\ HasStatus(id, "New")
        /\ \A p \in Periods \cup {FirstPeriods} :
              disputes[id].start_time + p.argument_period < MaxTime
        ~> ~HasStatus(id, "New") \/ ~Live
     /\ /\ HasStatus(id, "DecisionPending")
        /\ \A p \in Periods \cup {FirstPeriods} :
              disputes[id].proposal_timestamp + p.decision_period < MaxTime
        ~> ~HasStatus(id, "DecisionPending") \/ ~Live

============================================================================
