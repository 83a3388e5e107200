------------------------------ MODULE Disputes ------------------------------
(***************************************************************************)
(* The dispute contract (disputes/src/lib.rs, internal.rs, callbacks.rs):  *)
(* a dispute is opened on a rejected claim, both parties bring arguments,  *)
(* either gives in or, when the time for arguments is over, anybody asks   *)
(* the dispute resolution DAO.  What becomes of a dispute is told to the   *)
(* bounties contract first, by a promise, and only recorded here when that *)
(* promise has been kept.                                                  *)
(*                                                                         *)
(* The DAO is external: a list of proposals that are voted on.  A proposal *)
(* that is approved carries a call of result_of_dispute.  Its statuses     *)
(* other than Approved and Rejected are all "InProgress" here, as          *)
(* after_get_proposal takes them.  The bounties contract is external too:  *)
(* Outcome says how far the call of its dispute_result has come.           *)
(***************************************************************************)
EXTENDS Integers, FiniteSets, Sequences, SequencesExt

CONSTANTS
  Nil,           \* the absent optional value (a model value)
  Claims,        \* <<bounty, account, number>> of the claims
  Accounts,      \* the accounts that call the contract
  Periods,       \* the configurations an administrator may set
  FirstPeriods,  \* the one the contract starts with
  Statuses,      \* the contract statuses the administrator sets
  MaxTime,       \* bound on the block timestamp
  MaxDisputes,   \* bound on the disputes ever opened
  MaxArguments,  \* bound on the arguments in one dispute
  MaxProposals,  \* bound on the proposals the DAO stores
  MaxRequests    \* bound on the promises that are out at one time

VARIABLES
  now,             \* env::block_timestamp()
  periods,         \* the contract's Config
  contract_status, \* its ContractStatus
  disputes,        \* disputes by index, in the order they were opened
  arguments,       \* how many arguments each dispute was given
  proposals,       \* the proposals of the dispute resolution DAO (external)
  requests         \* promises whose callback has not run yet

dispute_vars == <<periods, contract_status, disputes, arguments, proposals,
                  requests>>
vars == <<now, dispute_vars>>

PeriodConfig == [argument_period: Nat, decision_period: Nat]

ASSUME DisputesAssumption ==
  /\ \A k \in Claims : k[2] \in Accounts
  /\ Periods \subseteq PeriodConfig /\ FirstPeriods \in PeriodConfig
  /\ Statuses \subseteq {"Live", "ReadOnly"}
  /\ MaxTime \in Nat

ASSUME NilAssumption == Nil \notin BOOLEAN

ContractStatuses == {"Genesis", "Live", "ReadOnly"}
OpenDispute == {"New", "DecisionPending"}
EndedDispute == {"InFavorOfClaimant", "InFavorOfProjectOwner",
                 "CanceledByClaimant", "CanceledByProjectOwner"}
Votes == {"InProgress", "Approved", "Rejected"}
Stages == {"sent", "paying", "ok", "failed"}

Dispute ==
  [claim: Claims, project_owner_delegate: Accounts, start_time: Nat,
   status: OpenDispute \cup EndedDispute,
   proposal_id: Nat \cup {Nil}, proposal_timestamp: Nat \cup {Nil}]

Proposal ==
  [dispute: Nat, heard: Nat, status: Votes, executed: BOOLEAN]

(* The promises: dispute_result of the bounties contract, and how far it   *)
(* has come; add_proposal and get_proposal of the DAO, and what it read.   *)
Requests ==
  [kind: {"result"}, id: Nat, success: BOOLEAN, canceled: BOOLEAN,
   stage: Stages]
  \cup [kind: {"addProposal"}, id: Nat, heard: Nat]
  \cup [kind: {"getProposal"}, id: Nat, proposal: Nat,
        read: Votes \cup {Nil}]

Init ==
  /\ now = 0
  /\ periods = FirstPeriods
  /\ contract_status = "Genesis"
  /\ disputes = <<>> /\ arguments = <<>>
  /\ proposals = <<>>
  /\ requests = <<>>

----------------------------------------------------------------------------
DisputeIds == 1 .. Len(disputes)
Live == contract_status = "Live"                    \* assert_live

(* Dispute.get_side_of_dispute: everybody else is turned away.             *)
Side(d, sender) ==
  CASE sender = d.claim[2] -> "Claimant"
    [] sender # d.claim[2] /\ sender = d.project_owner_delegate -> "ProjectOwner"
    [] OTHER -> "None"

IsArgumentPeriodExpired(d) == now > d.start_time + periods.argument_period

IsDecisionPeriodExpired(d) ==
  now > d.proposal_timestamp + periods.decision_period

SendRequest(q, r) == Len(q) < MaxRequests /\ requests' = Append(q, r)

Replied(j) == RemoveAt(requests, j)

(* internal_send_result_of_dispute                                         *)
SendResult(q, id, success, canceled) ==
  SendRequest(q, [kind |-> "result", id |-> id, success |-> success,
                  canceled |-> canceled, stage |-> "sent"])

----------------------------------------------------------------------------
(* The calls.                                                              *)

Tick ==
  /\ now < MaxTime
  /\ now' = now + 1
  /\ UNCHANGED dispute_vars

set_status(status) ==
  /\ status \notin {"Genesis", contract_status}
  /\ contract_status' = status
  /\ UNCHANGED <<now, periods, disputes, arguments, proposals, requests>>

change_config ==
  /\ Live
  /\ periods' \in Periods \ {periods}
  /\ UNCHANGED <<now, contract_status, disputes, arguments, proposals,
                 requests>>

NewDispute(k, delegate) ==          \* DisputeCreate.to_dispute
  [claim |-> k, project_owner_delegate |-> delegate, start_time |-> now,
   status |-> "New", proposal_id |-> Nil, proposal_timestamp |-> Nil]

(* Called by the bounties contract; internal_add_dispute.                  *)
create_dispute(k, delegate) ==
  /\ Live
  /\ Len(disputes) < MaxDisputes
  /\ disputes' = Append(disputes, NewDispute(k, delegate))
  /\ arguments' = Append(arguments, 0)
  /\ UNCHANGED <<now, periods, contract_status, proposals, requests>>

provide_arguments_slip(id, sender) ==
  /\ Live
  /\ disputes[id].status = "New"
  /\ Side(disputes[id], sender) # "None"
  /\ arguments[id] < MaxArguments
  /\ arguments' = [arguments EXCEPT ![id] = @ + 1]
  /\ UNCHANGED <<now, periods, contract_status, disputes, proposals, requests>>

provide_arguments(id, sender) ==
  /\ Live
  /\ disputes[id].status = "New"
  /\ ~IsArgumentPeriodExpired(disputes[id])
  /\ Side(disputes[id], sender) # "None"
  /\ arguments[id] < MaxArguments
  /\ arguments' = [arguments EXCEPT ![id] = @ + 1]
  /\ UNCHANGED <<now, periods, contract_status, disputes, proposals, requests>>

(* A party gives in: the other one has won.                                *)
cancel_dispute(id, sender) ==
  /\ Live
  /\ disputes[id].status = "New"
  /\ Side(disputes[id], sender) # "None"
  /\ SendResult(requests, id,
                Side(disputes[id], sender) = "ProjectOwner", TRUE)
  /\ UNCHANGED <<now, periods, contract_status, disputes, arguments, proposals>>

(* internal_add_proposal: the proposal carries the arguments so far.       *)
escalation(id) ==
  /\ Live
  /\ disputes[id].status = "New"
  /\ IsArgumentPeriodExpired(disputes[id])
  /\ SendRequest(requests, [kind |-> "addProposal", id |-> id,
                            heard |-> arguments[id]])
  /\ UNCHANGED <<now, periods, contract_status, disputes, arguments, proposals>>

(* The DAO carries out proposal p, which it has approved.                  *)
result_of_dispute(p) ==
  LET id == proposals[p].dispute IN
  /\ proposals[p].status = "Approved" /\ ~proposals[p].executed
  /\ Live
  /\ disputes[id].status = "DecisionPending"
  /\ ~IsDecisionPeriodExpired(disputes[id])
  /\ SendResult(requests, id, TRUE, FALSE)
  /\ proposals' = [proposals EXCEPT ![p].executed = TRUE]
  /\ UNCHANGED <<now, periods, contract_status, disputes, arguments>>

finalize_dispute(id) ==
  /\ Live
  /\ disputes[id].status = "DecisionPending"
  /\ SendRequest(requests, [kind |-> "getProposal", id |-> id,
                            proposal |-> disputes[id].proposal_id,
                            read |-> Nil])
  /\ UNCHANGED <<now, periods, contract_status, disputes, arguments, proposals>>

----------------------------------------------------------------------------
(* The DAO and the bounties contract.                                      *)

Vote(p, status) ==
  /\ proposals[p].status = "InProgress"
  /\ proposals' = [proposals EXCEPT ![p].status = status]
  /\ UNCHANGED <<now, periods, contract_status, disputes, arguments, requests>>

ReadProposal(j) ==                  \* get_proposal of the DAO
  /\ requests[j].kind = "getProposal" /\ requests[j].read = Nil
  /\ requests' = [requests EXCEPT
       ![j].read = proposals[requests[j].proposal].status]
  /\ UNCHANGED <<now, periods, contract_status, disputes, arguments, proposals>>

(* dispute_result of the bounties contract has sent the reward, or has     *)
(* settled the claim, or has failed.                                       *)
Outcome(j, stage) ==
  /\ requests[j].kind = "result"
  /\ \/ requests[j].stage = "sent" /\ stage \in {"paying", "ok", "failed"}
     \/ requests[j].stage = "paying" /\ stage \in {"ok", "failed"}
  /\ requests' = [requests EXCEPT ![j].stage = stage]
  /\ UNCHANGED <<now, periods, contract_status, disputes, arguments, proposals>>

----------------------------------------------------------------------------
(* The callbacks.  None of them asks whether the contract is live.         *)

(* The promise failed, or its callback panics or only logs the failure.    *)
DropRequest(j) ==
  /\ requests[j].kind = "result" => requests[j].stage = "failed"
  /\ requests' = Replied(j)
  /\ UNCHANGED <<now, periods, contract_status, disputes, arguments, proposals>>

(* The DAO has stored the proposal: it stays there if the callback panics  *)
(* because the dispute is no longer new.                                   *)
on_added_proposal_callback(j) ==
  LET r == requests[j] IN
  /\ r.kind = "addProposal" /\ Len(proposals) < MaxProposals
  /\ proposals' = Append(proposals,
       [dispute |-> r.id, heard |-> r.heard, status |-> "InProgress",
        executed |-> FALSE])
  /\ disputes' =
       IF disputes[r.id].status = "New"
       THEN [disputes EXCEPT ![r.id].status = "DecisionPending",
                             ![r.id].proposal_id = Len(proposals) + 1,
                             ![r.id].proposal_timestamp = now]
       ELSE disputes
  /\ requests' = Replied(j)
  /\ UNCHANGED <<now, periods, contract_status, arguments>>

EndStatus_slip(success, canceled) ==
  IF success THEN "InFavorOfClaimant" ELSE "InFavorOfProjectOwner"

EndStatus_slip2(success, canceled) ==
  CASE success /\ canceled   -> "CanceledByClaimant"
    [] success /\ ~canceled  -> "InFavorOfClaimant"
    [] ~success /\ canceled  -> "CanceledByProjectOwner"
    [] ~success /\ ~canceled -> "InFavorOfProjectOwner"

EndStatus(success, canceled) ==
  CASE success /\ canceled   -> "CanceledByProjectOwner"
    [] success /\ ~canceled  -> "InFavorOfClaimant"
    [] ~success /\ canceled  -> "CanceledByClaimant"
    [] ~success /\ ~canceled -> "InFavorOfProjectOwner"

Ended_slip(d, success, canceled) ==
  [d EXCEPT !.status = EndStatus(success, canceled)]

(* A result that comes second panics.                                      *)
Ended(d, success, canceled) ==
  IF d.status \in OpenDispute
  THEN [d EXCEPT !.status = EndStatus(success, canceled)] ELSE d

(* The bounties contract has settled the claim.                            *)
after_claim_approval(j) ==
  LET r == requests[j] IN
  /\ r.kind = "result" /\ r.stage = "ok"
  /\ disputes' = [disputes EXCEPT ![r.id] = Ended(@, r.success, r.canceled)]
  /\ requests' = Replied(j)
  /\ UNCHANGED <<now, periods, contract_status, arguments, proposals>>

(* What is made of the vote: without one in time the claimant wins.        *)
Verdict_slip(d, read) ==
  CASE read = "Approved" -> TRUE
    [] read = "Rejected" -> FALSE
    [] OTHER -> TRUE

Verdict_slip2(d, read) ==
  CASE read = "Approved" -> TRUE
    [] read = "Rejected" -> FALSE
    [] OTHER -> Nil

Verdict(d, read) ==
  CASE read = "Approved" -> TRUE
    [] read = "Rejected" -> FALSE
    [] read = "InProgress" /\ IsDecisionPeriodExpired(d) -> TRUE
    [] OTHER -> Nil

after_get_proposal(j) ==
  LET r == requests[j] IN
  /\ r.kind = "getProposal" /\ r.read # Nil
  /\ disputes[r.id].status = "DecisionPending"
  /\ disputes[r.id].proposal_id = r.proposal
  /\ Verdict(disputes[r.id], r.read) \in BOOLEAN
  /\ SendResult(Replied(j), r.id, Verdict(disputes[r.id], r.read), FALSE)
  /\ UNCHANGED <<now, periods, contract_status, disputes, arguments, proposals>>

----------------------------------------------------------------------------
(* What the contract, its parties and the DAO do by themselves; the other  *)
(* steps are shared with the bounties contract.                            *)
OwnNext ==
  \/ \E status \in Statuses : set_status(status)
  \/ change_config
  \/ \E id \in DisputeIds :
        \/ \E sender \in Accounts : \/ provide_arguments(id, sender)
                                    \/ cancel_dispute(id, sender)
        \/ escalation(id)
        \/ finalize_dispute(id)
  \/ \E p \in 1 .. Len(proposals) :
        \/ result_of_dispute(p)
        \/ \E status \in {"Approved", "Rejected"} : Vote(p, status)
  \/ \E j \in 1 .. Len(requests) :
        \/ ReadProposal(j)
        \/ on_added_proposal_callback(j)
        \/ after_claim_approval(j)
        \/ after_get_proposal(j)
        \/ DropRequest(j)

Next ==
  \/ Tick
  \/ OwnNext
  \/ \E k \in Claims, delegate \in Accounts : create_dispute(k, delegate)
  \/ \E j \in 1 .. Len(requests), stage \in Stages : Outcome(j, stage)

Spec == Init /\ [][Next]_vars

============================================================================
