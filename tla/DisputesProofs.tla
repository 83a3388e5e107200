--------------------------- MODULE DisputesProofs ---------------------------
(***************************************************************************)
(* What the dispute contract promises, for every number of disputes,       *)
(* arguments, proposals and promises, and every configuration.             *)
(*                                                                         *)
(* The state of a dispute does not say what the promises about it carry:   *)
(* Grounded adds that a result that is on its way without a party having   *)
(* given in, and a vote that was read, rest on what the DAO holds.  What a *)
(* promise rests on stays while it is out (Keeps), so every action needs   *)
(* only say what it does to the statuses (Moved) and that the promises it  *)
(* leaves behind rest on the state it started from.                        *)
(***************************************************************************)
EXTENDS DisputesSafety, Collections

(* The DAO has been asked about dispute id.                                *)
Asked(id) ==
  /\ disputes[id].status # "New"
  /\ disputes[id].proposal_id \in DOMAIN proposals
  /\ proposals[disputes[id].proposal_id].dispute = id
  /\ disputes[id].proposal_timestamp \in 0 .. now

(* What there is to say for the claimant, and for the project owner.       *)
ForClaimant(id) ==
  \/ TimeIsOver(disputes[id])
  \/ \E p \in DOMAIN proposals :
        proposals[p].dispute = id /\ proposals[p].status = "Approved"

ForOwner(id) == proposals[disputes[id].proposal_id].status = "Rejected"

(* A promise is about a dispute that is there, and rests on what the DAO   *)
(* holds.                                                                  *)
Rests(r) ==
  /\ r.id \in DisputeIds
  /\ r.kind = "result" /\ ~r.canceled =>
       /\ Asked(r.id)
       /\ r.success => ForClaimant(r.id)
       /\ ~r.success => ForOwner(r.id)
  /\ r.kind = "getProposal" =>
       /\ r.proposal \in DOMAIN proposals
       /\ proposals[r.proposal].dispute = r.id
       /\ r.read # Nil /\ r.read \in {"Approved", "Rejected"} =>
            proposals[r.proposal].status = r.read

RestsSeq(q) == q \in Seq(Requests) /\ \A j \in 1 .. Len(q) : Rests(q[j])

Grounded ==
  /\ RestsSeq(requests)
  /\ \A p \in DOMAIN proposals : proposals[p].dispute \in DisputeIds
  /\ periods \in Periods \cup {FirstPeriods}

(* The inductive invariant of this module.                                 *)
Order == TypeOK /\ ProposalKnown /\ VerdictFollowed /\ Grounded

----------------------------------------------------------------------------
(* The type of everything but the promises.                                *)
DataOK ==
  /\ now \in Nat
  /\ periods \in Periods \cup {FirstPeriods}
  /\ contract_status \in ContractStatuses
  /\ disputes \in Seq(Dispute)
  /\ arguments \in Seq(Nat) /\ Len(arguments) = Len(disputes)
  /\ proposals \in Seq(Proposal)
  /\ \A p \in DOMAIN proposals : proposals[p].dispute \in DisputeIds

(* The step keeps what the promises that are out rest on.                  *)
Keeps ==
  /\ DisputeIds \subseteq DisputeIds'
  /\ \A id \in DisputeIds :
       disputes[id].status # "New" =>
         /\ disputes'[id].status # "New"
         /\ disputes'[id].proposal_id = disputes[id].proposal_id
         /\ disputes'[id].proposal_timestamp = disputes[id].proposal_timestamp
  /\ DOMAIN proposals \subseteq DOMAIN proposals'
  /\ \A p \in DOMAIN proposals :
       /\ proposals'[p].dispute = proposals[p].dispute
       /\ proposals[p].status # "InProgress" =>
            proposals'[p].status = proposals[p].status
  /\ now <= now'

(* How the step may change the status of dispute id.                       *)
Moves(id) ==
  \/ disputes'[id].status = disputes[id].status
  \/ /\ disputes[id].status \in OpenDispute
     /\ \/ disputes'[id].status = "DecisionPending" /\ Asked(id)'
        \/ disputes'[id].status \in {"CanceledByClaimant",
                                     "CanceledByProjectOwner"}
        \/ disputes'[id].status = "InFavorOfClaimant"
             /\ Asked(id) /\ ForClaimant(id)
        \/ disputes'[id].status = "InFavorOfProjectOwner"
             /\ Asked(id) /\ ForOwner(id)

Moved ==
  \A id \in DisputeIds' :
     IF id \in DisputeIds THEN Moves(id) ELSE disputes'[id].status = "New"

Orderly == DataOK' /\ Keeps /\ Moved /\ RestsSeq(requests')

----------------------------------------------------------------------------
LEMMA OrderTypes ==
  ASSUME Order
  PROVE  /\ DataOK
         /\ Len(disputes) \in Nat /\ DOMAIN disputes = DisputeIds
         /\ \A id \in DisputeIds : disputes[id] \in Dispute
         /\ Len(proposals) \in Nat /\ DOMAIN proposals = 1 .. Len(proposals)
         /\ \A p \in DOMAIN proposals : proposals[p] \in Proposal
         /\ Len(requests) \in Nat
         /\ \A j \in 1 .. Len(requests) :
              requests[j] \in Requests /\ Rests(requests[j])
<1>1. DataOK
  BY DEF Order, TypeOK, Grounded, DataOK
<1> QED BY <1>1 DEF Order, TypeOK, Grounded, RestsSeq, DisputeIds, DataOK

LEMMA DataType ==
  ASSUME DataOK, requests \in Seq(Requests)
  PROVE  TypeOK
BY DisputesAssumption DEF DataOK, TypeOK

LEMMA PendingAsked ==
  ASSUME Order, NEW id \in DisputeIds,
         disputes[id].status \in {"DecisionPending", "InFavorOfClaimant",
                                  "InFavorOfProjectOwner"}
  PROVE  Asked(id)
BY DEF Order, ProposalKnown, Asked

LEMMA AskedKept ==
  ASSUME Order, Keeps, DataOK', NEW id \in DisputeIds, Asked(id)
  PROVE  Asked(id)'
<1>1. now \in Nat /\ now' \in Nat /\ now <= now'
  BY OrderTypes DEF DataOK, Keeps
<1> QED BY <1>1 DEF Keeps, Asked

LEMMA ForClaimantKept ==
  ASSUME Order, Keeps, DataOK', NEW id \in DisputeIds, Asked(id),
         ForClaimant(id)
  PROVE  ForClaimant(id)'
<1>1. now \in Nat /\ now' \in Nat /\ now <= now'
  BY OrderTypes DEF DataOK, Keeps
<1>2. disputes'[id].proposal_timestamp = disputes[id].proposal_timestamp
  BY DEF Keeps, Asked
<1>3. CASE TimeIsOver(disputes[id])
  <2>1. PICK p \in Periods \cup {FirstPeriods} :
          now > disputes[id].proposal_timestamp + p.decision_period
    BY <1>3 DEF TimeIsOver
  <2>2. p.decision_period \in Nat
    BY DisputesAssumption DEF PeriodConfig
  <2>3. disputes[id].proposal_timestamp \in Nat
    BY <1>1 DEF Asked
  <2>4. now' > disputes'[id].proposal_timestamp + p.decision_period
    BY <1>1, <1>2, <2>1, <2>2, <2>3
  <2> QED BY <2>4 DEF ForClaimant, TimeIsOver
<1>4. CASE \E p \in DOMAIN proposals :
             proposals[p].dispute = id /\ proposals[p].status = "Approved"
  BY <1>4 DEF ForClaimant, Keeps
<1> QED BY <1>3, <1>4 DEF ForClaimant

LEMMA ForOwnerKept ==
  ASSUME Order, Keeps, NEW id \in DisputeIds, Asked(id), ForOwner(id)
  PROVE  ForOwner(id)'
BY DEF Keeps, Asked, ForOwner

(* What rests on the state before the step rests on the state after it.    *)
LEMMA RestsKept ==
  ASSUME Order, Keeps, DataOK', NEW r, Rests(r)
  PROVE  Rests(r)'
<1>1. r.id \in DisputeIds /\ r.id \in DisputeIds'
  BY DEF Rests, Keeps
<1>2. ASSUME r.kind = "result", ~r.canceled
      PROVE  /\ Asked(r.id)'
             /\ r.success => ForClaimant(r.id)'
             /\ ~r.success => ForOwner(r.id)'
  BY <1>1, <1>2, AskedKept, ForClaimantKept, ForOwnerKept DEF Rests
<1>3. ASSUME r.kind = "getProposal"
      PROVE  /\ r.proposal \in DOMAIN proposals'
             /\ proposals'[r.proposal].dispute = r.id
             /\ r.read # Nil /\ r.read \in {"Approved", "Rejected"} =>
                  proposals'[r.proposal].status = r.read
  BY <1>3 DEF Rests, Keeps
<1> QED BY <1>1, <1>2, <1>3 DEF Rests

(* An orderly step keeps the invariant.                                    *)
LEMMA OrderKept ==
  ASSUME Order, Orderly
  PROVE  Order'
<1>1. DataOK' /\ Keeps /\ Moved
  BY DEF Orderly
<1>2. RestsSeq(requests)'
  <2>1. /\ requests' \in Seq(Requests)
        /\ \A j \in 1 .. Len(requests') : Rests(requests'[j])
    BY DEF Orderly, RestsSeq
  <2>2. \A r : Rests(r) => Rests(r)'
    BY <1>1, RestsKept
  <2> QED BY <2>1, <2>2 DEF RestsSeq, Rests, Asked, ForClaimant, ForOwner
<1>3. TypeOK' /\ Grounded'
  <2>1. TypeOK'
    BY <1>1, <1>2, DisputesAssumption DEF DataOK, TypeOK, RestsSeq
  <2> QED BY <1>1, <1>2, <2>1 DEF DataOK, Grounded
<1>4. ASSUME NEW id \in DisputeIds',
             disputes'[id].status \in {"DecisionPending", "InFavorOfClaimant",
                                       "InFavorOfProjectOwner"}
      PROVE  /\ Asked(id)'
             /\ disputes'[id].status = "InFavorOfProjectOwner" => ForOwner(id)'
             /\ disputes'[id].status = "InFavorOfClaimant" => ForClaimant(id)'
  <2>1. id \in DisputeIds /\ Moves(id)
    BY <1>1, <1>4 DEF Moved
  <2>2. CASE disputes'[id].status = disputes[id].status
    <3>1. Asked(id)
      BY <1>4, <2>1, <2>2, PendingAsked
    <3>2. /\ disputes[id].status = "InFavorOfProjectOwner" => ForOwner(id)
          /\ disputes[id].status = "InFavorOfClaimant" => ForClaimant(id)
      BY <2>1 DEF Order, VerdictFollowed, ForOwner, ForClaimant
    <3> QED BY <1>1, <2>1, <2>2, <3>1, <3>2, AskedKept, ForClaimantKept,
               ForOwnerKept
  <2>3. CASE disputes'[id].status = "DecisionPending" /\ Asked(id)'
    BY <2>3
  <2>4. CASE /\ disputes'[id].status = "InFavorOfClaimant"
             /\ Asked(id) /\ ForClaimant(id)
    BY <1>1, <2>1, <2>4, AskedKept, ForClaimantKept
  <2>5. CASE /\ disputes'[id].status = "InFavorOfProjectOwner"
             /\ Asked(id) /\ ForOwner(id)
    BY <1>1, <2>1, <2>5, AskedKept, ForOwnerKept
  <2> QED BY <1>4, <2>1, <2>2, <2>3, <2>4, <2>5 DEF Moves
<1>5. ProposalKnown'
  BY <1>4 DEF ProposalKnown, Asked
<1>6. VerdictFollowed'
  BY <1>4 DEF VerdictFollowed, ForClaimant, ForOwner
<1> QED BY <1>3, <1>5, <1>6 DEF Order

----------------------------------------------------------------------------
(* The promises a step leaves behind.                                      *)

LEMMA RestsSent ==
  ASSUME NEW q, RestsSeq(q), NEW r \in Requests, Rests(r), SendRequest(q, r)
  PROVE  RestsSeq(requests')
<1>1. requests' = Append(q, r) /\ q \in Seq(Requests)
  BY DEF SendRequest, RestsSeq
<1>2. /\ requests' \in Seq(Requests)
      /\ Len(requests') = Len(q) + 1
      /\ requests'[Len(q) + 1] = r
      /\ \A j \in 1 .. Len(q) : requests'[j] = q[j]
  BY <1>1, AppendKeeps
<1>3. ASSUME NEW j \in 1 .. Len(requests')
      PROVE  Rests(requests'[j])
  <2>1. j \in 1 .. Len(q) \/ j = Len(q) + 1
    BY <1>1, <1>2
  <2> QED BY <1>2, <2>1 DEF RestsSeq
<1> QED BY <1>2, <1>3 DEF RestsSeq

LEMMA RestsLeft ==
  ASSUME Order, NEW j \in 1 .. Len(requests)
  PROVE  RestsSeq(Replied(j))
<1>1. /\ requests \in Seq(Requests)
      /\ \A m \in 1 .. Len(requests) : Rests(requests[m])
  BY DEF Order, Grounded, RestsSeq
<1>2. Replied(j) \in Seq(Requests)
  BY <1>1, RemoveAtKeeps DEF Replied
<1>3. \A n \in 1 .. Len(Replied(j)) :
        \E m \in 1 .. Len(requests) : Replied(j)[n] = requests[m]
  BY <1>1, RemoveAtFrom DEF Replied
<1> QED BY <1>1, <1>2, <1>3 DEF RestsSeq

LEMMA RestsUpdated ==
  ASSUME Order, NEW j \in 1 .. Len(requests), NEW r \in Requests, Rests(r),
         requests' = [requests EXCEPT ![j] = r]
  PROVE  RestsSeq(requests')
<1>1. /\ requests \in Seq(Requests)
      /\ \A m \in 1 .. Len(requests) : Rests(requests[m])
  BY DEF Order, Grounded, RestsSeq
<1>2. /\ requests' \in Seq(Requests)
      /\ Len(requests') = Len(requests)
      /\ \A m \in 1 .. Len(requests) :
           requests'[m] = IF m = j THEN r ELSE requests[m]
  BY <1>1, ExceptSeq
<1> QED BY <1>1, <1>2 DEF RestsSeq

(* Nothing but the promises, the votes of the DAO, the arguments or the    *)
(* configuration changes.                                                  *)
LEMMA StillOrderly ==
  ASSUME Order, UNCHANGED <<now, contract_status, disputes>>,
         periods' \in Periods \cup {FirstPeriods},
         arguments' \in Seq(Nat), Len(arguments') = Len(arguments),
         UNCHANGED proposals, RestsSeq(requests')
  PROVE  Orderly
<1>1. DataOK' /\ now \in Nat
  BY OrderTypes DEF DataOK, DisputeIds
<1>2. Keeps /\ Moved
  BY <1>1 DEF Keeps, Moved, Moves, DisputeIds
<1> QED BY <1>1, <1>2 DEF Orderly

LEMMA OnlyRequests ==
  ASSUME Order, RestsSeq(requests'),
         UNCHANGED <<now, periods, contract_status, disputes, arguments,
                     proposals>>
  PROVE  Orderly
BY OrderTypes, StillOrderly DEF DataOK

LEMMA StillRests ==
  ASSUME Order, UNCHANGED requests
  PROVE  RestsSeq(requests')
BY DEF Order, Grounded

----------------------------------------------------------------------------
(* The calls.                                                              *)

LEMMA TickOrder ==
  ASSUME Order, Tick
  PROVE  Orderly
<1>1. /\ now' = now + 1 /\ now \in Nat
      /\ UNCHANGED <<periods, contract_status, disputes, arguments, proposals,
                     requests>>
  BY OrderTypes DEF Tick, dispute_vars, DataOK
<1>2. DataOK'
  BY <1>1, OrderTypes DEF DataOK, DisputeIds
<1>3. Keeps /\ Moved
  BY <1>1 DEF Keeps, Moved, Moves, DisputeIds
<1> QED BY <1>1, <1>2, <1>3, StillRests DEF Orderly

LEMMA AdminOrder ==
  ASSUME Order, change_config \/ \E status \in Statuses : set_status(status)
  PROVE  Orderly
<1>1. CASE change_config
  BY <1>1, OrderTypes, StillOrderly, StillRests DEF change_config, DataOK
<1>2. ASSUME NEW status \in Statuses, set_status(status)
      PROVE  Orderly
  <2>1. /\ contract_status' \in ContractStatuses
        /\ UNCHANGED <<now, periods, disputes, arguments, proposals, requests>>
    BY <1>2, DisputesAssumption DEF set_status, ContractStatuses
  <2>2. DataOK' /\ now \in Nat
    BY <2>1, OrderTypes DEF DataOK, DisputeIds
  <2>3. Keeps /\ Moved
    BY <2>1, <2>2 DEF Keeps, Moved, Moves, DisputeIds
  <2> QED BY <2>1, <2>2, <2>3, StillRests DEF Orderly
<1> QED BY <1>1, <1>2

LEMMA CreateOrder ==
  ASSUME Order, NEW k \in Claims, NEW delegate \in Accounts,
         create_dispute(k, delegate)
  PROVE  Orderly
<1>1. /\ UNCHANGED <<now, periods, contract_status, proposals, requests>>
      /\ disputes' = Append(disputes, NewDispute(k, delegate))
      /\ arguments' = Append(arguments, 0)
  BY DEF create_dispute
<1>2. NewDispute(k, delegate) \in Dispute
  BY OrderTypes DEF NewDispute, Dispute, DataOK, OpenDispute
<1>3. /\ disputes' \in Seq(Dispute)
      /\ Len(disputes') = Len(disputes) + 1
      /\ disputes'[Len(disputes) + 1] = NewDispute(k, delegate)
      /\ \A id \in 1 .. Len(disputes) : disputes'[id] = disputes[id]
  BY <1>1, <1>2, OrderTypes, AppendKeeps DEF DataOK
<1>4. arguments' \in Seq(Nat) /\ Len(arguments') = Len(arguments) + 1
  BY <1>1, OrderTypes, AppendKeeps DEF DataOK
<1>5. /\ Len(disputes) \in Nat
      /\ DisputeIds' = DisputeIds \cup {Len(disputes) + 1}
      /\ Len(disputes) + 1 \notin DisputeIds
  BY <1>3, OrderTypes DEF DisputeIds
<1>6. DataOK'
  <2>1. now \in Nat /\ Len(arguments) = Len(disputes)
        /\ \A p \in DOMAIN proposals : proposals[p].dispute \in DisputeIds
    BY OrderTypes DEF DataOK
  <2> QED BY <1>1, <1>3, <1>4, <1>5, <2>1, OrderTypes DEF DataOK
<1>7. Keeps
  BY <1>1, <1>3, <1>5, OrderTypes DEF Keeps, DisputeIds, DataOK
<1>8. Moved
  BY <1>3, <1>5 DEF Moved, Moves, DisputeIds, NewDispute
<1> QED BY <1>1, <1>6, <1>7, <1>8, StillRests DEF Orderly

LEMMA ArgumentsOrder ==
  ASSUME Order, NEW id \in DisputeIds, NEW sender \in Accounts,
         provide_arguments(id, sender)
  PROVE  Orderly
<1>1. /\ UNCHANGED <<now, periods, contract_status, disputes, proposals,
                     requests>>
      /\ arguments' = [arguments EXCEPT ![id] = arguments[id] + 1]
  BY DEF provide_arguments
<1>2. arguments \in Seq(Nat) /\ id \in 1 .. Len(arguments)
  BY OrderTypes DEF DataOK, DisputeIds
<1>3. arguments[id] + 1 \in Nat
  BY <1>2
<1>4. arguments' \in Seq(Nat) /\ Len(arguments') = Len(arguments)
  BY <1>1, <1>2, <1>3, ExceptSeq
<1> QED BY <1>1, <1>4, OrderTypes, StillOrderly, StillRests DEF DataOK

LEMMA SendResultOrder ==
  ASSUME Order, NEW q, RestsSeq(q), NEW id \in DisputeIds,
         NEW success \in BOOLEAN, NEW canceled \in BOOLEAN,
         ~canceled => /\ Asked(id)
                      /\ success => ForClaimant(id)
                      /\ ~success => ForOwner(id),
         SendResult(q, id, success, canceled)
  PROVE  RestsSeq(requests')
<1> DEFINE r == [kind |-> "result", id |-> id, success |-> success,
                 canceled |-> canceled, stage |-> "sent"]
<1>1. id \in Nat
  BY OrderTypes DEF DisputeIds
<1>2. r \in Requests
  BY <1>1 DEF Requests, Stages
<1>3. Rests(r)
  BY DEF Rests
<1>4. SendRequest(q, r)
  BY DEF SendResult
<1> HIDE DEF r
<1> QED BY <1>2, <1>3, <1>4, RestsSent

LEMMA PartiesOrder ==
  ASSUME Order, NEW id \in DisputeIds,
         \/ \E sender \in Accounts : \/ provide_arguments(id, sender)
                                     \/ cancel_dispute(id, sender)
         \/ escalation(id)
         \/ finalize_dispute(id)
  PROVE  Orderly
<1>1. RestsSeq(requests) /\ id \in Nat
  BY OrderTypes DEF Order, Grounded, DisputeIds
<1>2. ASSUME NEW sender \in Accounts, cancel_dispute(id, sender)
      PROVE  Orderly
  <2>1. /\ UNCHANGED <<now, periods, contract_status, disputes, arguments,
                       proposals>>
        /\ SendResult(requests, id,
                      Side(disputes[id], sender) = "ProjectOwner", TRUE)
    BY <1>2 DEF cancel_dispute
  <2> DEFINE success == Side(disputes[id], sender) = "ProjectOwner"
  <2>2. success \in BOOLEAN
    OBVIOUS
  <2> HIDE DEF success
  <2>3. SendResult(requests, id, success, TRUE)
    BY <2>1 DEF success
  <2>4. RestsSeq(requests')
    BY <1>1, <2>2, <2>3, SendResultOrder
  <2> QED BY <2>1, <2>4, OnlyRequests
<1>3. CASE escalation(id)
  <2> DEFINE r == [kind |-> "addProposal", id |-> id, heard |-> arguments[id]]
  <2>1. /\ UNCHANGED <<now, periods, contract_status, disputes, arguments,
                       proposals>>
        /\ SendRequest(requests, r)
    BY <1>3 DEF escalation
  <2>2. r \in Requests
    <3>1. arguments \in Seq(Nat) /\ id \in 1 .. Len(arguments)
      BY OrderTypes DEF DataOK, DisputeIds
    <3>2. arguments[id] \in Nat
      BY <3>1
    <3> QED BY <1>1, <3>2 DEF Requests
  <2>3. Rests(r)
    BY DEF Rests
  <2> HIDE DEF r
  <2> QED BY <1>1, <2>1, <2>2, <2>3, RestsSent, OnlyRequests
<1>4. CASE finalize_dispute(id)
  <2> DEFINE r == [kind |-> "getProposal", id |-> id,
                   proposal |-> disputes[id].proposal_id, read |-> Nil]
  <2>1. /\ UNCHANGED <<now, periods, contract_status, disputes, arguments,
                       proposals>>
        /\ SendRequest(requests, r) /\ disputes[id].status = "DecisionPending"
    BY <1>4 DEF finalize_dispute
  <2>2. Asked(id)
    BY <2>1, PendingAsked
  <2>3. disputes[id].proposal_id \in Nat
    BY <2>2, OrderTypes DEF Asked
  <2>4. r \in Requests
    BY <1>1, <2>3 DEF Requests
  <2>5. Rests(r)
    BY <2>2 DEF Rests, Asked
  <2> HIDE DEF r
  <2> QED BY <1>1, <2>1, <2>4, <2>5, RestsSent, OnlyRequests
<1> QED BY <1>2, <1>3, <1>4, ArgumentsOrder

----------------------------------------------------------------------------
(* The DAO and the bounties contract.                                      *)

(* A proposal changes only from being voted on, and keeps its dispute.     *)
LEMMA ProposalsOrder ==
  ASSUME Order, NEW p \in DOMAIN proposals, NEW prop \in Proposal,
         UNCHANGED <<now, periods, contract_status, disputes, arguments>>,
         proposals' = [proposals EXCEPT ![p] = prop],
         prop.dispute = proposals[p].dispute,
         proposals[p].status # "InProgress" =>
           prop.status = proposals[p].status,
         RestsSeq(requests')
  PROVE  Orderly
<1>1. /\ DOMAIN proposals' = DOMAIN proposals
      /\ \A x \in DOMAIN proposals :
           proposals'[x] = IF x = p THEN prop ELSE proposals[x]
  BY OrderTypes
<1>2. proposals' \in Seq(Proposal)
  <2>1. proposals \in Seq(Proposal) /\ p \in 1 .. Len(proposals)
    BY OrderTypes DEF DataOK
  <2> QED BY <2>1, ExceptSeq
<1>3. DataOK' /\ now \in Nat
  BY <1>1, <1>2, OrderTypes DEF DataOK, DisputeIds
<1>4. Keeps /\ Moved
  BY <1>1, <1>3 DEF Keeps, Moved, Moves, DisputeIds
<1> QED BY <1>3, <1>4 DEF Orderly

LEMMA VoteOrder ==
  ASSUME Order, NEW p \in 1 .. Len(proposals),
         NEW status \in {"Approved", "Rejected"}, Vote(p, status)
  PROVE  Orderly
<1> DEFINE prop == [proposals[p] EXCEPT !.status = status]
<1>1. p \in DOMAIN proposals /\ proposals[p] \in Proposal
  BY OrderTypes
<1>2. prop \in Proposal /\ prop.dispute = proposals[p].dispute
  BY <1>1 DEF Proposal, Votes
<1>3. /\ UNCHANGED <<now, periods, contract_status, disputes, arguments,
                     requests>>
      /\ proposals' = [proposals EXCEPT ![p] = prop]
      /\ proposals[p].status = "InProgress"
  BY DEF Vote
<1> HIDE DEF prop
<1> QED BY <1>1, <1>2, <1>3, ProposalsOrder, StillRests

LEMMA ExecuteOrder ==
  ASSUME Order, NEW p \in 1 .. Len(proposals), result_of_dispute(p)
  PROVE  Orderly
<1> DEFINE id == proposals[p].dispute
           prop == [proposals[p] EXCEPT !.executed = TRUE]
<1>1. p \in DOMAIN proposals /\ proposals[p] \in Proposal /\ id \in DisputeIds
  BY OrderTypes DEF DataOK
<1>2. /\ prop \in Proposal /\ prop.dispute = proposals[p].dispute
      /\ prop.status = proposals[p].status
  BY <1>1 DEF Proposal
<1>3. /\ UNCHANGED <<now, periods, contract_status, disputes, arguments>>
      /\ proposals' = [proposals EXCEPT ![p] = prop]
      /\ proposals[p].status = "Approved"
      /\ disputes[id].status = "DecisionPending"
      /\ SendResult(requests, id, TRUE, FALSE)
  BY DEF result_of_dispute
<1>4. Asked(id) /\ ForClaimant(id)
  BY <1>1, <1>3, PendingAsked DEF ForClaimant
<1>5. RestsSeq(requests')
  <2>1. RestsSeq(requests)
    BY DEF Order, Grounded
  <2> HIDE DEF id, prop
  <2> QED BY <1>1, <1>3, <1>4, <2>1, SendResultOrder
<1> HIDE DEF prop
<1> QED BY <1>1, <1>2, <1>3, <1>5, ProposalsOrder

LEMMA ReadOrder ==
  ASSUME Order, NEW j \in 1 .. Len(requests), ReadProposal(j)
  PROVE  Orderly
<1> DEFINE r == [requests[j] EXCEPT
                   !.read = proposals[requests[j].proposal].status]
<1>1. /\ UNCHANGED <<now, periods, contract_status, disputes, arguments,
                     proposals>>
      /\ requests' = [requests EXCEPT ![j] = r]
      /\ requests[j].kind = "getProposal"
  BY DEF ReadProposal
<1>2. requests[j] \in Requests /\ Rests(requests[j])
  BY OrderTypes
<1>3. /\ requests[j].proposal \in DOMAIN proposals
      /\ proposals[requests[j].proposal].status \in Votes
  BY <1>1, <1>2, OrderTypes DEF Rests, Proposal
<1>4. requests[j] \in [kind: {"getProposal"}, id: Nat, proposal: Nat,
                       read: Votes \cup {Nil}]
  BY <1>1, <1>2 DEF Requests
<1>5. /\ r \in Requests /\ r.kind = "getProposal" /\ r.id = requests[j].id
      /\ r.proposal = requests[j].proposal
      /\ r.read = proposals[requests[j].proposal].status
  BY <1>3, <1>4 DEF Requests
<1> HIDE DEF r
<1>6. Rests(r)
  BY <1>1, <1>2, <1>5 DEF Rests
<1> QED BY <1>1, <1>5, <1>6, RestsUpdated, OnlyRequests

LEMMA OutcomeOrder ==
  ASSUME Order, NEW j \in 1 .. Len(requests), NEW stage \in Stages,
         Outcome(j, stage)
  PROVE  Orderly
<1> DEFINE r == [requests[j] EXCEPT !.stage = stage]
<1>1. /\ UNCHANGED <<now, periods, contract_status, disputes, arguments,
                     proposals>>
      /\ requests' = [requests EXCEPT ![j] = r]
      /\ requests[j].kind = "result"
  BY DEF Outcome
<1>2. requests[j] \in Requests /\ Rests(requests[j])
  BY OrderTypes
<1>3. requests[j] \in [kind: {"result"}, id: Nat, success: BOOLEAN,
                       canceled: BOOLEAN, stage: Stages]
  BY <1>1, <1>2 DEF Requests
<1>4. /\ r \in Requests /\ r.kind = "result" /\ r.id = requests[j].id
      /\ r.success = requests[j].success /\ r.canceled = requests[j].canceled
  BY <1>3 DEF Requests
<1> HIDE DEF r
<1>5. Rests(r)
  BY <1>1, <1>2, <1>4 DEF Rests
<1> QED BY <1>1, <1>4, <1>5, RestsUpdated, OnlyRequests

----------------------------------------------------------------------------
(* The callbacks.                                                          *)

LEMMA DropOrder ==
  ASSUME Order, NEW j \in 1 .. Len(requests), DropRequest(j)
  PROVE  Orderly
BY RestsLeft, OnlyRequests DEF DropRequest

LEMMA AddedOrder ==
  ASSUME Order, NEW j \in 1 .. Len(requests), on_added_proposal_callback(j)
  PROVE  Orderly
<1>0. PICK r : r = requests[j]
  OBVIOUS
<1> DEFINE id == r.id
           n == Len(proposals) + 1
           prop == [dispute |-> id, heard |-> r.heard,
                    status |-> "InProgress", executed |-> FALSE]
           d == [disputes[id] EXCEPT !.status = "DecisionPending",
                                     !.proposal_id = n,
                                     !.proposal_timestamp = now]
<1>1. /\ UNCHANGED <<now, periods, contract_status, arguments>>
      /\ r.kind = "addProposal"
      /\ proposals' = Append(proposals, prop)
      /\ disputes' = IF disputes[id].status = "New"
                     THEN [disputes EXCEPT
                             ![id].status = "DecisionPending",
                             ![id].proposal_id = n,
                             ![id].proposal_timestamp = now]
                     ELSE disputes
      /\ requests' = Replied(j)
  BY <1>0 DEF on_added_proposal_callback
<1>2. r \in Requests /\ Rests(r) /\ id \in DisputeIds
  BY <1>0, OrderTypes DEF Rests
<1>3. prop \in Proposal
  <2>1. r \in [kind: {"addProposal"}, id: Nat, heard: Nat]
    BY <1>1, <1>2 DEF Requests
  <2> QED BY <2>1 DEF Proposal, Votes
<1>4. /\ proposals' \in Seq(Proposal)
      /\ Len(proposals') = n /\ proposals'[n] = prop
      /\ \A p \in 1 .. Len(proposals) : proposals'[p] = proposals[p]
  <2> HIDE DEF prop
  <2>1. proposals \in Seq(Proposal)
    BY OrderTypes DEF DataOK
  <2> QED BY <1>1, <1>3, <2>1, AppendKeeps
<1>5. /\ n \in Nat /\ n = Len(proposals) + 1 /\ now \in Nat
      /\ Len(proposals) \in Nat
      /\ DOMAIN proposals = 1 .. Len(proposals)
      /\ DOMAIN proposals' = 1 .. n
  BY <1>4, OrderTypes DEF DataOK
<1>6. /\ d \in Dispute
      /\ d.status = "DecisionPending" /\ d.proposal_id = n
      /\ d.proposal_timestamp = now /\ d.claim = disputes[id].claim
  <2>1. disputes[id] \in Dispute
    BY <1>2, OrderTypes
  <2>2. "DecisionPending" \in OpenDispute \cup EndedDispute
    BY DEF OpenDispute
  <2> HIDE DEF id, n
  <2> QED BY <1>5, <2>1, <2>2, Zenon DEF Dispute
<1> HIDE DEF n, d
<1>7. disputes' = IF disputes[id].status = "New"
                  THEN [disputes EXCEPT ![id] = d] ELSE disputes
  <2>1. disputes[id] \in Dispute /\ disputes \in Seq(Dispute)
    BY <1>2, OrderTypes DEF DataOK
  <2> HIDE DEF id
  <2> QED BY <1>1, <2>1, Zenon DEF d
<1>8. /\ disputes' \in Seq(Dispute) /\ Len(disputes') = Len(disputes)
      /\ \A x \in DisputeIds : disputes'[x] =
           IF x = id /\ disputes[id].status = "New" THEN d ELSE disputes[x]
  <2>1. disputes \in Seq(Dispute) /\ id \in 1 .. Len(disputes)
    BY <1>2, OrderTypes DEF DataOK, DisputeIds
  <2> HIDE DEF id
  <2> QED BY <1>6, <1>7, <2>1, ExceptSeq DEF DisputeIds
<1>9. DisputeIds' = DisputeIds
  BY <1>8 DEF DisputeIds
<1>10. DataOK'
  <2>1. \A p \in DOMAIN proposals' : proposals'[p].dispute \in DisputeIds
    <3>1. \A p \in DOMAIN proposals : proposals[p].dispute \in DisputeIds
      BY OrderTypes DEF DataOK
    <3>2. \A p \in 1 .. n : p \in 1 .. Len(proposals) \/ p = n
      BY <1>5
    <3> QED BY <1>2, <1>4, <1>5, <3>1, <3>2
  <2> QED BY <1>1, <1>4, <1>8, <1>9, <2>1, OrderTypes DEF DataOK
<1>11. Keeps
  <2> HIDE DEF id, prop
  <2>1. /\ DOMAIN proposals \subseteq DOMAIN proposals'
        /\ \A p \in DOMAIN proposals : proposals'[p] = proposals[p]
    BY <1>4, <1>5
  <2>2. \A x \in DisputeIds :
          disputes[x].status # "New" => disputes'[x] = disputes[x]
    BY <1>8
  <2>3. now <= now'
    BY <1>1, <1>5
  <2> QED BY <1>9, <2>1, <2>2, <2>3 DEF Keeps
<1>12. Moved
  <2>1. ASSUME disputes[id].status = "New"
        PROVE  Asked(id)' /\ disputes'[id].status = "DecisionPending"
    <3>1. disputes'[id] = d
      BY <1>2, <1>8, <2>1
    <3>2. n \in DOMAIN proposals' /\ proposals'[n].dispute = id
      BY <1>4, <1>5
    <3>3. now \in 0 .. now'
      BY <1>1, <1>5
    <3> HIDE DEF id, prop
    <3> QED BY <1>6, <3>1, <3>2, <3>3 DEF Asked
  <2> HIDE DEF id
  <2> QED BY <1>8, <1>9, <2>1 DEF Moved, Moves, OpenDispute
<1> QED BY <1>1, <1>10, <1>11, <1>12, RestsLeft DEF Orderly

LEMMA ApprovalOrder ==
  ASSUME Order, NEW j \in 1 .. Len(requests), after_claim_approval(j)
  PROVE  Orderly
<1>0. PICK r : r = requests[j]
  OBVIOUS
<1> DEFINE d == Ended(disputes[r.id], r.success, r.canceled)
<1>1. /\ UNCHANGED <<now, periods, contract_status, arguments, proposals>>
      /\ r.kind = "result"
      /\ disputes' = [disputes EXCEPT ![r.id] = d]
      /\ requests' = Replied(j)
  BY <1>0 DEF after_claim_approval
<1>2. r \in Requests /\ Rests(r) /\ r.id \in DisputeIds
  BY <1>0, OrderTypes DEF Rests
<1>3. r.success \in BOOLEAN /\ r.canceled \in BOOLEAN
  BY <1>1, <1>2 DEF Requests
<1>4. disputes[r.id] \in Dispute /\ disputes \in Seq(Dispute)
  BY <1>2, OrderTypes DEF DataOK
<1>5. CASE disputes[r.id].status \notin OpenDispute
  <2>1. d = disputes[r.id]
    BY <1>5 DEF Ended
  <2>2. disputes' = disputes
    BY <1>1, <1>4, <2>1
  <2> QED BY <1>1, <2>2, OrderTypes, RestsLeft, StillOrderly DEF DataOK
<1>6. CASE disputes[r.id].status \in OpenDispute
  <2> DEFINE status == EndStatus(r.success, r.canceled)
  <2>1. d = [disputes[r.id] EXCEPT !.status = status]
    BY <1>6 DEF Ended
  <2>2. /\ status \in EndedDispute /\ status # "New"
        /\ r.canceled => status \in {"CanceledByClaimant",
                                     "CanceledByProjectOwner"}
        /\ ~r.canceled /\ r.success => status = "InFavorOfClaimant"
        /\ ~r.canceled /\ ~r.success => status = "InFavorOfProjectOwner"
    <3>1. CASE r.success /\ r.canceled
      BY <3>1 DEF EndStatus, EndedDispute
    <3>2. CASE r.success /\ ~r.canceled
      BY <3>2 DEF EndStatus, EndedDispute
    <3>3. CASE ~r.success /\ r.canceled
      BY <3>3 DEF EndStatus, EndedDispute
    <3>4. CASE ~r.success /\ ~r.canceled
      BY <3>4 DEF EndStatus, EndedDispute
    <3> QED BY <1>3, <3>1, <3>2, <3>3, <3>4
  <2> HIDE DEF status, d
  <2>3. /\ d \in Dispute /\ d.status = status
        /\ d.claim = disputes[r.id].claim
        /\ d.proposal_id = disputes[r.id].proposal_id
        /\ d.proposal_timestamp = disputes[r.id].proposal_timestamp
    BY <1>4, <2>1, <2>2 DEF Dispute
  <2>4. /\ disputes' \in Seq(Dispute) /\ Len(disputes') = Len(disputes)
        /\ \A x \in DisputeIds :
             disputes'[x] = IF x = r.id THEN d ELSE disputes[x]
    BY <1>1, <1>2, <1>4, <2>3, ExceptSeq DEF DisputeIds
  <2>5. DisputeIds' = DisputeIds
    BY <2>4 DEF DisputeIds
  <2>6. DataOK' /\ now \in Nat
    BY <1>1, <2>4, <2>5, OrderTypes DEF DataOK
  <2>7. Keeps
    BY <1>1, <2>2, <2>3, <2>4, <2>5, <2>6 DEF Keeps
  <2>8. Moves(r.id)
    BY <1>1, <1>2, <1>3, <1>6, <2>2, <2>3, <2>4 DEF Moves, Rests
  <2>9. Moved
    BY <2>4, <2>5, <2>8 DEF Moved, Moves
  <2> QED BY <1>1, <2>6, <2>7, <2>9, RestsLeft DEF Orderly
<1> QED BY <1>5, <1>6

LEMMA VerdictOrder ==
  ASSUME Order, NEW j \in 1 .. Len(requests), after_get_proposal(j)
  PROVE  Orderly
<1> DEFINE r == requests[j]
           verdict == Verdict(disputes[r.id], r.read)
<1>1. /\ UNCHANGED <<now, periods, contract_status, disputes, arguments,
                     proposals>>
      /\ r.kind = "getProposal" /\ r.read # Nil
      /\ disputes[r.id].status = "DecisionPending"
      /\ disputes[r.id].proposal_id = r.proposal
      /\ verdict \in BOOLEAN
      /\ SendResult(Replied(j), r.id, verdict, FALSE)
  BY DEF after_get_proposal
<1>2. r \in Requests /\ Rests(r) /\ r.id \in DisputeIds
  BY OrderTypes DEF Rests
<1>3. r.read \in Votes
  BY <1>1, <1>2 DEF Requests
<1>4. Asked(r.id)
  BY <1>1, <1>2, PendingAsked
<1>5. CASE r.read = "Approved"
  <2>1. verdict = TRUE
    BY <1>5 DEF Verdict
  <2>2. ForClaimant(r.id)
    BY <1>1, <1>2, <1>5 DEF Rests, ForClaimant
  <2> QED BY <1>1, <1>2, <1>4, <2>1, <2>2, RestsLeft, SendResultOrder,
             OnlyRequests
<1>6. CASE r.read = "Rejected"
  <2>1. verdict = FALSE
    BY <1>6 DEF Verdict
  <2>2. ForOwner(r.id)
    BY <1>1, <1>2, <1>6 DEF Rests, ForOwner
  <2> QED BY <1>1, <1>2, <1>4, <2>1, <2>2, RestsLeft, SendResultOrder,
             OnlyRequests
<1>7. CASE r.read = "InProgress" /\ IsDecisionPeriodExpired(disputes[r.id])
  <2>1. verdict = TRUE
    BY <1>7 DEF Verdict
  <2>2. ForClaimant(r.id)
    BY <1>7, OrderTypes DEF IsDecisionPeriodExpired, ForClaimant, TimeIsOver,
       DataOK
  <2> QED BY <1>1, <1>2, <1>4, <2>1, <2>2, RestsLeft, SendResultOrder,
             OnlyRequests
<1>8. CASE r.read = "InProgress" /\ ~IsDecisionPeriodExpired(disputes[r.id])
  <2>1. verdict = Nil
    BY <1>8 DEF Verdict
  <2> QED BY <1>1, <2>1, NilAssumption
<1> QED BY <1>3, <1>5, <1>6, <1>7, <1>8 DEF Votes

----------------------------------------------------------------------------
(* Every step.                                                             *)

LEMMA InitOrder == Init => Order
<1> SUFFICES ASSUME Init PROVE Order
  OBVIOUS
<1>1. /\ disputes = <<>> /\ arguments = <<>> /\ proposals = <<>>
      /\ requests = <<>> /\ now = 0 /\ periods = FirstPeriods
      /\ contract_status = "Genesis"
  BY DEF Init
<1>2. /\ disputes \in Seq(Dispute) /\ arguments \in Seq(Nat)
      /\ proposals \in Seq(Proposal) /\ requests \in Seq(Requests)
      /\ Len(arguments) = Len(disputes) /\ DisputeIds = {}
      /\ DOMAIN proposals = {} /\ 1 .. Len(requests) = {}
  BY <1>1 DEF DisputeIds
<1>3. TypeOK
  BY <1>1, <1>2, DisputesAssumption DEF TypeOK, ContractStatuses
<1>4. Grounded
  BY <1>1, <1>2 DEF Grounded, RestsSeq
<1> QED BY <1>2, <1>3, <1>4 DEF Order, ProposalKnown, VerdictFollowed

LEMMA NextOrderly ==
  ASSUME Order, Next
  PROVE  Orderly
<1>1. CASE OwnNext
  BY <1>1, AdminOrder, PartiesOrder, ExecuteOrder, VoteOrder, ReadOrder,
     AddedOrder, ApprovalOrder, VerdictOrder, DropOrder DEF OwnNext
<1> QED BY <1>1, TickOrder, CreateOrder, OutcomeOrder DEF Next

LEMMA NextOrder == Order /\ [Next]_vars => Order'
<1> SUFFICES ASSUME Order, [Next]_vars PROVE Order'
  OBVIOUS
<1>1. CASE Next
  BY <1>1, NextOrderly, OrderKept
<1>2. CASE UNCHANGED vars
  <2>1. UNCHANGED <<now, periods, contract_status, disputes, arguments,
                    proposals, requests>>
    BY <1>2 DEF vars, dispute_vars
  <2>2. Orderly
    BY <2>1, OnlyRequests, StillRests
  <2> QED BY <2>2, OrderKept
<1> QED BY <1>1, <1>2

LEMMA OrderAlways == Spec => []Order
BY InitOrder, NextOrder, PTL DEF Spec

(* The type of the state of the dispute contract.                          *)
THEOREM DisputesTypeCorrect == Spec => []TypeOK
<1>1. Order => TypeOK
  BY DEF Order
<1> QED BY <1>1, OrderAlways, PTL

(* A dispute that is with the DAO, or was decided by it, names a proposal  *)
(* about it, however often it was escalated before the first answer came   *)
(* (on_added_proposal_callback takes a second one only while it is new).   *)
THEOREM ProposalKnownAlways == Spec => []ProposalKnown
<1>1. Order => ProposalKnown
  BY DEF Order
<1> QED BY <1>1, OrderAlways, PTL

(* What is recorded for a party that the other did not give in to was      *)
(* voted for, or, for the claimant, not voted on in time: a vote that was  *)
(* read before others came, and results that wait for the bounties         *)
(* contract, make no difference, because a vote is final and time goes on. *)
THEOREM VerdictFollowedAlways == Spec => []VerdictFollowed
<1>1. Order => VerdictFollowed
  BY DEF Order
<1> QED BY <1>1, OrderAlways, PTL

(* No step changes the status of a dispute that has ended: of the results  *)
(* that parties, the DAO and finalize_dispute send at the same time, the   *)
(* first that the bounties contract has carried out is the one recorded.   *)
THEOREM EndsOnceAlways == Spec => EndsOnce
<1>1. ASSUME Order, [Next]_vars
      PROVE  [\A id \in DisputeIds :
                disputes[id].status \in EndedDispute =>
                  disputes'[id].status = disputes[id].status]_vars
  <2>1. CASE Next
    <3>1. Moved /\ DisputeIds \subseteq DisputeIds'
      BY <1>1, <2>1, NextOrderly DEF Orderly, Keeps
    <3>2. ASSUME NEW id \in DisputeIds, disputes[id].status \in EndedDispute
          PROVE  disputes'[id].status = disputes[id].status
      <4>1. Moves(id) /\ disputes[id].status \notin OpenDispute
        BY <3>1, <3>2 DEF Moved, EndedDispute, OpenDispute
      <4> QED BY <4>1 DEF Moves
    <3> QED BY <3>2
  <2> QED BY <1>1, <2>1
<1> QED BY <1>1, OrderAlways, PTL DEF Spec, EndsOnce

----------------------------------------------------------------------------
(* What the DAO has heard.  Arguments come while a dispute is new and the  *)
(* time for them is not over; a proposal is written when it is over.  That *)
(* it stays over is up to the administrators.                              *)

(* The time for arguments does not get longer.                             *)
NotLonger == periods'.argument_period <= periods.argument_period

(* A proposal on its way holds all that there is to say.                   *)
Written(r) ==
  r.kind = "addProposal" /\ disputes[r.id].status = "New" =>
    /\ IsArgumentPeriodExpired(disputes[r.id])
    /\ r.heard = arguments[r.id]

Named(id) ==
  /\ disputes[id].status = "New" => disputes[id].proposal_id = Nil
  /\ disputes[id].proposal_id # Nil =>
       /\ disputes[id].proposal_id \in DOMAIN proposals
       /\ proposals[disputes[id].proposal_id].heard = arguments[id]

Counted ==
  /\ \A j \in 1 .. Len(requests) : Written(requests[j])
  /\ \A id \in DisputeIds : Named(id)

(* What a step may do to dispute id: take an argument in time, or name the *)
(* proposal that a promise has brought.                                    *)
Argues(id) ==
  \/ arguments'[id] = arguments[id]
  \/ disputes[id].status = "New" /\ ~IsArgumentPeriodExpired(disputes[id])

Names(id) ==
  \/ disputes'[id].proposal_id = disputes[id].proposal_id
  \/ \E j \in 1 .. Len(requests) :
        /\ requests[j].kind = "addProposal" /\ requests[j].id = id
        /\ disputes[id].status = "New" /\ disputes'[id].status # "New"
        /\ disputes'[id].proposal_id \in DOMAIN proposals'
        /\ proposals'[disputes'[id].proposal_id].heard = requests[j].heard

Hears ==
  /\ \A id \in DisputeIds :
       /\ disputes'[id].status = "New" => disputes[id].status = "New"
       /\ disputes'[id].start_time = disputes[id].start_time
       /\ Argues(id) /\ Names(id)
  /\ \A id \in DisputeIds' \ DisputeIds : disputes'[id].proposal_id = Nil
  /\ \A p \in DOMAIN proposals : proposals'[p].heard = proposals[p].heard

(* No promise to add a proposal is sent but a good one.                    *)
Adds ==
  \A j \in 1 .. Len(requests') :
     \/ requests'[j].kind # "addProposal"
     \/ \E m \in 1 .. Len(requests) : requests'[j] = requests[m]
     \/ requests'[j].id \in DisputeIds /\ Written(requests'[j])

LEMMA CountedKept ==
  ASSUME Order, Orderly, NotLonger, Counted, Hears, Adds
  PROVE  Counted'
<1>1. /\ DataOK /\ DataOK' /\ Keeps
      /\ \A id \in DisputeIds : disputes[id] \in Dispute
      /\ \A j \in 1 .. Len(requests) : Rests(requests[j])
  BY OrderTypes DEF Orderly
<1>2. /\ now \in Nat /\ now' \in Nat /\ now <= now'
      /\ periods.argument_period \in Nat /\ periods'.argument_period \in Nat
  BY <1>1, DisputesAssumption DEF DataOK, Keeps, PeriodConfig
<1>3. ASSUME NEW id \in DisputeIds, IsArgumentPeriodExpired(disputes[id])
      PROVE  IsArgumentPeriodExpired(disputes[id])'
  <2>1. /\ disputes[id].start_time \in Nat
        /\ disputes'[id].start_time = disputes[id].start_time
    BY <1>1 DEF Dispute, Hears
  <2> QED BY <1>2, <1>3, <2>1 DEF IsArgumentPeriodExpired, NotLonger
<1>4. ASSUME NEW r, r.id \in DisputeIds, Written(r)
      PROVE  Written(r)'
  <2> SUFFICES ASSUME r.kind = "addProposal", disputes'[r.id].status = "New"
               PROVE  /\ IsArgumentPeriodExpired(disputes[r.id])'
                      /\ r.heard = arguments'[r.id]
    BY DEF Written
  <2>1. disputes[r.id].status = "New" /\ Argues(r.id)
    BY <1>4 DEF Hears
  <2> QED BY <1>3, <1>4, <2>1 DEF Written, Argues
<1>5. ASSUME NEW j \in 1 .. Len(requests')
      PROVE  Written(requests[j])'
  <2>1. CASE requests'[j].kind # "addProposal"
    BY <2>1 DEF Written
  <2>2. PICK r : r = requests'[j]
    OBVIOUS
  <2>3. CASE r.id \in DisputeIds /\ Written(r)
    <3>1. Written(r)'
      BY <1>4, <2>3
    <3> QED BY <2>2, <3>1 DEF Written
  <2>4. ASSUME NEW m \in 1 .. Len(requests), r = requests[m]
        PROVE  r.id \in DisputeIds /\ Written(r)
    BY <1>1, <2>4 DEF Counted, Rests
  <2> QED BY <2>1, <2>2, <2>3, <2>4 DEF Adds
<1>6. ASSUME NEW id \in DisputeIds'
      PROVE  Named(id)'
  <2>1. CASE id \notin DisputeIds
    BY <1>6, <2>1 DEF Hears, Named
  <2>2. CASE id \in DisputeIds
    <3>1. /\ Named(id) /\ Argues(id) /\ Names(id)
          /\ disputes'[id].status = "New" => disputes[id].status = "New"
      BY <2>2 DEF Counted, Hears
    <3>2. CASE disputes'[id].proposal_id = disputes[id].proposal_id
      <4>1. disputes[id].proposal_id # Nil => arguments'[id] = arguments[id]
        BY <3>1 DEF Named, Argues
      <4>2. DOMAIN proposals \subseteq DOMAIN proposals'
        BY <1>1 DEF Keeps
      <4> QED BY <3>1, <3>2, <4>1, <4>2 DEF Named, Hears
    <3>3. ASSUME NEW j \in 1 .. Len(requests),
                 requests[j].kind = "addProposal", requests[j].id = id,
                 disputes[id].status = "New", disputes'[id].status # "New",
                 disputes'[id].proposal_id \in DOMAIN proposals',
                 proposals'[disputes'[id].proposal_id].heard =
                   requests[j].heard
          PROVE  Named(id)'
      <4>1. Written(requests[j])
        BY DEF Counted
      <4>2. arguments'[id] = requests[j].heard
        BY <3>1, <3>3, <4>1 DEF Written, Argues
      <4> QED BY <3>3, <4>2 DEF Named
    <3> QED BY <3>1, <3>2, <3>3 DEF Names
  <2> QED BY <2>1, <2>2
<1> QED BY <1>5, <1>6 DEF Counted

(* The promises that a step leaves.                                        *)
LEMMA AddsSent ==
  ASSUME NEW S, NEW q \in Seq(S), NEW r \in S, SendRequest(q, r),
         \A j \in 1 .. Len(q) :
            \E m \in 1 .. Len(requests) : q[j] = requests[m],
         \/ r.kind # "addProposal"
         \/ r.id \in DisputeIds /\ Written(r)
  PROVE  Adds
<1>1. requests' = Append(q, r)
  BY DEF SendRequest
<1>2. /\ Len(requests') = Len(q) + 1 /\ requests'[Len(q) + 1] = r
      /\ \A j \in 1 .. Len(q) : requests'[j] = q[j]
  BY <1>1, AppendKeeps
<1>3. ASSUME NEW j \in 1 .. Len(requests')
      PROVE  j \in 1 .. Len(q) \/ j = Len(q) + 1
  <2>1. Len(q) \in Nat
    OBVIOUS
  <2> QED BY <1>2, <2>1
<1> QED BY <1>2, <1>3, Zenon DEF Adds

LEMMA AddsStill ==
  ASSUME UNCHANGED requests
  PROVE  Adds
BY DEF Adds

LEMMA RepliedFrom ==
  ASSUME Order, NEW j \in 1 .. Len(requests)
  PROVE  /\ Replied(j) \in Seq(Requests)
         /\ \A i \in 1 .. Len(Replied(j)) :
              \E m \in 1 .. Len(requests) : Replied(j)[i] = requests[m]
<1>1. requests \in Seq(Requests)
  BY DEF Order, Grounded, RestsSeq
<1>2. Replied(j) \in Seq(Requests)
  BY <1>1, RemoveAtKeeps DEF Replied
<1>3. \A i \in 1 .. Len(Replied(j)) :
        \E m \in 1 .. Len(requests) : Replied(j)[i] = requests[m]
  BY <1>1, RemoveAtFrom DEF Replied
<1> QED BY <1>2, <1>3

LEMMA AddsLeft ==
  ASSUME Order, NEW j \in 1 .. Len(requests), requests' = Replied(j)
  PROVE  Adds
BY RepliedFrom DEF Adds

LEMMA AddsResult ==
  ASSUME Order, NEW q \in Seq(Requests), NEW id \in DisputeIds,
         NEW success \in BOOLEAN, NEW canceled \in BOOLEAN,
         \A j \in 1 .. Len(q) :
            \E m \in 1 .. Len(requests) : q[j] = requests[m],
         SendResult(q, id, success, canceled)
  PROVE  Adds
<1> DEFINE r == [kind |-> "result", id |-> id, success |-> success,
                 canceled |-> canceled, stage |-> "sent"]
<1>1. id \in Nat
  BY OrderTypes DEF DisputeIds
<1>2. r \in Requests /\ r.kind # "addProposal"
  BY <1>1 DEF Requests, Stages
<1>3. SendRequest(q, r)
  BY DEF SendResult
<1> HIDE DEF r
<1> QED BY <1>2, <1>3, AddsSent

(* Nothing is said and nothing is named.                                   *)
LEMMA HearsStill ==
  ASSUME Order, UNCHANGED <<disputes, arguments, proposals>>
  PROVE  Hears
BY DEF Hears, Argues, Names, DisputeIds

LEMMA PartiesHear ==
  ASSUME Order, NEW id \in DisputeIds,
         \/ \E sender \in Accounts : \/ provide_arguments(id, sender)
                                     \/ cancel_dispute(id, sender)
         \/ escalation(id)
         \/ finalize_dispute(id)
  PROVE  Hears /\ Adds
<1>0. /\ requests \in Seq(Requests) /\ id \in Nat
      /\ \A j \in 1 .. Len(requests) :
           \E m \in 1 .. Len(requests) : requests[j] = requests[m]
  BY OrderTypes DEF Order, TypeOK, DisputeIds
<1>1. ASSUME NEW sender \in Accounts, provide_arguments(id, sender)
      PROVE  Hears /\ Adds
  <2>1. /\ UNCHANGED <<disputes, proposals, requests>>
        /\ arguments' = [arguments EXCEPT ![id] = @ + 1]
        /\ disputes[id].status = "New"
        /\ ~IsArgumentPeriodExpired(disputes[id])
    BY <1>1 DEF provide_arguments
  <2>2. arguments \in Seq(Nat)
    BY OrderTypes DEF DataOK
  <2>3. \A x \in DisputeIds : Argues(x) /\ Names(x)
    BY <2>1, <2>2 DEF Argues, Names
  <2> QED BY <2>1, <2>3, AddsStill DEF Hears, DisputeIds
<1>2. ASSUME NEW sender \in Accounts, cancel_dispute(id, sender)
      PROVE  Hears /\ Adds
  <2> DEFINE success == Side(disputes[id], sender) = "ProjectOwner"
  <2>1. /\ UNCHANGED <<disputes, arguments, proposals>>
        /\ success \in BOOLEAN /\ SendResult(requests, id, success, TRUE)
    BY <1>2 DEF cancel_dispute
  <2> HIDE DEF success
  <2> QED BY <1>0, <2>1, AddsResult, HearsStill
<1>3. CASE escalation(id)
  <2> DEFINE r == [kind |-> "addProposal", id |-> id, heard |-> arguments[id]]
  <2>1. /\ UNCHANGED <<disputes, arguments, proposals>>
        /\ SendRequest(requests, r)
        /\ IsArgumentPeriodExpired(disputes[id])
    BY <1>3 DEF escalation
  <2>2. r \in Requests
    <3>1. arguments \in Seq(Nat) /\ id \in 1 .. Len(arguments)
      BY OrderTypes DEF DataOK, DisputeIds
    <3>2. arguments[id] \in Nat
      BY <3>1
    <3> QED BY <1>0, <3>2 DEF Requests
  <2>3. r.id \in DisputeIds /\ Written(r)
    BY <2>1 DEF Written
  <2> HIDE DEF r
  <2> QED BY <1>0, <2>1, <2>2, <2>3, AddsSent, HearsStill
<1>4. CASE finalize_dispute(id)
  <2> DEFINE r == [kind |-> "getProposal", id |-> id,
                   proposal |-> disputes[id].proposal_id, read |-> Nil]
  <2>1. /\ UNCHANGED <<disputes, arguments, proposals>>
        /\ SendRequest(requests, r) /\ disputes[id].status = "DecisionPending"
    BY <1>4 DEF finalize_dispute
  <2>2. Asked(id)
    BY <2>1, PendingAsked
  <2>3. disputes[id].proposal_id \in Nat
    BY <2>2, OrderTypes DEF Asked
  <2>4. r \in Requests /\ r.kind # "addProposal"
    BY <1>0, <2>3 DEF Requests
  <2> HIDE DEF r
  <2> QED BY <1>0, <2>1, <2>4, AddsSent, HearsStill
<1> QED BY <1>1, <1>2, <1>3, <1>4

LEMMA CreateHears ==
  ASSUME Order, NEW k \in Claims, NEW delegate \in Accounts,
         create_dispute(k, delegate)
  PROVE  Hears /\ Adds
<1> DEFINE d == NewDispute(k, delegate)
<1>1. /\ UNCHANGED <<now, periods, contract_status, proposals, requests>>
      /\ disputes' = Append(disputes, d) /\ arguments' = Append(arguments, 0)
  BY DEF create_dispute
<1>2. d \in Dispute /\ d.proposal_id = Nil
  BY OrderTypes DEF NewDispute, Dispute, DataOK, OpenDispute
<1> HIDE DEF d
<1>3. /\ Len(disputes') = Len(disputes) + 1
      /\ disputes'[Len(disputes) + 1] = d
      /\ \A id \in 1 .. Len(disputes) : disputes'[id] = disputes[id]
      /\ \A id \in 1 .. Len(arguments) : arguments'[id] = arguments[id]
      /\ Len(arguments) = Len(disputes)
  BY <1>1, <1>2, OrderTypes, AppendKeeps DEF DataOK
<1>4. /\ \A id \in DisputeIds' \ DisputeIds : disputes'[id] = d
      /\ \A id \in DisputeIds :
           disputes'[id] = disputes[id] /\ arguments'[id] = arguments[id]
  BY <1>3, OrderTypes DEF DisputeIds
<1> QED BY <1>1, <1>2, <1>4, AddsStill DEF Hears, Argues, Names

LEMMA ProposalsHear ==
  ASSUME Order, NEW p \in 1 .. Len(proposals),
         \/ result_of_dispute(p)
         \/ \E status \in {"Approved", "Rejected"} : Vote(p, status)
  PROVE  Hears /\ Adds
<1>1. CASE result_of_dispute(p)
  <2> DEFINE id == proposals[p].dispute
  <2>1. /\ UNCHANGED <<disputes, arguments>>
        /\ proposals' = [proposals EXCEPT ![p].executed = TRUE]
        /\ SendResult(requests, id, TRUE, FALSE)
    BY <1>1 DEF result_of_dispute
  <2>2. /\ id \in DisputeIds /\ requests \in Seq(Requests)
        /\ \A j \in 1 .. Len(requests) :
             \E m \in 1 .. Len(requests) : requests[j] = requests[m]
    BY OrderTypes DEF DataOK, Order, TypeOK
  <2>3. \A x \in DOMAIN proposals : proposals'[x].heard = proposals[x].heard
    BY <2>1, OrderTypes DEF Proposal
  <2>4. Hears
    BY <2>1, <2>3 DEF Hears, Argues, Names, DisputeIds
  <2> HIDE DEF id
  <2> QED BY <2>1, <2>2, <2>4, AddsResult
<1>2. ASSUME NEW status \in {"Approved", "Rejected"}, Vote(p, status)
      PROVE  Hears /\ Adds
  <2>1. /\ UNCHANGED <<disputes, arguments, requests>>
        /\ proposals' = [proposals EXCEPT ![p].status = status]
    BY <1>2 DEF Vote
  <2>2. \A x \in DOMAIN proposals : proposals'[x].heard = proposals[x].heard
    BY <2>1, OrderTypes DEF Proposal
  <2> QED BY <2>1, <2>2, AddsStill DEF Hears, Argues, Names, DisputeIds
<1> QED BY <1>1, <1>2

LEMMA AnswersHear ==
  ASSUME Order, NEW j \in 1 .. Len(requests),
         \/ ReadProposal(j) \/ DropRequest(j)
         \/ after_claim_approval(j) \/ after_get_proposal(j)
         \/ \E stage \in Stages : Outcome(j, stage)
  PROVE  Hears /\ Adds
<1>0. requests \in Seq(Requests) /\ Rests(requests[j])
      /\ requests[j] \in Requests
  BY OrderTypes DEF Order, TypeOK
<1>1. ASSUME UNCHANGED <<disputes, arguments, proposals>>,
             requests[j].kind # "addProposal", DOMAIN requests' = DOMAIN requests,
             requests'[j].kind = requests[j].kind,
             \A m \in 1 .. Len(requests) \ {j} : requests'[m] = requests[m]
      PROVE  Hears /\ Adds
  <2>1. Len(requests') = Len(requests)
    BY <1>0, <1>1
  <2> QED BY <1>1, <2>1, HearsStill DEF Adds
<1>2. CASE ReadProposal(j)
  <2>1. /\ UNCHANGED <<disputes, arguments, proposals>>
        /\ requests[j].kind = "getProposal"
        /\ requests' = [requests EXCEPT
             ![j].read = proposals[requests[j].proposal].status]
    BY <1>2 DEF ReadProposal
  <2>2. requests' = [requests EXCEPT ![j] = [requests[j] EXCEPT
                       !.read = proposals[requests[j].proposal].status]]
    BY <2>1
  <2>3. [requests[j] EXCEPT
           !.read = proposals[requests[j].proposal].status].kind =
          requests[j].kind
    BY <1>0, <2>1 DEF Requests
  <2> QED BY <1>0, <1>1, <2>1, <2>2, <2>3
<1>3. ASSUME NEW stage \in Stages, Outcome(j, stage)
      PROVE  Hears /\ Adds
  <2>1. /\ UNCHANGED <<disputes, arguments, proposals>>
        /\ requests[j].kind = "result"
        /\ requests' = [requests EXCEPT ![j] = [requests[j] EXCEPT
                                                  !.stage = stage]]
    BY <1>3 DEF Outcome
  <2>2. [requests[j] EXCEPT !.stage = stage].kind = requests[j].kind
    BY <1>0, <2>1 DEF Requests
  <2> QED BY <1>0, <1>1, <2>1, <2>2
<1>4. CASE DropRequest(j)
  BY <1>4, AddsLeft, HearsStill DEF DropRequest
<1>5. CASE after_claim_approval(j)
  <2> DEFINE r == requests[j]
             d == Ended(disputes[r.id], r.success, r.canceled)
  <2>1. /\ UNCHANGED <<arguments, proposals>>
        /\ r.kind = "result"
        /\ disputes' = [disputes EXCEPT ![r.id] = d]
        /\ requests' = Replied(j)
    BY <1>5 DEF after_claim_approval
  <2>2. r.id \in DisputeIds /\ disputes[r.id] \in Dispute
        /\ r.success \in BOOLEAN /\ r.canceled \in BOOLEAN
    BY <1>0, <2>1, OrderTypes DEF Rests, Requests
  <2>3. /\ d.start_time = disputes[r.id].start_time
        /\ d.proposal_id = disputes[r.id].proposal_id
        /\ d.status = "New" => disputes[r.id].status = "New"
    BY <2>2 DEF Ended, EndStatus, Dispute, OpenDispute
  <2> HIDE DEF d
  <2>4. /\ DisputeIds' = DisputeIds
        /\ \A x \in DisputeIds :
             disputes'[x] = IF x = r.id THEN d ELSE disputes[x]
    BY <2>1, OrderTypes DEF DataOK, DisputeIds
  <2> QED BY <2>1, <2>3, <2>4, AddsLeft DEF Hears, Argues, Names
<1>6. CASE after_get_proposal(j)
  <2> DEFINE r == requests[j]
             verdict == Verdict(disputes[r.id], r.read)
  <2>1. /\ UNCHANGED <<disputes, arguments, proposals>>
        /\ verdict \in BOOLEAN /\ SendResult(Replied(j), r.id, verdict, FALSE)
    BY <1>6 DEF after_get_proposal
  <2>2. r.id \in DisputeIds
    BY <1>0 DEF Rests
  <2> HIDE DEF verdict
  <2> QED BY <2>1, <2>2, RepliedFrom, AddsResult, HearsStill
<1> QED BY <1>2, <1>3, <1>4, <1>5, <1>6

LEMMA AddedHears ==
  ASSUME Order, NEW j \in 1 .. Len(requests), on_added_proposal_callback(j)
  PROVE  Hears /\ Adds
<1>0. PICK r : r = requests[j]
  OBVIOUS
<1> DEFINE n == Len(proposals) + 1
           prop == [dispute |-> r.id, heard |-> r.heard,
                    status |-> "InProgress", executed |-> FALSE]
<1>1. /\ UNCHANGED arguments
      /\ r.kind = "addProposal"
      /\ proposals' = Append(proposals, prop)
      /\ disputes' = IF disputes[r.id].status = "New"
                     THEN [disputes EXCEPT
                             ![r.id].status = "DecisionPending",
                             ![r.id].proposal_id = n,
                             ![r.id].proposal_timestamp = now]
                     ELSE disputes
      /\ requests' = Replied(j)
  BY <1>0 DEF on_added_proposal_callback
<1>2. r \in Requests /\ r.id \in DisputeIds
  BY <1>0, OrderTypes DEF Rests
<1>3. /\ Len(proposals') = n /\ proposals'[n] = prop /\ n \in DOMAIN proposals'
      /\ \A p \in DOMAIN proposals : proposals'[p] = proposals[p]
  <2>1. r \in [kind: {"addProposal"}, id: Nat, heard: Nat]
    BY <1>1, <1>2 DEF Requests
  <2>2. prop \in Proposal /\ proposals \in Seq(Proposal)
    BY <2>1, OrderTypes DEF Proposal, Votes, DataOK
  <2> HIDE DEF prop
  <2>3. /\ Append(proposals, prop) \in Seq(Proposal)
        /\ Len(Append(proposals, prop)) = n
        /\ Append(proposals, prop)[n] = prop
        /\ \A p \in 1 .. Len(proposals) :
             Append(proposals, prop)[p] = proposals[p]
    BY <2>2, AppendKeeps
  <2> QED BY <1>1, <2>2, <2>3
<1>4. prop.heard = r.heard
  OBVIOUS
<1> HIDE DEF prop, n
<1>5. disputes \in Seq(Dispute) /\ \A x \in DisputeIds : disputes[x] \in Dispute
  BY OrderTypes DEF DataOK
<1>6. CASE disputes[r.id].status # "New"
  <2>1. UNCHANGED disputes
    BY <1>1, <1>6
  <2> QED BY <1>1, <1>3, <2>1, AddsLeft DEF Hears, Argues, Names, DisputeIds
<1>7. CASE disputes[r.id].status = "New"
  <2>1. disputes' = [disputes EXCEPT ![r.id] =
                       [disputes[r.id] EXCEPT !.status = "DecisionPending",
                                              !.proposal_id = n,
                                              !.proposal_timestamp = now]]
    BY <1>1, <1>2, <1>5, <1>7, Zenon
  <2>2. /\ [disputes[r.id] EXCEPT !.status = "DecisionPending",
                                  !.proposal_id = n,
                                  !.proposal_timestamp = now].status # "New"
        /\ [disputes[r.id] EXCEPT !.status = "DecisionPending",
                                  !.proposal_id = n,
                                  !.proposal_timestamp = now].proposal_id = n
        /\ [disputes[r.id] EXCEPT !.status = "DecisionPending",
                                  !.proposal_id = n,
                                  !.proposal_timestamp = now].start_time =
             disputes[r.id].start_time
    BY <1>2, <1>5 DEF Dispute
  <2>3. /\ DisputeIds' = DisputeIds
        /\ \A x \in DisputeIds \ {r.id} : disputes'[x] = disputes[x]
        /\ disputes'[r.id].status # "New" /\ disputes'[r.id].proposal_id = n
        /\ disputes'[r.id].start_time = disputes[r.id].start_time
    BY <1>2, <1>5, <2>1, <2>2 DEF DisputeIds
  <2>4. Names(r.id)
    <3>1. /\ requests[j].kind = "addProposal" /\ requests[j].id = r.id
          /\ proposals'[n].heard = requests[j].heard
      <4>1. proposals'[n].heard = prop.heard
        BY <1>3, Zenon
      <4> QED BY <1>0, <1>1, <1>4, <4>1, Zenon
    <3> QED BY <1>3, <1>7, <2>3, <3>1, Zenon DEF Names
  <2>5. ASSUME NEW id \in DisputeIds
        PROVE  /\ disputes'[id].status = "New" => disputes[id].status = "New"
               /\ disputes'[id].start_time = disputes[id].start_time
               /\ Argues(id) /\ Names(id)
    <3>1. Argues(id)
      BY <1>1 DEF Argues
    <3>2. CASE id = r.id
      BY <1>7, <2>3, <2>4, <3>1, <3>2, Zenon
    <3>3. CASE id # r.id
      <4>1. disputes'[id] = disputes[id]
        BY <2>3, <3>3
      <4> QED BY <3>1, <4>1 DEF Names
    <3> QED BY <3>2, <3>3
  <2>6. \A p \in DOMAIN proposals : proposals'[p].heard = proposals[p].heard
    BY <1>3, Zenon
  <2>7. Adds
    BY <1>1, AddsLeft
  <2> QED BY <2>3, <2>5, <2>6, <2>7 DEF Hears
<1> QED BY <1>6, <1>7

LEMMA NextHears ==
  ASSUME Order, Next
  PROVE  Hears /\ Adds
<1>1. CASE OwnNext
  <2>1. CASE change_config \/ \E status \in Statuses : set_status(status)
    BY <2>1, HearsStill, AddsStill DEF change_config, set_status
  <2> QED BY <1>1, <2>1, PartiesHear, ProposalsHear, AnswersHear, AddedHears
          DEF OwnNext
<1>2. CASE Tick
  BY <1>2, HearsStill, AddsStill DEF Tick, dispute_vars
<1> QED BY <1>1, <1>2, CreateHears, AnswersHear DEF Next

(* As long as no administrator lengthens the time for arguments, the DAO   *)
(* votes on all that the parties have brought: escalation writes the       *)
(* proposal when nobody may speak any more, and of several proposals that  *)
(* are on their way at the same time each says the same.                   *)
THEOREM AllHeardUnlessLonger ==
  Spec /\ [][NotLonger]_vars => []AllHeard
<1>1. Init => Counted
  <2> SUFFICES ASSUME Init PROVE Counted
    OBVIOUS
  <2>1. 1 .. Len(requests) = {} /\ DisputeIds = {}
    BY DEF Init, DisputeIds
  <2> QED BY <2>1 DEF Counted
<1>2. Order /\ Counted /\ [Next]_vars /\ [NotLonger]_vars => Counted'
  <2> SUFFICES ASSUME Order, Counted, [Next]_vars, [NotLonger]_vars
               PROVE  Counted'
    OBVIOUS
  <2>1. CASE UNCHANGED vars
    BY <2>1 DEF vars, dispute_vars, Counted, Written, Named, DisputeIds,
       IsArgumentPeriodExpired
  <2>2. CASE Next /\ NotLonger
    BY <2>2, NextHears, NextOrderly, CountedKept
  <2> QED BY <2>1, <2>2
<1>3. Counted => AllHeard
  BY DEF Counted, Named, AllHeard
<1> QED BY <1>1, <1>2, <1>3, OrderAlways, PTL DEF Spec
=============================================================================
