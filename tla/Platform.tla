------------------------------ MODULE Platform ------------------------------
(***************************************************************************)
(* The bounties contract with the KYC whitelist contract, which it asks    *)
(* about claimants, and the reputation contract, which it tells of what    *)
(* becomes of claims and bounties.  Either may be missing.  A question is  *)
(* answered from the whitelist at one moment and the answer used at a      *)
(* later one.  The statistics are sent without waiting for an answer and   *)
(* arrive in any order.  `replies' runs parallel to `calls'.               *)
(***************************************************************************)
EXTENDS BountiesSafety, Bags

CONSTANTS
  Deployments,   \* which of "kyc" and "reputation" there may be
  MaxEvents,     \* bound on the statistics ever sent
  Providers, Profiles, Expiries, MaxChanges,
  FirstProviders, FirstProfiles, FirstDefault

(* The administrator of the KYC contract names each service once, which    *)
(* new() does not check.                                                   *)
ASSUME ProfilesAssumption ==
  /\ FirstProfiles \in Seq({FirstProfiles[i] : i \in DOMAIN FirstProfiles})
  /\ \A i, j \in DOMAIN FirstProfiles :
        \/ FirstProfiles[i].account = FirstProfiles[j].account
        \/ FirstProfiles[i].name = FirstProfiles[j].name
        => i = j

(* No reply yet is not a reply.                                            *)
ASSUME RepliesAssumption == Nil \notin BOOLEAN

VARIABLES
  services,      \* which of the two contracts there are
  replies,       \* what the KYC contract has said to each promise
  events,        \* the statistics that are on their way, a bag
  sent,          \* how many were ever sent, for MaxEvents
  cleared,       \* history: for which bounties accounts were whitelisted
  providers, service_profiles, default_profile, whitelist, changes,
  claimants_entries, bounty_owners_entries

K == INSTANCE KycWhitelist WITH Verifiable <- Claimants
R == INSTANCE Reputation

kyc_vars == <<providers, service_profiles, default_profile, whitelist,
              changes>>
reputation_vars == <<claimants_entries, bounty_owners_entries>>
event_vars == <<events, sent>>
platform_vars == <<vars, services, replies, event_vars, cleared, kyc_vars,
                   reputation_vars>>

PlatformInit ==
  /\ Init
  /\ K!Init
  /\ R!Init
  /\ services \in Deployments
  /\ replies = <<>>
  /\ events = EmptyBag /\ sent = 0
  /\ cleared = {}

----------------------------------------------------------------------------
(* What a step of the bounties contract tells the reputation contract      *)
(* (internal_update_statistic), by what the step does to claim k.          *)

Event(kind, claimant, bounty_owner, disputed) ==
  [kind |-> kind, receiver_id |-> claimant, bounty_owner |-> bounty_owner,
   disputed |-> disputed]

AboutClaim(kind, k) == Event(kind, k[2], bounties[k[1]].terms.owner, FALSE)

CreationEvents(k) ==
  IF claims[k].status \in Over /\ claims'[k].status \notin Over
  THEN {AboutClaim("ClaimCreated", k)} ELSE {}

HiredStates == {"ReadyToStart", "Competes", "CompletedWithDispute"} \cup Active

ApprovalEvents(k) ==
  IF claims[k].status \in Over \cup {"New"} /\ claims'[k].status \in HiredStates
  THEN {AboutClaim("ClaimantApproved", k)} ELSE {}

IsNew_slip(k) == FALSE

(* A claimant who leaves before the work has started is not counted.       *)
IsNew(k) ==
  \/ claims[k].status = "New"
  \/ /\ claims[k].status \in {"Competes", "ReadyToStart"}
     /\ bounties[k[1]].status \in {"New", "Canceled"}

ClosureEvents(k) ==                 \* internal_claim_closure
  LET is == claims'[k].status
      b == bounties[k[1]]
  IN
  CASE claims[k].status \in Over -> {}
    [] claims[k].status \notin Over /\ is = "NotCompleted" ->
         {Event("UnsuccessfulClaim", k[2], b.terms.owner,
                claims[k].status = "Disputed")}
    [] claims[k].status \notin Over /\ is = "Expired" ->
         {Event("ClaimExpired", k[2], Nil, FALSE)}
    [] claims[k].status \notin Over /\ is = "Canceled" /\ ~IsNew(k) ->
         {Event("ClaimCancelled", k[2], Nil, FALSE)}
    [] OTHER -> {}

(* internal_bounty_completion and internal_slot_finalize                   *)
SuccessEvents(k) ==
  LET b == bounties[k[1]] IN
  IF claims[k].status \notin Over /\ claims'[k].status = "Approved"
  THEN {Event(IF b.terms.mode \in {"OneForAll", "DifferentTasks"}
              THEN "SuccessfulClaim" ELSE "SuccessfulBountyAndClaim",
              k[2], b.terms.owner,
              claims[k].status \in {"Disputed", "CompletedWithDispute"})}
  ELSE {}

BountyEvents(id) ==
  LET was == bounties[id]
      is == bounties'[id]
  IN
  CASE was.status = "Absent" /\ is.status # "Absent" ->
         {Event("BountyCreated", Nil, is.terms.owner, FALSE)}
    [] was.status # "Canceled" /\ is.status = "Canceled" ->
         {Event("BountyCancelled", Nil, is.terms.owner, FALSE)}
    [] \/ was.status # "PartiallyCompleted" /\ is.status = "PartiallyCompleted"
       \/ /\ was.terms.mode = "DifferentTasks"
          /\ was.status # "Completed" /\ is.status = "Completed" ->
         {Event("SuccessfulBounty", Nil, is.terms.owner, FALSE)}
    [] OTHER -> {}

Emitted ==
  (UNION {BountyEvents(id) : id \in BountyId})
    \cup (UNION {CreationEvents(k) \cup ApprovalEvents(k) \cup ClosureEvents(k)
                   \cup SuccessEvents(k) : k \in ClaimKey})

Statistics ==
  IF "reputation" \in services
  THEN /\ sent' = sent + Cardinality(Emitted)
       /\ sent' <= MaxEvents
       /\ events' = events (+) SetToBag(Emitted)
  ELSE UNCHANGED event_vars

----------------------------------------------------------------------------
RepliesFrom(q) ==
  replies' = IF Len(calls') > Len(q) THEN Append(q, Nil) ELSE q

Rest == <<services, cleared, kyc_vars, reputation_vars>>

(* A bounty with a KYC check is only taken where there is a KYC contract.  *)
KycDeployed ==
  \A id \in BountyId :
     bounties'[id].status # "Absent" /\ bounties'[id].terms.kyc # "No" =>
       "kyc" \in services

OwnStep ==
  /\ \/ change_config
     \/ \E id \in BountyId : OnBounty(id)
     \/ \E k \in ClaimKey : OnClaim(k)
     \/ withdraw_platform_fee
     \/ withdraw_validators_dao_fee
     \/ withdraw_non_refunded_bonds
  /\ KycDeployed
  /\ Statistics
  /\ RepliesFrom(replies)
  /\ UNCHANGED Rest

OtherAnswer(i) ==
  /\ calls[i].kind # "kyc"
  /\ Answer(i)
  /\ Statistics
  /\ RepliesFrom(RemoveAt(replies, i))
  /\ UNCHANGED Rest

PlatformTick ==
  /\ Tick
  /\ UNCHANGED <<replies, event_vars, Rest>>

KycStep ==
  /\ "kyc" \in services
  /\ K!KycNext
  /\ UNCHANGED <<vars, services, replies, event_vars, cleared,
                 reputation_vars>>

(* The question reaches the KYC whitelist contract.                        *)
ReadWhitelist(i) ==
  LET k == calls[i].claim IN
  /\ calls[i].kind = "kyc" /\ replies[i] = Nil
  /\ K!Answerable
  /\ replies' = [replies EXCEPT ![i] = K!is_whitelisted(k[2])]
  /\ cleared' = IF K!is_whitelisted(k[2])
                THEN cleared \cup {<<k[1], k[2]>>} ELSE cleared
  /\ UNCHANGED <<vars, services, event_vars, kyc_vars, reputation_vars>>

UseReply_slip(i) ==
  /\ replies[i] \in BOOLEAN
  /\ after_check_if_whitelisted(i)

(* after_check_if_whitelisted panics unless the answer is yes.             *)
UseReply(i) ==
  /\ replies[i] = TRUE
  /\ after_check_if_whitelisted(i)

KycAnswer(i) ==
  /\ calls[i].kind = "kyc"
  /\ UseReply(i) \/ Drop(i)
  /\ Statistics
  /\ RepliesFrom(RemoveAt(replies, i))
  /\ UNCHANGED Rest

(* One of the statistics arrives.                                          *)
Deliver(e) ==
  /\ BagIn(e, events)
  /\ R!emit(e)
  /\ events' = events (-) SetToBag({e})
  /\ UNCHANGED <<vars, services, replies, sent, cleared, kyc_vars>>

PlatformNext ==
  \/ PlatformTick
  \/ OwnStep
  \/ KycStep
  \/ \E i \in 1 .. Len(calls) :
        OtherAnswer(i) \/ ReadWhitelist(i) \/ KycAnswer(i)
  \/ \E e \in BagToSet(events) : Deliver(e)

PlatformSpec == PlatformInit /\ [][PlatformNext]_platform_vars

----------------------------------------------------------------------------
(* The claimant is hired and has not handed in his work.                   *)
Unfinished == {"ReadyToStart", "InProgress", "Competes"}

(* Work on a bounty with a KYC check is only done by accounts that the KYC *)
(* contract said yes about when it was asked for this bounty, unless the   *)
(* owner let the claimant skip the check or a validators DAO approved it:  *)
(* before the claim is made, or before the claimant is approved, or, where *)
(* the check is put off, before the work counts as done.                   *)
WorkersCleared ==
  \A k \in ClaimKey :
     LET t == bounties[k[1]].terms
         c == claims[k]
         isCleared == <<k[1], k[2]>> \in cleared
         later == c.kyc_delayed = "BeforeDeadline"
                    \/ ~ApprovalRequired(k[2], t)
     IN
     /\ t.kyc = "WhenCreatingClaim" /\ c.status \in HiredStates => isCleared
     /\ t.kyc = "DuringClaimApproval" /\ c.status \in HiredStates /\ ~t.dao
          => \/ isCleared
             \/ c.kyc_delayed = "AllowedToSkipKyc"
             \/ later /\ c.status \in Unfinished

(* The KYC contract keeps one record of each kind, however its entries are *)
(* changed while questions are on their way.                               *)
KycRecordedOnce == K!RecordedOnce

Told(who, kinds) ==
  BagCardinality([e \in {e \in BagToSet(events) : e.receiver_id = who
                                                   /\ e.kind \in kinds}
                    |-> events[e]])

(* The statistics never show more ends of a claimant's work than starts:   *)
(* each claim that was accepted ends at most once as successful,           *)
(* unsuccessful, overdue or canceled, those that were not accepted never,  *)
(* and a claimant at work has not been counted as finished.                *)
EndsWithinHires ==
  "reputation" \in services =>
    \A who \in Claimants :
       LET m == claimants_entries[who] IN
       m["accepted"] + Told(who, {"ClaimantApproved"}) >=
         m["successful"] + m["unsuccessful"] + m["overdue"] + m["canceled"]
           + Told(who, {"SuccessfulBountyAndClaim", "SuccessfulClaim",
                        "UnsuccessfulClaim", "ClaimExpired",
                        "ClaimCancelled"})
           + Cardinality({k \in ClaimKey :
                            k[2] = who /\ claims[k].status \in HiredStates})

============================================================================
