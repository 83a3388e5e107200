# Heroes contracts: a TLA+ verification project

The repository is a bounty marketplace on NEAR: an owner deposits a reward and
describes some work, claimants claim it and lock a bond, somebody judges the
result, and the contract pays. The contracts call each other, a token contract
and DAOs through promises, so most operations happen in two or more receipts
with other calls in between. That, and four ways of sharing a bounty among
claimants, is what the modules here are about.

Paths below are relative to `src/`.

- [1. The system](#1-the-system)
- [2. Modules](#2-modules)
- [3. How the model corresponds to the code](#3-how-the-model-corresponds-to-the-code)
- [4. Runs](#4-runs)
- [5. Properties](#5-properties)
- [6. Fairness](#6-fairness)
- [7. Proofs](#7-proofs)
- [8. Where code and documentation disagree](#8-where-code-and-documentation-disagree)
- [9. Promised only without overtaking, and other observations](#9-promised-only-without-overtaking-and-other-observations)
- [10. Not modelled](#10-not-modelled)
- [11. Plan](#11-plan)

## 1. The system

| Component | Source | State | Operations |
|---|---|---|---|
| Bounties contract | `bounties/src` | bounties, claims, configuration, fee accounts, bond accounts, whitelists, token list | the owner's, the claimants', the reviewers' and the recipient's calls, `ft_on_transfer`, eleven callbacks |
| Dispute contract | `disputes/src` | disputes with a status, the dispute DAO's proposal, arguments | `create_dispute`, `provide_arguments`, `cancel_dispute`, `escalation`, `result_of_dispute`, `finalize_dispute`, three callbacks, administration |
| KYC whitelist | `kyc-whitelist/src` | providers, service profiles, whitelist entries by account | `is_whitelisted`, `add_account`, `remove_account`, administration of providers and services |
| Reputation | `reputation/src` | counters per claimant and owner | `emit`, administration |
| Token contract | external (NEP-141) | balances | `ft_transfer_call` in, `ft_transfer` out |
| Validators DAO, dispute DAO | external (Sputnik) | proposals and votes | `add_proposal`, `get_proposal`, the function calls a proposal that is approved makes |
| Migration | `*/src/upgrade.rs`, `migration/` | - | conversion of stored records between releases |

How they interact:

- A deposit arrives as `ft_on_transfer` with the terms of a bounty as message
  (`receiver.rs`); a bounty that is paid for outside the contract comes by
  `bounty_create`.
- Payments leave as `ft_transfer` with a callback that records them:
  `after_ft_transfer` (reward), `after_bounty_withdraw` (a subtask's share),
  `after_refund_bounty_amount` (cancellation), `after_fees_payout` (fees).
- The KYC whitelist is asked before a claim is made, before a claimant is
  approved, or when the work is done, and answers to
  `after_check_if_whitelisted`.
- The validators DAO is sent a proposal (`after_add_proposal`,
  `on_added_proposal_callback`) and is later asked for the result of the vote
  (`after_check_approve_claimant_proposal`,
  `after_check_bounty_payout_proposal`); a proposal that is approved may also
  call the contract itself, as the DAO's account.
- A rejected claimant has a dispute created (`after_create_dispute`). In the
  dispute contract both parties argue, one gives in, or anybody escalates to
  the dispute DAO. The end arrives as the dispute contract's call
  `dispute_result`, whose outcome comes back to `after_claim_approval`, or as
  the answer to `get_dispute` that `bounty_finalize` asks for
  (`after_get_dispute`).
- The reputation contract is only sent events.

What is hard:

- *Check, call, act.* `internal_bounty_payout`, `bounty_cancel`, `withdraw`,
  `open_dispute`, the withdrawals of fees, `cancel_dispute`, `escalation` and
  `finalize_dispute` check the state, send a promise and record nothing: the
  callback acts on whatever the state is then. A second approval, a rejection,
  a claim, an expiry or a second result may come in between.
- *Two records of one fact.* A bounty's status, participants, occupied slots
  and slots are stored next to the statuses of its claims; about eight handlers
  move both, each with a branch per mode (one claimant, contest, equal slots,
  different subtasks), and none reads them back. A dispute is recorded in two
  contracts.
- *One account moves another's claim.* The claimant who completes the minimum
  starts the work of all who wait.
- *Stale answers.* A KYC answer, a vote or the status of a dispute is read in
  one receipt and used in a later one.
- *Division.* Rewards, fees and penalties are divided by slots, prizes,
  subtask percentages; the last one takes what is left.
- *Shared pools.* Fees are locked per token and DAO, not per bounty, and tokens
  are held in one account.
- *Abandoned claims.* Every claim must have a call that closes it, whatever
  happened to its bounty or its dispute, without its claimant.

`PROJECT.json` lists these hazards at their lines with the properties that
would notice.

What makes each component correct:

- *Bounties:* at most one worker on a bounty for one; counters and slots agree
  with the claims; claims follow the documented life cycle; each bond is
  settled exactly once; a claim is approved only when it has been paid; tokens
  held cover rewards and fees; claimants who work do not lose time or their
  place on a whitelist to an update; abandoned and beaten claims can be closed.
- *Disputes:* a dispute ends, once, as the vote or the clock or the party that
  gave in says, on all the arguments; and its result reaches the claim it was
  opened for.
- *KYC whitelist:* a record is kept once, so that what is withdrawn is gone;
  whoever works where a check is asked for was whitelisted when asked.
- *Reputation:* what the counters show of a claimant is possible.

## 2. Modules

| Module | What it is |
|---|---|
| `BountyTypes` | the data: terms, bounties, claims, and the pure predicates on them (`types.rs`) |
| `Bounties` | the bounties contract: state, an action per call and per callback, `Spec` |
| `BountiesSafety` | its properties, the fair specification `FairSpec`, and `OneAtATime` |
| `MCBounties` | terms offered, configurations and bounds for TLC |
| `Hiring` | what a bounty for one claimant promises, in five actions: an abstract specification |
| `BountyHiring` | the refinement mapping from `Bounties` to `Hiring` |
| `Disputes` | the dispute contract and its DAO: state, an action per call and per callback |
| `DisputesSafety` | its properties and its fairness |
| `BountiesDisputes` | the two contracts composed by their promises, with the properties of the pair |
| `KycWhitelist` | the KYC whitelist contract |
| `Reputation` | the reputation contract |
| `Platform` | the bounties contract composed with these two |
| `MCHiring`, `MCDispute`, `MCDisputes`, `MCPlatform` | the instances of the above for TLC |
| `BountiesProofs` | `TypeOK` of `Bounties`, what no step may do to a bounty, `OneWorker` and `ClaimedWhenActive` |
| `ClaimsProofs` | counters, slots, payments, times and locked bonds agree with the claims, in all four modes; what no step may do to a claim |
| `EscrowProofs` | the tokens held cover what is owed, and the locked fees what is to be unlocked |
| `HiringProofs` | `Bounties` implements `Hiring` |
| `Collections` | lemmas on sequences that are appended to and removed from, and on sums over finite sets |
| `DisputesProofs` | the type, `ProposalKnown`, `VerdictFollowed` and `EndsOnce` of `Disputes` |
| `BountiesDisputesProofs` | the pair implements `Bounties` and `Disputes`; disputed claims and their disputes |
| `PlatformProofs` | `Platform` implements `Bounties`; `KycRecordedOnce`; `WorkersCleared` |

`BountiesDisputes` and `Platform` extend `BountiesSafety` and take the other
contracts in by `INSTANCE`, with the clock shared. No RECURSIVE operator is
used: sums are folds (`MapThenSumSet`), so that every module can be proved
about.

An operator `X_slip` is a plausible slip in the code that `X` models (a dropped
check, a counter that is not moved). No specification uses it; it stands next
to `X` to try, by substitution, whether the properties notice.

## 3. How the model corresponds to the code

### The bounties contract

**State.** `bounties`, `claims` and `config` are the contract's collections.
Claims are indexed by bounty, account and number (`internal_find_claim`; the
number exists when `allow_creating_many_claims` is set). `bonds` is
`locked_amount`, `unlocked_amount` and, to compare them with, the claimants'
NEAR: `near` is what was attached and is neither sent back nor out with a
proposal, `proposals` is what is out with proposals. `internal_add_proposal`
attaches the `add_proposal_bond` of the bounty's terms (`proposal_bond`) to each
proposal and takes it from the contract's own balance, so `Propose` moves that
amount from `near` to `proposals`. NEAR of the contract's own is not counted:
`near` may fall below the bonds, and below zero (section 9). `fees` is
`FeeStats` of the platform and of one DAO. `held`, `paid` and `refunded` are the
token contract's side: what it holds for the contract and what it has sent.
`now` is the block time. `calls` is the sequence of promises whose callback has
not run.

A bounty has one record with the runtime data of all four modes; in the code a
`multitasking` variant carries those of its own mode. `Absent` stands for a
bounty or claim that is not stored.

**Steps.** A call or a callback is one action: receipts run atomically, and a
panic undoes what the receipt did. A direct call that panics changes nothing
and is no step; the conditions it would panic on are the guards of the action.
A callback that panics, or is told of a failure, consumes the promise and
changes nothing else (`Drop`), except that a token transfer has happened by
then: the handlers of transfers move the tokens first and complete the rest
only when the code would not panic (`MayComplete`, `CommissionRefundable`).

A token transfer and its callback are one step. The token contract keeps
nothing that this contract reads, so no third call can tell the moment of the
transfer from the moment of the callback; what matters is the time between the
promise and its callback, and any calls may come there. Any promise may be
answered, in any order.

**Environment.** In `Bounties`, DAO votes, KYC answers and dispute results are
chosen freely at each answer, and `dispute_result` may come whenever the code
would accept it. Each handler's access check is a guard on `sender`
(`IsManager`, `IsOwnerOrReviewer`). What a proposal took may come back at any
time (`return_proposal_bond`, external): at once when the DAO did not store the
proposal, or when it ends the vote; it may also never come back, as the DAO keeps
the bond of a proposal that is removed.

**Owners' choices.** `Offers` is the set of terms owners use. `bounty_update`
changes one field in a call. `delayed` (`kyc_postponed`) is offered only where
KYC is checked at approval, as elsewhere it has no effect. Owners name a slot
only in the modes that have slots. The branch of
`internal_get_bounty_amount_to_return` for a contest in `AwaitingClaims` has no
counterpart: nothing gives a contest that status.

**Numbers.** Token amounts are natural numbers, percentages are out of 100000
as in the code, divisions round down. A u128 that would underflow is a panic:
it is a guard (`Returnable`, `LockedCovers`, `PartialAmount(..) \in Nat`), or in
a callback the branch that changes nothing. Counters that the code keeps in
u16 and changes without a check are integers here, so that a wrong decrement
shows as a wrong number.

**Bounds.** `MaxTime` ends time, `MaxCalls` the number of promises out at once,
`MaxNear` the claimants' NEAR (which bounds repeated claims) and what is out
with proposals, `MaxClaims` the number of claims of an account on a bounty,
`MaxSlots` the places. These are guards of `Tick`, `Send`, `bounty_claim`,
`Propose` and `NextKey`; nothing else is bounded.

### The dispute contract

`disputes` and `arguments` are the contract's collections by index (only how
many arguments there are matters), `periods` its `Config`, `contract_status`
its `ContractStatus`, which starts as `Genesis`: no call works before an
administrator sets it. `requests` is the sequence of promises that are out, and
`proposals` the dispute DAO's list (external). Calls are guarded by
`assert_live`, callbacks are not.

A promise to the bounties contract (`internal_send_result_of_dispute`) has a
`stage`: sent, then carried out with success or failure, or *paying* while the
bounties contract itself waits for the transfer of a reward, because
`dispute_result` returns that promise. `Outcome` moves the stage and is chosen
freely in `Disputes`. A question to the DAO is `sent` with `read = Nil`;
`ReadProposal` reads the vote at that moment, and `after_get_proposal` uses it
later. A proposal that is approved calls `result_of_dispute` once, whether it is
the one the dispute names or another one. The DAO's statuses other than
`Approved` and `Rejected` are one: `after_get_proposal` treats them alike.

Bounds: `MaxDisputes`, `MaxArguments`, `MaxProposals`, `MaxRequests`, `MaxTime`.

### Both contracts

`replies` runs parallel to `calls` and says how far each promise of the
bounties contract to the dispute contract has come: nothing yet, a dispute was
created with this index, its status was read, or the promise continues a result
that the dispute contract waits for. `dispute_ids` is `BountyClaim.dispute_id`.
A promise takes three steps in three contracts' time: it leaves
(`open_dispute`), is carried out (`CreateDispute` joins `create_dispute` to the
promise), and is answered (`DisputeCreated` joins `after_create_dispute` to the
reply, or panics and leaves the dispute that was opened). A result goes the
other way: `DeliverResult` joins `Outcome` to `dispute_result`, `ResultPaid`
joins `after_ft_transfer` to the result that set the transfer off. A transfer
that fails is a success to the dispute contract, as `after_ft_transfer` returns
`false` and does not panic.

### KYC and reputation

`KycWhitelist` has the configuration as sequences (the code searches for the
first match) and the whitelist as a sequence of entries for each account. A
verification type with its level is one value. The methods that look up by name
or by account take the index found. `MaxChanges` bounds the changes.
`ReadWhitelist` evaluates `is_whitelisted` in one step, `KycAnswer` uses the
reply in another, or loses it. `cleared` is a history variable: for which
bounty and account the answer was ever yes.

`Reputation` has `emit` with all its metrics. What a step of the bounties
contract sends (`internal_update_statistic`) is derived from what the step does
to bounties and claims (`Emitted`), since each handler that sends an event
makes the one change that the event is about. Events are a bag: they arrive in
any order, and a call of `emit` fails only where its checks do. Either contract
may be missing (`Deployments`), as their addresses are optional in the code.

## 4. Runs

| Run | Instance | Specification | States | What it asks |
|---|---|---|---|---|
| `single` | `MCHiring` | `FairSpec` | 241 000 | a bounty for one, two claimants, disputes, two promises out; implements `Hiring`; liveness |
| `places` | `MCBounties` | `Spec` | 1 015 000 | two equal slots that start together (work done at once, or with a deadline and paid outside); contests of two prizes (started at once, or by the second participant who joins within a period) and of one (started by hand, judged after the due date) |
| `tasks` | `MCBounties` | `Spec` | 741 000 | two subtasks, several claims per account, a bond that changes price |
| `services` | `MCBounties` | `Spec` | 2 097 000 | DAO bounties (for one, with a bond for each proposal, and of two subtasks) and KYC at each of its three places |
| `terms` | `MCBounties` | `Spec` | 95 000 | owners who update, and payment outside the contract |
| `escrow` | `MCBounties` | `OneAtATime` | 1 044 000 | two bounties of any two modes on one token account |
| `dispute` | `MCDispute` | `FairSpec` | 129 000 | one dispute, two proposals, periods that an administrator changes, any answers of the bounties contract; liveness |
| `disputes` | `MCDisputes` | `FairJointSpec` | 291 000 | both contracts: two disputes opened on one claim, lost promises, failed transfers; implements each of the two; liveness |
| `platform` | `MCPlatform` | `PlatformSpec` | 683 000 | KYC at three places while profiles, providers and entries change; statistics that arrive in any order |
| `cancel`, `prizes`, `bond` | `MCBounties` | `Spec` | - | counterexamples, section 8 |

Each passing run takes one to three minutes with two workers.

Why the bounds are enough. Two claimants are what every race on a bounty needs:
the one who is judged and the one who comes in between. Two slots, prizes or
subtasks make a first and a last, which the code treats differently. A deposit
of 21 with a fee of 10 % leaves a fee of 2 and a reward of 19, which two slots
do not share evenly; a penalty of half the fee is 1. Two promises out at once
give a payout that is overtaken by another payout, a refund by a claim, a KYC
answer by another claimant's. Time up to 2 lets a deadline, a claim window or a
dispute period pass between any two steps; where no property depends on time
passing, `MaxTime` is 0 and a deadline of 0 or 1 is merely in the future. Two
bounties are needed only for shared accounts (`escrow`, `prizes`).

In `dispute`, two promises and two proposals give contradicting results, a
second escalation and a vote that is stale when it is used; three ticks let an
argument period and the longer of two decision periods pass. The administrator
sets `Live` and leaves it: calls under `ReadOnly` are refused by one check, and
the proofs cover it. In `disputes`, the dispute contract has one promise out at
a time, since its own races are those of `dispute`; what is new is two disputes
on one claim, and their answers. The bounty is a simple one for one claimant,
without fees, whose work is done when it is claimed. In `platform` one claimant
suffices, as nothing relates two accounts; a profile can change its name,
account and activation, be removed and be no longer the default. The DAO's
bounties are left to `services`, disputes to `disputes`.

Claimants are symmetric in the runs that say so; runs with liveness have no
symmetry. Deadlock is not checked: the contracts may well come to rest (time
has run out, every bounty is over).

## 5. Properties

*Type.* `TypeOK`: checked in `escrow`, proved for all constants.

*One worker* (`single`, `services`). `OneWorker`: a bounty without
multitasking never has two active claims; `internal_find_active_claim` takes
the first it meets. `ClaimedWhenActive`: its status says `Claimed` exactly when
a claim is active. `BountyIsHiring`: such a bounty implements `Hiring`: nobody
is hired before the work of the one before has ended, and it is paid for only
out of somebody's work. All three are proved for all constants.

*Counters and slots.* `OccupiedSlotsAgree`, `PauseAgrees`,
`ParticipantsAgree`, `StartKnown` (`places`), `SlotsHeld` (`tasks`,
`services`), `AcceptedTogether` (`tasks`): the bounty's record of its claims is
what the claims say, in each of the three modes with several claimants.
A `ManyClaimed` contest may have no active claim after a prize was paid;
README.md:485 suggests otherwise ("Active claims exist"), so `PauseAgrees`
speaks of slots only.

*Bonds.* `BondsLocked` (`single`, `tasks`): what is locked is the sum of the
bonds of the claims that are not over, so no path settles a bond twice or
forgets it. `BondsBacked` (`services`): the NEAR of every bond that may have to be
returned is in the contract or out with proposals to a validators DAO. What is in
the contract alone does not cover the bonds of a DAO bounty (section 9), and with
a changing price both together do not (section 8). Where no DAO is used nothing
is out, and the property speaks of the contract alone.

*Payment.* `ApprovedIsPaid` (`places`): an approved claim was paid at
least its share. `EscrowCovers`, `FeesCover` (`escrow`): tokens held cover what
is owed, locked fees cover what is yet to be unlocked. `ConfirmedFirst`,
`PaymentHasClaim` (`terms`): payment outside the contract is confirmed before
the work is approved, and the note of it does not outlive the claim.

*Updates.* `HiredOnWhitelist` (`terms`): a bounty for the whitelist alone, whose
claims are made in the call itself, has no worker who is not on it. Where they
are made in the callback of the KYC contract or of the DAO it is not so: while
the answer is out the claimant may be taken off the whitelist, the claim is then
made without the check of `bounty_claim`, and the owner may hire the claimant by
hand.
`TimeNotTaken` (`terms`): no update and no restart makes a claim overdue at a
time at which it was not.

*Steps.* `ClaimLifecycle` (`single`, `services`): the claim statuses of the
README as a graph. `OverIsOver` (`single`): a bounty that was paid in full
stays completed. Its exception, a refund, is the race of section 9.

*Disputes* (`dispute`). `EndsOnce`: of several results that are out together
only the first counts. `ProposalKnown`: a dispute with the DAO names a stored
proposal about it. `VerdictFollowed`: what is recorded was voted for, or, for
the claimant, was not voted on in time. `AllHeard`: the DAO votes on all
arguments. It holds as long as the argument period is not made longer while a
proposal is on its way: then the dispute takes another argument that the
proposal does not carry. The periods of the run differ in the decision period.

*Both contracts* (`disputes`). `BountiesImplemented`, `DisputesImplemented`: the
pair is a bounties contract and a dispute contract, so that whatever holds of
either, with the other answering freely, holds here. `DisputedHasDispute`: a
disputed claim names a dispute about that claim. `LossSettled`: a dispute that
is recorded as lost has settled its claim.

*KYC and reputation* (`platform`). `WorkersCleared`: work on a bounty with a
check is done by accounts that the KYC contract was asked about and said yes,
at the place where the terms put the check; where it is put off, no later than
the work counts as done, in a contest as well. `KycRecordedOnce`: services, names
and checks of an account are recorded once; the configuration that `new` is
given is not checked and is assumed to be so. `EndsWithinHires`: with what is
still on its way, the statistics never show more ends of a claimant's work than
starts.

*Liveness.* `OverdueEnds`, `LosersReleased` (`single`), `DisputeEnds`
(`dispute`), `DisputeLeft` (`disputes`), section 6.

## 6. Fairness

*Bounties.* `FairSpec` adds weak fairness of `bounty_finalize(k)` for each claim
and nothing else. README.md:224 says of `bounty_finalize`: "Available to any
account interested in continuing work with the bounty", and the code checks no
caller. An interested account exists for each claim it applies to: the claimant
gets the bond back, the owner the bounty. No fairness is assumed for answers,
for time, for the DAO or for any other call. `OverdueEnds` needs that
`bounty_finalize` never panics on an overdue claim, whatever the bounty went
through. `LosersReleased` needs a branch for every status a claim may be left in
when somebody else's claim was paid.

*Disputes.* Time passes. Anybody may call `escalation` and `finalize_dispute`,
and the claimant wants to; that a caller comes back while the call is possible
again and again is strong fairness, because the bound on the promises that are
out may refuse a call for a while (the code has no such bound) and because a
promise may be lost and the call repeated. The DAO answers `get_proposal` and
stores a proposal if it is asked again and again; the bounties contract settles
the claim if told again and again; every promise is answered, if only by a
failure. Nobody has to vote, argue or give in: `DisputeEnds` says the dispute
ends nevertheless, once the periods of any configuration have passed, while the
contract is live.

*Both.* The same for `bounty_finalize`, which asks for the dispute, for its
answer and for the transfer of a reward. Nothing is assumed about the dispute
contract: `DisputeLeft` starts where the dispute has ended, and says that the
claim is then settled although the message about it was lost, was taken for a
success, or came before the claim knew of the dispute. It excepts a claim whose
reward was sent once without being recorded: the contract may not have the
tokens to send it again.

## 7. Proofs

All theorems hold for every value of the constants that satisfies the
assumptions of the modules: `TypesAssumption`, `NilAssumption`,
`OffersAssumption` and `BountiesAssumption` (claimants are accounts, the absent
value is neither a claim's key nor a number, bounty indices and bounds are
natural numbers, terms and configurations have their types), `IdAssumption` (the bounty that is
looked at is one), `DisputesAssumption`, `DaoAssumption` and `PeriodsAssumption`
(parties are accounts, configurations and statuses have their types),
`ProfilesAssumption` (the first configuration of the KYC contract names each
service once) and `RepliesAssumption` (no answer is not an answer). The `Max...`
bounds are arbitrary.

| Module | Theorem | Says |
|---|---|---|
| `BountiesProofs` | `TypeCorrect` | `Spec => []TypeOK` |
| | `ShapeAlways` | `Spec => []Shape`, the inductive invariant |
| | `BountiesKept` | `Spec => [][BountiesMove]_vars`: no step takes a bounty away or changes its mode or its number of slots |
| | `OneWorkerAlways` | `Spec => []OneWorker` |
| | `ClaimedWhenActiveAlways` | `Spec => []ClaimedWhenActive` |
| `ClaimsProofs` | `OccupiedSlotsAgreeAlways`, `PauseAgreesAlways` | bounties of equal slots |
| | `ParticipantsAgreeAlways`, `StartKnownAlways` | contests |
| | `SlotsHeldAlways`, `AcceptedTogetherAlways` | bounties of several tasks |
| | `ConfirmedFirstAlways`, `PaymentHasClaimAlways` | payment outside the contract |
| | `ClaimLifecycleAlways`, `OverIsOverAlways`, `TimeNotTakenAlways` | the action properties of section 5 |
| | `BondsLockedAlways` | the locked bonds are those of the claims that are not over |
| | `BondsBackedUnlessRaised` | the NEAR of every bond that may be returned is in the contract or out with proposals, as long as the price of a bond is not raised over a promise that will lock one |
| | `ApprovedIsPaidAlways` | an approved claim has been paid its reward |
| | `HiredOnWhitelistAlways` | who works for a bounty of the whitelist is on it |
| `EscrowProofs` | `EscrowCoversInTurn` | for finitely many bounties, `OneAtATime => []EscrowCovers` |
| | `FeesCoverInTurn` | for finitely many bounties, `OneAtATime /\ []PenaltiesFit => []FeesCover` |
| `HiringProofs` | `BountiesAreHirings` | `Spec => BountyIsHiring` |
| `DisputesProofs` | `DisputesTypeCorrect`, `ProposalKnownAlways`, `VerdictFollowedAlways`, `EndsOnceAlways` | the safety of the dispute contract |
| | `AllHeardUnlessLonger` | the DAO votes on all arguments, as long as the time for them is not lengthened |
| `BountiesDisputesProofs` | `PairIsBounties`, `PairIsDisputes` | `JointSpec` implements `Spec` and the dispute contract's |
| | `PairOneWorker` | `JointSpec => []OneWorker` |
| | `DisputedHasDisputeAlways`, `LossSettledAlways` | what neither contract promises alone |
| `PlatformProofs` | `PlatformIsBounties`, `PlatformOneWorker` | `PlatformSpec` implements `Spec` |
| | `KycRecordedOnceAlways` | `PlatformSpec => []KycRecordedOnce` |
| | `WorkersClearedAlways` | `PlatformSpec => []WorkersCleared` |
| | `EndsWithinHiresAlways` | `PlatformSpec => []EndsWithinHires` |

### The bounties contract

`TypeOK` says more than that records have their fields. The fee accounts and
the tokens held are in `Nat`, as the u128 of the code: no interleaving of
payouts, refunds and withdrawals takes one below zero, because each handler
repeats the assertion that its promise was sent with. Slots are places, winners
are claims, every promise carries what its callback reads.

`TypeOK` is not inductive. `bounty_done`, `confirm_payment`, `withdraw` and the
start of a bounty of several subtasks take the slot out of the claim record and
use it as an index: a claim without a slot would put a non-slot into
`completed`. `SlotsNamed` says that a claim on such a bounty names one of its
slots. That depends on the mode and number of slots never changing, and on no
claim being made for a bounty before the bounty is: `Unborn`. A claim may be
made two receipts after `bounty_claim`, so both have to survive the answers of
the KYC contract and of the DAO. `Shape == TypeOK /\ Unborn /\ SlotsNamed`.

The argument: `Later(b)` is what a step may make of bounty `b` (same mode, same
slots, never gone) and `Held(k)` what it may store as claim `k`. A lemma per
pure operator shows that its result is in one of them (`ReopenedLater`,
`PaidBountyLater`, `BountyOnApprovalLater`, `ClaimOnApprovalHeld`); a lemma per
internal function lifts that to the step (`...Moves`); `ShapeStep` shows that
steps within `Later` and `Held` keep `Shape`; a lemma per action supplies its
premises (`...Shape`); `NextShape` collects them.

*One worker.* `OneWorker` is not inductive either. A payout, a vote or a
dispute result is applied to the claim that the promise carried, and the bounty
named next to it is what is completed. If the two did not belong together, the
worker of one bounty would be closed and another bounty opened. `Addressed` says
that they do, of every promise that is out, and that only bounties of several
claimants are paid without a claim. This needs that a bounty keeps its mode
while the promise is out (`BountiesMove`). `Alone` says, of each bounty for one,
that at most one claim is active, that there is one if it is `Claimed` and none
if it is `New` or `Completed`, and that no claim `Competes`: such a claim would
be closed as if it were at work by `bounty_finalize`. `Work` is the three
together with `Shape`.

What an action may do to a bounty for one is put in three forms: `Quiet`
(nobody hired, nobody's work ended), `Ends(k)` (the one active claim is closed,
the bounty is open or done) and `Hires(k)` (an open bounty becomes `Claimed`).
`LoneKept` shows that each keeps `Alone`; a lemma per internal function and per
action (`...Steps`) shows that it is one of the three and that the promises it
sends are sound; `NextWork` collects them. `Cancellation` is `Quiet` although
a claimant may have been hired while the refund was out (section 8): then a
cancelled bounty has an active claim, still only one.

*Counters, slots and payments* (`ClaimsProofs`). Twenty-one calls and eleven
callbacks, four modes: an invariant proved action by action and mode by mode
would be proved over a hundred times. The proof goes through two abstractions.

The first is `Event`: every step does to bounties and claims one of sixteen
things, which are the internal functions of the contract with the conditions
under which the calls and callbacks reach them (`Admits`: a claimant is
approved; `Resets`: work is given up or is overdue; `Pays`, `Withdraws`,
`Leaves`, `Rejects` ...). `Events` shows it of all actions. For a callback the
conditions must come from its promise: `Fit` says what stays true of a promise
while it is out. A `withdraw` promise was sent when the tasks were accepted, and
`Finished` says that nothing takes them back (`FinishedStays`); a payout promise
is never for several tasks nor for a postpaid bounty; a vote on a claimant or a
KYC answer at approval is about a bounty of the advanced flow. Without `Fit` a
late vote could start work on a bounty that does not have it.

The second is what an event may be to the bounty it happens on: it leaves it
alone (`Spared`), it is `Calm` (the counters, slots and times stay, and no claim
starts or ends), or it `Moves` the bounty. Only movements can break a counter,
and there are nine. For each of them a lemma says what it does to a bounty
(`...Effect`) and to the claims (`MoveClaims`: at most one is closed, or one is
approved and releases those who wait).

`Course` is the inductive invariant: `Work`, `FitSeq(calls)`, and for each
bounty `StatusFits` (statuses that its mode has), `SlotsRun`, `ContestRun`,
`TasksRun` with `TasksPaid`, `PaymentKept`, `SharesWhole`, and for each claim `ClaimFits` and
`PaidFirst`. Two more conjuncts are there for `NextKey`: claim numbers of an
account have no gaps (`Numbered`), and the claims made on a bounty are finitely
many. By them the key that a new claim is stored under is not the key of a claim
that is still running (`FreshOver`): it is the number of claims the account has,
and a pigeonhole shows that this number was not used. What each conjunct adds to
the property it proves:

- `SlotsRun` strengthens `OccupiedSlotsAgree` and `PauseAgrees` by: when a bounty
  is `ManyClaimed` nobody waits for the start. Who comes then starts at once, so
  that the release of those who wait happens once.
- `ContestRun`: the start lies in the past, for `TimeNotTaken`.
- `TasksRun`: a bounty of several tasks that is `Completed`, or has an approved
  claim, is `Finished`. `AcceptedTogether` alone is not inductive: it says nothing of
  the time between the acceptance and the first withdrawal.
- `TasksPaid` and `PaidFirst`: a confirmed slot names a claim that carries the
  same payment; and a claim that was approved without a DAO was paid.
- `PaymentKept`: `payment_at` of a bounty for one is noted only while its claim
  is completed, or its work over; `Reopened` clears it.

`TimeNotTaken` then follows from what may change each of the three numbers that
`is_claim_expired` compares: the claim's deadline (`AtWork`: only
`extend_claim_deadline`, and only to a later one), the bounty's (`UpdateLater`)
and the start of the competition (`StartMoves`).

*Bonds* (`ClaimsProofs`, at its end). Each `Event` says what it does to the sum
of the locked bonds: it keeps it, adds the bond of the claim it makes, or takes
off the bond that the claim it ends came with. `BondsCounted` is inductive under
`Course`: the claims that are not over are finitely many, and what is locked is
the sum of their bonds. One claim at most becomes open or stops being so, and a
claim that stays open keeps its bond. That the claim a new one is stored over is
over (`FreshOver`) is needed here again: otherwise its bond would be forgotten.

What is locked is the price of the moment, and it may be locked in a callback,
two receipts after the NEAR was attached. So `BondsBacked` alone is not
inductive: `Backed` says that what the contract holds and what proposals took,
less what it owes (`Slack`), covers a bond at the price of the moment for each
promise that will lock one (`BondCalls`). Three actions change how many these
are: `bounty_claim` sends one and takes the NEAR for it, and the callbacks of
the KYC contract and of the DAO send it on or use it up. A proposal moves NEAR
between the two parts of `Slack` and leaves their sum (`ProposeSlack`), and so
does its return. That an answered promise leaves the others where they were is a
map of queue positions again. `NotRaised` is what the theorem asks of an
administrator: no price is raised while such a promise is out. The run `bond`
(section 8) shows what happens without it.

The sum of the model is a fold. Folds take an operator as a parameter, and no
theorem can be applied to them, but `MapThenSumSet` unfolds to a function chosen
by its equation on the subsets of a set. `Collections` shows for any finite set
that such a function exists and is the only one (`SummedExists`, `SummedOnce`)
and that any element may be taken out first (`TotalWithout`); instead of
induction, the proofs take a smallest subset for which the claim fails
(`Smallest`) and contradict it. `LockedTotal` says that the two sums are one.

*Rewards* (`ClaimsProofs`, at its end). Nothing is recorded when the contract
sends a reward; the claim becomes approved when the transfer is answered, and by
then the bounty may have been updated, and other claims paid or given up. So what
the promise carries must be right for the bounty as it is at the answer. `Price`
is what a bounty pays for one claim, with the prize or the slot it is for. `Fit`
says of each promise to pay or to withdraw that it carries at least the price.

It carries that much when it is sent (`PaymentPrice`, `PartialPrice`). The last
slot and the last subtask take what is left, and that must not be less than the
part they stand for: parts rounded down never sum to more than the whole
(`PartsFit` in `Collections`, from `Rounded` and `Spread`), where the shares of
the subtasks are the whole (`SharesWhole`: checked when the bounty is created,
and never changed). And the price stays while the promise is out: no step
changes the amount or the shares of a bounty that the contract pays
(`RewardStays`), nor the slot of a claim that awaits a withdrawal.

`Rewarded` is inductive under `Course` and gives `ApprovedIsPaid`: payments are
never taken back (`PaidGrows`), a claim becomes approved only by a step that pays
its price, and what a participant of a contest was paid covers all the prizes he
has won (`PrizesPaid`): a place is given once, and the price of the place is the
share of that place.

*The whitelist* (`ClaimsProofs`, at its end). `Listed` is inductive under
`Course`: on such a bounty nobody waits as `New`, and who is hired is on the
whitelist. `bounty_claim` looks at the whitelist once, and `Makes` carries what
it saw (`Vouched`) to the claim that the call makes. Three things can undo it. An
update may change the whitelist or make the bounty one for the whitelist alone:
`bounty_update` may not leave out one who works (`UpdateListed`). A claim may be
hired later: then it was `New`, and there is none. And a contest may open again
with other terms: then nobody is left in it (`ContestEmptied`, from the number
of participants in `ContestRun`).

*Escrow* (`EscrowProofs`). `EscrowCovers` and `FeesCover` are sums over all
bounties, for the contract that answers each promise before the next call
(`OneAtATime`; section 9 says what happens otherwise). The set of bounties must
be finite, as a sum over an infinite one means nothing; the code numbers them.

`Owed` does not sink by what is paid: of a bounty of several tasks it is the
equal parts still to be withdrawn, while the last to withdraw takes what the
division left over. `Due` counts that as well, and is never less than `Owed`
(`OwedWithin`). `Lowers(b, c, pay, fee, dao)` says that from bounty `b` to `c`
what is due, and the two fees, fall by at least these amounts. For each way of
paying there is a lemma that it does: a slot and the last slot (`SlotPay`,
`LastSlotPay`), a prize, a single reward (`PaidDrops`), a subtask, the
acceptance of all subtasks, a refund. All other movements of a bounty are
`Falls`: it does not come to life, slots and prizes are only taken, nothing is
added to what is due (`DueFalls`).

That needs more of a bounty than `Course` says (`Steady`): nobody works on one
that may be cancelled (`Idle`), a bounty of equal slots that is `New` has none
paid (`Unpaid`), one that is paid outside the contract has no fees (`NoFees`),
and the shares of a contest make up its deposit (`Funded`). It also needs that
what the promise carries is what the contract would compute when the answer
comes: `Exact`, of the one promise that is out (`InTurn`). A payment is taken
off the books only by the callback, which computes the amount anew, whereas the
tokens that left are those in the promise.

`Kept` is the inductive invariant: `Course`, `Steady` for each bounty, `InTurn`,
`Refunds` (nothing was returned for a bounty that is not there), `Reserved` (the
locked fees are part of the fees) and `Covered` (`EscrowCovers` with `Due` in
place of `Owed`). `TurnKinds` finds six kinds of steps under `OneAtATime`, and a
lemma `...Money` treats each: `SpentCovers` and `SparedCovers` carry the change
of one bounty to the sum. `FeesHeld` is carried on top of `Kept`. It needs
`PenaltiesFit`: no penalty is above the fee it is taken from, which
`change_config` does not check (section 9) and the code's defaults satisfy.

The proof found that the `CASE` of `Owed` had two guards that a completed bounty
paid outside the contract satisfied both; TLC takes the first, logic either.
The guards now exclude each other.

*Hiring.* The refinement needs nothing but this: under `Work`, the three forms
are what `Hiring` calls nothing at all or a withdrawal, a release or a payment,
and a hiring. The worker is found by `CHOOSE` among the active claims, of which
`OneWorker` leaves one.

### The dispute contract

`DisputesProofs` has one inductive invariant, `Order`: the type, `ProposalKnown`,
`VerdictFollowed` and `Grounded`. `VerdictFollowed` is not inductive: a result is
recorded when its promise is answered, and nothing in the state of the dispute
says that the promise was right to carry it. `Grounded` says that what a promise
carries rests on what the DAO holds: a result that no party gave in for was
voted for, or the time is over; a vote that was read is the vote of that
proposal. A reason must stay true while the promise is out (`Keeps`). Votes do
not change and time does not come back; but an administrator may lengthen the
decision period, and then the claimant's reason is gone by the configuration of
the moment, which is why `TimeIsOver` speaks of some configuration. `EndsOnce`
follows from `Moved`, what each action may do to a status. `Collections` has the
facts on sequences of promises that are appended to and removed from.

`AllHeard` is about the proposal that the DAO decided, and that was written
receipts before. `Counted` says of every proposal, stored or still on its way,
that it was written when the time for arguments was over, and that it holds as
many arguments as the dispute has. After that time no argument is taken
(`Hears`), and a proposal on its way is one that was sent with all of them or
is stored as it was sent (`Adds`). This holds for several proposals of one
dispute alike. What can make it false is the administrator, who may lengthen the
time for arguments when a proposal has been written: parties then go on arguing,
and the DAO votes on a proposal without these arguments. `NotLonger` excludes just
that. The configurations of `dispute` have equal times for arguments.

### The compositions

That every step of the pair is a step of `Bounties` or leaves it alone, and the
same for `Disputes`, needs the types of the other side: a dispute is opened on
the claim of a promise, and a result is told about the claim of a dispute.
`Pair == Shape /\ DP!Order` carries both invariants through at once. That
`DeliverResult` and `ResultPaid` map to a step on both sides is where the
abstract `Outcome` and the real `dispute_result` meet. `PairOneWorker` is
`OneWorkerAlways` carried over.

*Claims and their disputes.* `DisputedHasDispute` follows from `Linked`: the
dispute a claim knows is about it, and so is the one that an answered promise
brings, which no other promise brings and the claim does not know yet. Only one
step makes a claim disputed (`NoneArgued` of all others, action by action:
`...Tame`), and it takes the dispute from the answer. Promises are told apart by
their place in a sequence, and places shift when one is answered: `Carried` says
that those which have opened a dispute after the step did so before, each at one
place (`CarriedFrom`, from a map of the places).

`LossSettled` is not inductive: the dispute contract records a loss two steps
after the bounties contract has ended the claim, and in between, or after it, an
answer on its way could tie the claim to that dispute. `Settled` takes in the
losses still to be recorded (`Lost`: a result with stage "ok" and no success),
says that no promise brings a lost dispute to a claim with no other dispute, and
that the transfer of a reward is only waited for by a result that grants it. The
step that loses a dispute is `DeliverResult`; there `Linked` is needed: the
claim is disputed and this is its only dispute, so it knows it, and a promise
that brought it would be a second one to do so.

`PlatformIsBounties` needs no invariant: a KYC answer is one of the two that
`Bounties` allows, and statistics change nothing. `KycRecordedOnce` is proved with
`Records`: its conjuncts on the indices of the code's vectors, with their types,
and from what `SelectInSeq` returns (the first match, or 0 if there is none), for
which the library gives no theorem: it is proved here from its definition.

`WorkersCleared` is not inductive: a claim may be made, its claimant hired or
its work counted as done in a later receipt than the one in which the KYC
contract was asked, and what makes that safe is in the promises. `Vetted` is `Course` with three more
conjuncts. `Heard`: a promise that has a yes is about an account that was
whitelisted for this bounty when the contract was asked. `Proposed`: so is a
proposal to a validators DAO to take a claimant, where the check comes first;
the claim is made when the DAO has stored it, and the check is not repeated.
`Passed`: every claim was checked, or its check is still to come; where the
check comes first this holds of all claims that exist, since those of `New`
claims are hired without another one. `CheckedStep` (`ClaimsProofs`) sorts the
events by what they need: a claim is made (`Makes`), a claimant is hired
(`Engages`) or work is handed in (`HandsIn`) only with the check that the terms
put there, and no other event does any of these. That the check at the end is
not lost rests on two more facts: the kind of check of a bounty never changes
(`KycStays`), and `bounty_update` may not take a claimant at work off the
whitelist by which approval was not required (`UpdatePassed`), which would let
`bounty_done` skip the check that was put off. That a claimant whose check is put
off is not done the moment he is hired follows from `StatusFits`: a check at
approval is only found on bounties of the advanced flow.

`EndsWithinHires` counts claims, numbers in the reputation contract and messages
on their way, a bag that may be delivered in any order. `Tally` writes the three
as sums of `Collections`. A step of the bounties contract changes one claim that
matters (`OthersSteady`: all others stay as they are, or go on from waiting to
work), so at most one hiring and one end are told of one claimant
(`ClaimSends`). That an end is told only of a claim that was hired is where the
ways of a claim are needed (`ClaimTurns`, by `NextLife`): from `New` no way leads to
`NotCompleted`, `Expired` or `Approved`, and a claim cancelled from there is not
told of (`IsNew`). A delivery takes a message off the bag and adds to one number
(`DeliverTally`); the order of the deliveries does not matter for the sum.

### What stays with TLC

Liveness and anything with `ENABLED`: the prover does not handle them. So
`OverdueEnds`, `LosersReleased`, `DisputeEnds` and `DisputeLeft` are model-checked
only; every other property of a run that passes is stated by a theorem.
`AllHeard` and `BondsBacked` do not hold under every configuration that an
administrator may set, nor does `FeesCover`; the runs fix one, and the theorems
state the condition. `EscrowCovers` and `FeesCover` are checked and proved under
`OneAtATime` only.

## 8. Where code and documentation disagree

*`cancel`.* README.md:182 says of `bounty_cancel`: "The bounty can be canceled
only if there are no active claims at the time of cancellation." The check is
made when the refund is sent; `internal_bounty_cancellation` does not repeat
it. TLC's trace: a bounty is created and cancelled, a claimant claims and is
approved while the refund is out, the callback cancels. The claimant works on a
cancelled bounty, and may bring it back to `New`, without money, by giving up.

*`prizes`.* README.md:487: "Canceled: The bounty is canceled, and the reward is
not paid." When the participants who are left leave a contest of which one
prize is paid, `internal_reset_bounty_to_initial_state` makes it `New`
(a bounty of equal slots becomes `AwaitingClaims` in that place). Then
`bounty_cancel` returns the full amount. The assertion on locked fees would
stop it, except that fees are locked per token: with a second bounty, or no
fees, it passes.

*`bond`.* `bounties/src/types.rs:2022` calls `BountyClaim.bond` the "Bond that
was at the time of making the claim". With KYC at the time of the claim,
`internal_create_claim` locks the bond configured when the answer arrives, not
the one that was attached. After `change_config` in between, more is locked
than was given.

## 9. Promised only without overtaking, and other observations

`OneAtATime` is the contract with at most one promise out: calls come when none
is. `EscrowCovers` and `FeesCover` hold there and not under `Spec`:

- `bounty_approve` and then `bounty_reject` while the transfer is out: the
  claimant is paid, the callback panics, the bounty still offers the reward.
- `bounty_cancel` twice: the refund is sent twice; the second callback may find
  other bounties' fees locked and go through.
- `withdraw_platform_fee` twice: the second one takes fees that are still
  locked, and where the balance falls below what is locked, later
  withdrawals panic.

What `ClaimLifecycle`, `OverIsOver`, `BondsLocked` and `ApprovedIsPaid` say
holds under all interleavings.

Further facts that the model shows and that no property covers:

- A penalty is taken off the fee account in full while the owner gets the fee
  less the penalty, so the penalty stays in the contract and belongs to no
  account; what a contest's fees leave when divided by its places stays locked.
- `change_config` accepts a penalty above the fee it is taken from. A refund then
  is smaller than the reward and may be nothing: a contest that fell back to
  `New` (`prizes`, section 8) is cancelled at once, and the fees of the prizes
  that were paid are unlocked a second time, out of those of other bounties.
- A KYC answer that denies, or a DAO that does not store a proposal, leaves the
  bond with the contract, neither locked nor withdrawable.
- `internal_add_proposal` pays the `add_proposal_bond`, an amount the bounty's owner
  chooses, from the contract's NEAR. `bounty_claim` accepts the claim's bond and
  nothing more, and `bounty_done` takes no deposit, so claimants' bonds pay for
  proposals until the DAO returns the amount: with no other NEAR in the contract,
  `bonds.near` is less than the bonds that are locked after one proposal, and a
  bond could not be returned then. This holds with a price that never changes;
  `near >= locked_amount + unlocked_amount` fails in `services` in a few steps.
  The model does not stop a proposal or a return for want of NEAR.
- The payout proposal of a DAO bounty of several subtasks is not asked for again
  once one exists, nor when the last subtask is restored by a dispute.
- `open_dispute` called twice opens two disputes. The claim knows the one whose
  answer came first; a result of the other is accepted as well
  (`dispute_result` does not name the dispute). After such a result and a new
  claim of the same account, the late answer to the first can bind the new
  claim to the old dispute.
- `escalation` called twice stores two proposals; an approval of the one that
  the dispute does not name still calls `result_of_dispute` with success.
- A won dispute whose reward could not be transferred is recorded as ended by
  the dispute contract; only `bounty_finalize` asks for it again.
- `update_provider` may give two providers one name; `remove_service_profile`
  leaves the default profile dangling and `is_whitelisted` panics from then on;
  a service cannot take back a verification whose check was set to
  `NewChecksNotAllowed` while it still counts.
- `number_of_successful_bounties` counts each prize of a contest, and never
  counts a bounty of equal slots that was paid in full.

## 10. Not modelled

- Metadata, contacts, tags, experience and their validation; events; views.
- Administration that only narrows who may call: whitelists of administrators
  and owners, the token list, dictionaries, contract addresses, `set_status` of
  the bounties contract.
- `update_validators_dao_params`: one account is the DAO, and the terms it was
  given, the bond of a proposal among them, stay.
- NEAR other than the claimants': the contract's own, which storage and proposals
  draw on as well, and the `add_proposal_bond` of the dispute contract's proposals.
- The validators DAO's own state: what it answers is chosen freely.
- Gas and storage costs, and the token contract's own failures beyond a failed
  transfer.
- Conversion of stored records between releases (`upgrade.rs`, `migration/`):
  runs once, with nothing next to it.
- The test token, build scripts and the integration tests.

## 11. Plan

Done, in this order: `BountyTypes`, `Bounties` and its properties; the proofs of
its type and of `OneWorker`; `Disputes` and its proofs; `BountiesDisputes`, the
two refinements, proved; `KycWhitelist`, `Reputation` and `Platform`; `Hiring`
and its refinement, proved; `ClaimsProofs`, with sums in `Collections`; the
links between claims and disputes, proved; the KYC checks, proved; the rewards,
proved; the arguments heard, the NEAR behind the bonds, the whitelist and the
statistics of claimants, proved; the escrow and the fees, proved.

Left, in order of what it would add:

1. What of the escrow survives overtaking: that no interleaving loses more than
   the promises that were out at the same time carry.
2. The validators DAO as an actor, with the proposals it stores: that a bounty
   of several subtasks can always be decided.
