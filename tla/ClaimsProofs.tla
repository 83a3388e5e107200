---------------------------- MODULE ClaimsProofs ----------------------------
(***************************************************************************)
(* The claims on a bounty, whatever its mode: the counters and the slots   *)
(* of a bounty agree with the statuses of its claims, a payment is never   *)
(* recorded for nobody, and no answer that arrives late moves a claim or a *)
(* bounty along a way it does not have.                                    *)
(*                                                                         *)
(* The proof has three parts.  The first shows that every step is one of   *)
(* the events below: what the internal functions of the contract do to     *)
(* bounties and claims, with the conditions under which the calls and the  *)
(* callbacks reach them.  A callback knows only what its promise carries,  *)
(* so Fit says what stays true of a promise while it is out.  The second   *)
(* shows, for each mode, that every event keeps what Course says of the    *)
(* bounties of that mode.  The third draws the conclusions.  Money comes   *)
(* last: every event that ends a claim frees its bond, and no other, and   *)
(* no claim is approved by an event that pays less than its reward.        *)
(***************************************************************************)
EXTENDS BountiesProofs, Collections

(* The claims that are hired and neither accepted nor given up.            *)
Unsettled == {"ReadyToStart", "InProgress", "Rejected", "Disputed"}

(* The work on the tasks of a bounty is over: all of it was accepted at    *)
(* once, or the bounty was cancelled.                                      *)
Finished(id) ==
  Status(id) \in {"Completed", "Canceled"} /\ ClaimsOf(id, Unsettled) = {}

(* The claims that were ever made on a bounty.                             *)
Made(id) == {k \in ClaimKey : k[1] = id /\ claims[k].status # "Absent"}

----------------------------------------------------------------------------
(* The rewards.                                                            *)

(* What bounty b pays for one claim at least, with the place or the slot   *)
(* it is for: the amount, an equal part of it, a prize or a share.         *)
Price(b, place) ==
  CASE b.terms.mode = "None" -> b.amount
    [] b.terms.mode = "OneForAll" -> b.amount \div b.terms.slots
    [] b.terms.mode = "Contest" -> b.terms.shares[place]
    [] b.terms.mode = "DifferentTasks" -> TaskPart(b, place)

(* The sums of the model are sums as the proofs write them.                *)
LEMMA ShareTotal ==
  ASSUME NEW t
  PROVE  TotalShare(t) = Total(t.shares, 1 .. t.slots)
BY Zenon DEF TotalShare, MapThenSumSet, MapThenFoldSet, Pick, Total, Summed

LEMMA RewardTotal ==
  ASSUME NEW k \in ClaimKey, NEW b \in Bounty
  PROVE  LeastReward(b, k) =
           IF b.terms.mode = "Contest"
           THEN Total(b.terms.shares, Prizes(b, k))
           ELSE Price(b, claims[k].slot)
<1>1. CASE b.terms.mode = "Contest"
  <2>1. PrizeMoney(b, k) = Total(b.terms.shares, Prizes(b, k))
    BY Zenon DEF PrizeMoney, MapThenSumSet, MapThenFoldSet, Pick, Total, Summed
  <2>2. LeastReward(b, k) = PrizeMoney(b, k)
    BY <1>1 DEF LeastReward
  <2> QED BY <1>1, <2>1, <2>2
<1>2. CASE b.terms.mode = "None"
  BY <1>2 DEF LeastReward, Price
<1>3. CASE b.terms.mode = "OneForAll"
  BY <1>3 DEF LeastReward, Price
<1>4. CASE b.terms.mode = "DifferentTasks"
  BY <1>4 DEF LeastReward, Price
<1>5. b.terms.mode \in Modes
  BY DEF Bounty, Terms
<1> QED BY <1>1, <1>2, <1>3, <1>4, <1>5 DEF Modes

(* What is left of an amount when all but one of n equal parts are taken.  *)
LEMMA LastPart ==
  ASSUME NEW a \in Nat, NEW n \in Nat, n > 0
  PROVE  /\ a \div n \in Nat
         /\ a - (a \div n) * (n - 1) \in Nat
         /\ a - (a \div n) * (n - 1) >= a \div n
<1>1. PICK p \in Nat : p = a \div n
  OBVIOUS
<1>2. p * n <= a
  BY <1>1
<1>3. p * (n - 1) = p * n - p /\ p * n \in Nat /\ p * (n - 1) \in Int
  OBVIOUS
<1> QED BY <1>1, <1>2, <1>3

(* internal_get_bounty_amount_for_payment                                  *)
LEMMA PaymentPrice ==
  ASSUME NEW b \in Bounty, ~b.terms.postpaid,
         b.terms.mode # "DifferentTasks",
         NEW place, b.terms.mode = "Contest" => place \in Places,
         NEW p, p = AmountsForPayment(b, place).pay
  PROVE  p \in Nat /\ p >= Price(b, place)
<1>1. /\ b.amount \in Nat /\ b.terms.mode \in Modes
      /\ b.terms.slots \in Nat /\ b.terms.slots > 0
      /\ b.terms.shares \in [Places -> Nat]
  <2>1. b.terms \in Terms /\ b.amount \in Nat
    BY DEF Bounty
  <2> QED BY <2>1, TypesAssumption DEF Terms, Places
<1>2. CASE b.terms.mode = "OneForAll"
  <2>1. PICK a \in Nat, n \in Nat : a = b.amount /\ n = b.terms.slots /\ n > 0
    BY <1>1
  <2>2. p = a - (a \div n) * (n - 1) \/ p = a \div n
    BY <1>2, <2>1 DEF AmountsForPayment
  <2>3. Price(b, place) = a \div n
    BY <1>2, <2>1 DEF Price
  <2>4. PICK q \in Nat : q = a \div n
    BY <2>1
  <2>5. /\ a - (a \div n) * (n - 1) \in Nat
        /\ a - (a \div n) * (n - 1) >= a \div n
    BY <2>1, LastPart
  <2>6. CASE p = a - (a \div n) * (n - 1)
    BY <2>3, <2>5, <2>6
  <2>7. CASE p = a \div n
    BY <2>3, <2>4, <2>7
  <2> QED BY <2>2, <2>6, <2>7
<1>3. CASE b.terms.mode = "Contest"
  <2>1. p = b.terms.shares[place]
    BY <1>3 DEF AmountsForPayment
  <2> QED BY <1>1, <1>3, <2>1 DEF Price
<1>4. CASE b.terms.mode = "None"
  <2>1. p = b.amount
    BY <1>4 DEF AmountsForPayment
  <2> QED BY <1>1, <1>4, <2>1 DEF Price
<1> QED BY <1>1, <1>2, <1>3, <1>4 DEF Modes
(* What the subtasks are paid, as a function for the sums.                 *)
PartOf(b) == [s \in UsedPlaces(b) |-> TaskPart(b, s)]

LEMMA PartsTotal ==
  ASSUME NEW b, NEW R \in SUBSET UsedPlaces(b), IsFiniteSet(R)
  PROVE  TaskParts(b, R) = Total(PartOf(b), R)
<1> DEFINE Sums(g) == g = [T \in SUBSET R |->
                             IF T = {} THEN 0
                             ELSE TaskPart(b, Pick(T)) + g[T \ {Pick(T)}]]
           f == CHOOSE g : Sums(g)
<1>1. TaskParts(b, R) = f[R]
  BY Zenon DEF TaskParts, MapThenSumSet, MapThenFoldSet, Pick
<1>2. ASSUME NEW g
      PROVE  Sums(g) <=> Summed(PartOf(b), g, R)
  <2>1. ASSUME NEW T \in SUBSET R, T # {}
        PROVE  PartOf(b)[Pick(T)] = TaskPart(b, Pick(T))
    BY <2>1, PickIn DEF PartOf
  <2>2. [T \in SUBSET R |->
           IF T = {} THEN 0 ELSE TaskPart(b, Pick(T)) + g[T \ {Pick(T)}]]
        = [T \in SUBSET R |->
             IF T = {} THEN 0 ELSE PartOf(b)[Pick(T)] + g[T \ {Pick(T)}]]
    BY <2>1
  <2> QED BY <2>2 DEF Summed
<1>3. \E g : Sums(g)
  BY <1>2, SummedExists
<1>4. Summed(PartOf(b), f, R)
  <2>1. Sums(f)
    BY <1>3
  <2> QED BY <1>2, <2>1
<1> HIDE DEF f
<1>5. PICK h : /\ Summed(PartOf(b), h, R)
               /\ \A T \in SUBSET R : Total(PartOf(b), T) = h[T]
  BY TotalSummed
<1>6. f[R] = h[R]
  BY <1>4, <1>5, SummedOnce
<1> QED BY <1>1, <1>5, <1>6

LEMMA PartialCases ==
  ASSUME NEW k, NEW slot, NEW b, b = bounties[k[1]]
  PROVE  \/ PartialAmount(k, slot)
            = b.amount - TaskParts(b, {s \in UsedPlaces(b) : b.slots[s] = Nil})
         \/ PartialAmount(k, slot) = TaskPart(b, slot)
BY DEF PartialAmount

LEMMA TaskPrice ==
  ASSUME NEW b, NEW slot, b.terms.mode = "DifferentTasks"
  PROVE  Price(b, slot) = TaskPart(b, slot)
BY DEF Price

LEMMA PartsAre ==
  ASSUME NEW b, NEW s \in UsedPlaces(b)
  PROVE  PartOf(b)[s] = TaskPart(b, s)
BY DEF PartOf

LEMMA PartTypes ==
  ASSUME NEW b \in Bounty
  PROVE  /\ IsFiniteSet(UsedPlaces(b)) /\ b.amount \in Nat
         /\ \A s \in UsedPlaces(b) : b.terms.shares[s] \in Nat
<1>1. /\ b.terms.slots \in Places /\ b.amount \in Nat
      /\ b.terms.shares \in [Places -> Nat]
  BY DEF Bounty, Terms
<1>2. UsedPlaces(b) \subseteq Places /\ b.terms.slots \in Nat
  BY <1>1, TypesAssumption DEF UsedPlaces, Places
<1>3. IsFiniteSet(1 .. b.terms.slots)
  BY <1>2, FS_Interval
<1> QED BY <1>1, <1>2, <1>3 DEF UsedPlaces

LEMMA WholeCancels ==
  ASSUME NEW t \in Nat, NEW a \in Nat, t * Whole <= a * Whole
  PROVE  t <= a
BY DEF Whole

SharesFit(b) == Total(b.terms.shares, 1 .. b.terms.slots) = Whole

(* internal_get_partial_amount: what is left for the last subtask is no    *)
(* less than its part.                                                     *)
LEMMA PartialPrice ==
  ASSUME NEW k, NEW slot, NEW b \in Bounty, b = bounties[k[1]],
         b.terms.mode = "DifferentTasks",
         SharesFit(b), slot \in UsedPlaces(b), b.slots[slot] # Nil,
         NEW p \in Nat, p = PartialAmount(k, slot)
  PROVE  p >= Price(b, slot)
<1> DEFINE V == {s \in UsedPlaces(b) : b.slots[s] = Nil}
           S == V \cup {slot}
           f == PartOf(b)
<1>1. /\ IsFiniteSet(UsedPlaces(b)) /\ b.amount \in Nat
      /\ \A s \in UsedPlaces(b) : b.terms.shares[s] \in Nat
  BY PartTypes
<1>2. /\ S \in SUBSET UsedPlaces(b) /\ V \in SUBSET UsedPlaces(b)
      /\ S \ {slot} = V /\ slot \in S
      /\ IsFiniteSet(S) /\ IsFiniteSet(V)
  <2>1. /\ S \in SUBSET UsedPlaces(b) /\ V \in SUBSET UsedPlaces(b)
        /\ S \ {slot} = V /\ slot \in S
    OBVIOUS
  <2> HIDE DEF S, V
  <2> QED BY <1>1, <2>1, FS_Subset
<1>3. p = b.amount - TaskParts(b, V) \/ p = TaskPart(b, slot)
  BY PartialCases
<1>13. Price(b, slot) = TaskPart(b, slot)
  BY TaskPrice
<1>4. f[slot] = TaskPart(b, slot)
  BY PartsAre
<1>15. \A s \in UsedPlaces(b) : f[s] = TaskPart(b, s)
  BY PartsAre
<1>5. TaskParts(b, V) = Total(f, V)
  BY <1>2, PartsTotal
<1> HIDE DEF S, V, f
<1> DEFINE h == b.terms.shares
           R == UsedPlaces(b)
           a == b.amount
<1>6. IsFiniteSet(R) /\ a \in Nat /\ S \in SUBSET R /\ \A x \in R : h[x] \in Nat
  BY <1>1, <1>2
<1> DEFINE n == Whole
<1>16. n \in Nat /\ n > 0
  BY DEF Whole
<1>17. Total(h, R) = n
  BY Zenon DEF SharesFit, UsedPlaces
<1>18. ASSUME NEW x
       PROVE  TaskPart(b, x) = (a * h[x]) \div n
  BY Zenon DEF TaskPart
<1> HIDE DEF h, a, n, R
<1>19. Parts(f, h, a, n, R)
  <2>1. ASSUME NEW x \in R
        PROVE  h[x] \in Nat /\ f[x] = (a * h[x]) \div n
    <3>1. f[x] = TaskPart(b, x)
      BY <1>15 DEF R
    <3>2. f[x] = (a * h[x]) \div n
      BY Zenon, <3>1, <1>18
    <3>3. h[x] \in Nat
      BY <1>6
    <3> QED BY Zenon, <3>2, <3>3
  <2> QED BY Zenon, <2>1 DEF Parts
<1>7. /\ Total(f, S) \in Nat /\ Total(h, R) \in Nat
      /\ Total(f, S) * n <= a * Total(h, R)
      /\ \A x \in S : f[x] \in Nat
  BY <1>6, <1>16, <1>19, PartsFit
<1>8. Total(f, S) <= a
  <2> DEFINE t == Total(f, S)
  <2>1. t \in Nat /\ t * n <= a * n /\ a \in Nat
    BY <1>6, <1>7, <1>17
  <2> HIDE DEF t
  <2>2. t * Whole <= a * Whole
    BY <2>1 DEF n
  <2>3. t <= a
    BY <2>1, <2>2, WholeCancels
  <2> QED BY <2>3 DEF t
<1>9. \A x \in S : f[x] \in Nat
  BY <1>7
<1>10. Total(f, S) = f[slot] + Total(f, V)
  <2>1. Counts(f, S)
    BY <1>9 DEF Counts
  <2> QED BY <1>2, <2>1, TotalWithout
<1>11. Total(f, V) \in Nat /\ f[slot] \in Nat
  <2>1. \A x \in V : f[x] \in Nat
    BY <1>2, <1>9
  <2> QED BY <1>2, <1>9, <2>1, TotalNat
<1>12. p = a - Total(f, V) \/ p = f[slot]
  BY <1>3, <1>4, <1>5 DEF a
<1>14. Price(b, slot) = f[slot]
  BY <1>13, <1>4
<1> QED
  <2> DEFINE t == Total(f, S)
             v == Total(f, V)
             y == f[slot]
  <2>1. a \in Nat /\ t <= a /\ t = y + v /\ v \in Nat /\ y \in Nat
    BY <1>6, <1>8, <1>10, <1>11
  <2>2. p = a - v \/ p = y
    BY <1>12
  <2> HIDE DEF t, v, y
  <2>3. p >= y
    BY <2>1, <2>2
  <2> QED BY <1>14, <2>3 DEF y

----------------------------------------------------------------------------

(* The transfer to claim k has gone through: it was for the price at least.*)
PaidFor(k, price) ==
  \E x \in Nat : x >= price /\ paid' = [paid EXCEPT ![k] = paid[k] + x]

(* The place a contest pays for is there, and nobody has it yet.           *)
Vacant(b, place) ==
  b.terms.mode = "Contest" => place \in Places /\ b.winners[place] = Nil

----------------------------------------------------------------------------
(* The events.                                                             *)

(* What a step does to the sum of the locked bonds: nothing, or it locks   *)
(* one more, or it returns or withholds that of claim k.                   *)
KeepsBonds == bonds'.locked_amount = bonds.locked_amount
LocksBond(bond) == bonds'.locked_amount = bonds.locked_amount + bond
FreesBond(k) ==
  bonds'.locked_amount = bonds.locked_amount - claims[k].bond

(* A claim gets another status and keeps the rest of its record.           *)
Closes(k, s) == claims' = [claims EXCEPT ![k].status = s]

(* internal_create_bounty                                                  *)
Begins(id) ==
  /\ Status(id) = "Absent" /\ UNCHANGED claims
  /\ \E t \in Offers :
       /\ ValidTerms(t, NewBounty(t, config).amount, now)
       /\ bounties' = [bounties EXCEPT ![id] = NewBounty(t, config)]
       /\ ~t.postpaid => held' = held + t.deposit

(* bounty_update                                                           *)
Changes(id) == \E u \in Updates : bounty_update(id, u)

(* internal_bounty_cancellation: in the call, or later with a refund.      *)
Cancels(id) ==
  /\ Status(id) # "Absent" /\ UNCHANGED claims
  /\ Status(id) \in {"New", "AwaitingClaims"} \/ refunded'[id] # refunded[id]
  /\ bounties' = [bounties EXCEPT ![id].status =
       IF @ = "AwaitingClaims" THEN "PartiallyCompleted" ELSE "Canceled"]

(* internal_bounty_completion of a bounty of several tasks                 *)
Accepts(id) ==
  LET b == bounties[id] IN
  /\ b.terms.mode = "DifferentTasks" /\ b.status = "ManyClaimed"
  /\ AllSlotsComplete(id, Nil)
  /\ b.terms.postpaid /\ ~b.terms.dao => UsedPlaces(b) \subseteq b.confirmed
  /\ bounties' = [bounties EXCEPT ![id].status = "Completed"]
  /\ UNCHANGED claims

(* extend_claim_deadline, mark_as_paid, confirm_payment                    *)
Notes(k) ==
  \/ \E deadline \in Deadlines : extend_claim_deadline(k, deadline)
  \/ \E place \in UsedPlaces(bounties[k[1]]) : mark_as_paid(k, place)
  \/ confirm_payment(k)

(* Claim k is the next of its account, for this slot.                      *)
Fresh(k, slot) == MayCreateClaim(k[1], k[2], slot) /\ k = NextKey(k[1], k[2])

(* Where neither the KYC contract nor the DAO is asked before, claim k is  *)
(* of an account that may claim.                                           *)
Direct(t) == t.kyc # "WhenCreatingClaim" /\ ~t.dao
Vouched(k) ==
  LET t == bounties[k[1]].terms IN Direct(t) => MayClaim(k[2], t)

(* internal_create_claim, where the claimant has to be approved            *)
Applies(k) ==
  /\ UNCHANGED bounties
  /\ \E c \in Claim : /\ c.status = "New" /\ Fresh(k, c.slot)
                      /\ claims' = [claims EXCEPT ![k] = c]
                      /\ LocksBond(c.bond)

(* internal_claimant_approval of a claim that waits for it, or of one that *)
(* needs none                                                              *)
Admits(k) ==
  \E c \in Claim, delayed \in Deferments \cup {Nil} :
     /\ c.status = "New"
     /\ ApproveClaimant(k, c, delayed)
     /\ \/ /\ c = claims[k] /\ MayDecide(k)
           /\ bounties[k[1]].terms.flow = "AdvancedFlow"
           /\ KeepsBonds
        \/ Fresh(k, c.slot) /\ LocksBond(c.bond)

(* internal_claim_done                                                     *)
Finishes(k) == \E proposal \in BOOLEAN : ClaimDone(k, proposal)

(* A claim that was not approved is declined, withdrawn or finalized.      *)
Declines(k) ==
  /\ UNCHANGED bounties /\ claims[k].status = "New"
  /\ \E s \in {"NotHired", "Canceled"} : Closes(k, s)

(* A claim that is not worked on leaves its bounty.                        *)
Leaves(k) ==
  /\ bounties' = [bounties EXCEPT ![k[1]] = Left(bounties[k[1]], k)]
  /\ \/ claims[k].status = "ReadyToStart" /\ Closes(k, "Canceled")
     \/ /\ claims[k].status \in {"Competes", "Completed"}
        /\ bounties[k[1]].terms.mode = "Contest"
        /\ \E s \in {"NotCompleted", "Canceled"} : Closes(k, s)

(* internal_reset_bounty_to_initial_state: work given up or overdue, or    *)
(* rejected for good                                                       *)
Resets(k) ==
  LET b == bounties[k[1]] IN
  /\ bounties' = [bounties EXCEPT ![k[1]] = Reopened(bounties[k[1]], k)]
  /\ \/ /\ claims[k].status \in {"InProgress", "Competes"}
        /\ \E s \in {"Expired", "Canceled"} : Closes(k, s)
     \/ /\ claims[k].status \in {"Completed", "Rejected", "Disputed"}
        /\ b.status \in Running
        /\ claims[k].status = "Completed" /\ b.terms.postpaid /\ ~b.terms.dao
             => ~PaymentMade(b, claims[k])
        /\ Closes(k, "NotCompleted")

(* internal_bounty_completion for one claim                                *)
Pays(k) ==
  LET b == bounties[k[1]] IN
  /\ b.terms.mode # "DifferentTasks" /\ b.status \in Running
  /\ claims[k].status \in {"Completed", "Disputed"}
  /\ b.terms.postpaid /\ ~b.terms.dao => PostpaidReady(k)
  /\ Closes(k, "Approved")
  /\ \E place \in Places \cup {Nil} :
       /\ bounties' = [bounties EXCEPT ![k[1]] = PaidBounty(b, k, place)]
       /\ ~b.terms.postpaid =>
            Vacant(b, place) /\ PaidFor(k, Price(b, place))

(* internal_slot_finalize                                                  *)
Withdraws(k) ==
  LET b == bounties[k[1]] IN
  /\ b.terms.mode = "DifferentTasks" /\ Finished(k[1])
  /\ claims[k].status \in {"Completed", "CompletedWithDispute"}
  /\ b.terms.postpaid => b.status = "Completed"
  /\ bounties' = [bounties EXCEPT ![k[1]] = ResetSlot(b, claims[k].slot)]
  /\ Closes(k, "Approved")
  /\ ~b.terms.postpaid => PaidFor(k, Price(b, claims[k].slot))

(* internal_reject_claim, where a dispute is possible                      *)
Rejects(k) ==
  LET t == bounties[k[1]].terms IN
  /\ UNCHANGED bounties /\ bounties[k[1]].status \in Running
  /\ ~t.postpaid /\ t.mode # "Contest"
  /\ claims[k].status = "Completed"
  /\ claims' = [claims EXCEPT ![k].status = "Rejected",
                              ![k].rejected_at = now]

(* A dispute begins, or is won for one of several tasks.                   *)
Argues(k) ==
  /\ UNCHANGED bounties /\ bounties[k[1]].status \in Running
  /\ \/ claims[k].status = "Rejected" /\ Closes(k, "Disputed")
     \/ /\ claims[k].status = "Disputed"
        /\ bounties[k[1]].terms.mode = "DifferentTasks"
        /\ Closes(k, "CompletedWithDispute")

(* What a step does to one bounty, and what it does to one claim.          *)
BountyEvent(id) ==
  \/ Begins(id) \/ Changes(id) \/ start_competition(id)
  \/ Cancels(id) \/ Accepts(id)

PlainEvent(k) ==
  \/ KeepsBonds /\ (Notes(k) \/ Rejects(k) \/ Argues(k))
  \/ FreesBond(k) /\ (Declines(k) \/ Leaves(k) \/ Resets(k) \/ Pays(k)
                      \/ Withdraws(k))
ClaimEvent(k) ==
  \/ Applies(k) \/ Admits(k) \/ (KeepsBonds /\ Finishes(k))
  \/ PlainEvent(k)

(* A step that no KYC check comes before: no claim is made, is admitted or *)
(* becomes completed.                                                      *)
PlainStep ==
  \/ UNCHANGED bounties /\ UNCHANGED claims /\ KeepsBonds
  \/ \E id \in BountyId : BountyEvent(id) /\ KeepsBonds
  \/ \E k \in ClaimKey : PlainEvent(k)

(* What a step does to bounties, claims and bonds.                         *)
ClaimsStep ==
  \/ UNCHANGED bounties /\ UNCHANGED claims /\ KeepsBonds
  \/ \E id \in BountyId : BountyEvent(id) /\ KeepsBonds
  \/ \E k \in ClaimKey : ClaimEvent(k)

----------------------------------------------------------------------------
(* What stays true of a promise while it is out, besides Sound.            *)
Fit(c) ==
  /\ c.kind = "payout" =>
       /\ Status(c.id) # "Absent" /\ Mode(c.id) # "DifferentTasks"
       /\ ~bounties[c.id].terms.postpaid /\ c.claim # Nil
       /\ Mode(c.id) = "Contest" => c.place # Nil
       /\ c.amounts.pay \in Nat
       /\ c.amounts.pay >= Price(bounties[c.id], c.place)
  /\ c.kind = "checkPayoutProposal" =>
       /\ Status(c.id) # "Absent" /\ bounties[c.id].terms.dao
       /\ c.claim = Nil => Mode(c.id) = "DifferentTasks"
  /\ c.kind = "withdraw" =>
       /\ Status(c.claim[1]) # "Absent" /\ Mode(c.claim[1]) = "DifferentTasks"
       /\ ~bounties[c.claim[1]].terms.postpaid /\ Finished(c.claim[1])
       /\ claims[c.claim].slot = c.slot
       /\ c.amount \in Nat
       /\ c.amount >= Price(bounties[c.claim[1]], c.slot)
  /\ c.kind \in {"kyc", "addClaimantProposal", "checkClaimantProposal",
                 "addPayoutProposal"} =>
       Status(c.claim[1]) # "Absent"
  /\ \/ c.kind = "kyc" /\ c.place = "DecisionOnClaim"
     \/ c.kind = "checkClaimantProposal"
     => bounties[c.claim[1]].terms.flow = "AdvancedFlow"
  /\ c.kind = "kyc" /\ c.place = "CreatingClaim" =>
       bounties[c.claim[1]].terms.kyc = "WhenCreatingClaim"
  /\ c.kind \in {"addClaimantProposal", "checkClaimantProposal",
                 "addPayoutProposal"} =>
       bounties[c.claim[1]].terms.dao
  /\ c.kind = "refund" => c.amount \in Nat /\ c.amount # 0

(* A queue of such promises.                                               *)
FitSeq(q) == q \in Seq(Calls) /\ \A j \in 1 .. Len(q) : Fit(q[j])

(* A fit promise that is no proposal to approve a claimant, and a queue in *)
(* which no such proposal is new.                                          *)
PlainCall(c) == Fit(c) /\ c.kind # "addClaimantProposal"
Carried(q) ==
  /\ FitSeq(q)
  /\ \A j \in 1 .. Len(q) : q[j].kind = "addClaimantProposal" =>
       \E i \in 1 .. Len(calls) : calls[i] = q[j]

(* The steps that a KYC check may have to come before, with the promises q *)
(* that are left: claim k is made, or the DAO is asked for it; ...         *)
Makes(q, k) ==
  /\ Vouched(k)
  /\ \E deadline \in Nat \cup {Nil}, slot \in Places \cup {Nil} :
       \/ /\ \/ /\ bounties[k[1]].terms.dao
                /\ ApprovalRequired(k[2], bounties[k[1]].terms)
             \/ Fresh(k, slot)
          /\ \E attached \in {0, config.bond} :
                ProposeOrCreateClaim(q, k, deadline, slot, attached)
       \/ /\ Fresh(k, slot)
          /\ CreateClaim(k, deadline, slot, TRUE, 0) /\ calls' = q

(* ... its claimant is approved; ...                                       *)
Engages(q, k, delayed) ==
  /\ MayDecide(k) /\ bounties[k[1]].terms.flow = "AdvancedFlow"
  /\ ApproveClaimant(k, claims[k], delayed) /\ KeepsBonds /\ calls' = q

(* ... its work is completed, or the DAO is asked to pay for it.           *)
HandsIn(q, k) ==
  /\ ProposeOrFinish(q, k) \/ (ClaimDone(k, TRUE) /\ calls' = q)
  /\ KeepsBonds

(* One of them, when accounts were found on the whitelist for the bounties *)
(* of `asked': nothing is asked, not yet, no more, or the answer was yes.  *)
Checked(q, k, asked) ==
  LET t == bounties[k[1]].terms
      isAsked == <<k[1], k[2]>> \in asked
  IN
  /\ Status(k[1]) # "Absent"
  /\ \/ Makes(q, k) /\ (t.kyc = "WhenCreatingClaim" => isAsked)
     \/ \E delayed \in Deferments \cup {Nil} :
              /\ Engages(q, k, delayed)
              /\ t.kyc = "DuringClaimApproval" /\ ~t.dao =>
                   isAsked \/ delayed # Nil
     \/ HandsIn(q, k) /\ (KycAtDone(k) /\ ~t.dao => isAsked)

(* The answers that a step uses, and the proposals that are out, are about *)
(* accounts that were found on the whitelist where this was asked.         *)
Proposed(asked) ==
  \A j \in 1 .. Len(calls) :
     /\ calls[j].kind = "addClaimantProposal"
     /\ bounties[calls[j].claim[1]].terms.kyc = "WhenCreatingClaim"
     => <<calls[j].claim[1], calls[j].claim[2]>> \in asked
Whitelisted(i, asked) ==
  after_check_if_whitelisted(i) =>
    <<calls[i].claim[1], calls[i].claim[2]>> \in asked

(* What each operation comes to.                                           *)
CheckedStep(asked) ==
  \/ PlainStep /\ Carried(calls')
  \/ \E k \in ClaimKey : \E q : Carried(q) /\ Checked(q, k, asked)

----------------------------------------------------------------------------
(* What is true of the bounties and their claims.                          *)

(* The statuses a bounty and its claims can have in its mode.              *)
StatusFits(id) ==
  LET b == bounties[id] IN
  /\ b.status = "Claimed" => b.terms.mode = "None"
  /\ b.status = "ManyClaimed" => b.terms.mode # "None"
  /\ b.status \in {"AwaitingClaims", "PartiallyCompleted"} =>
       b.terms.mode = "OneForAll"
  /\ /\ b.status # "Absent"
     /\ b.terms.dao \/ b.terms.kyc = "DuringClaimApproval"
     => b.terms.flow = "AdvancedFlow"

(* A claim has only statuses of the mode, and of the terms of payment, of  *)
(* its bounty.                                                             *)
ClaimFits(k) ==
  LET s == claims[k].status
      t == bounties[k[1]].terms
  IN
  /\ s = "Competes" => t.mode = "Contest"
  /\ s \in {"InProgress", "Rejected", "Disputed"} => t.mode # "Contest"
  /\ s = "ReadyToStart" => t.mode \in {"OneForAll", "DifferentTasks"}
  /\ s = "CompletedWithDispute" => t.mode = "DifferentTasks"
  /\ s \in {"Rejected", "Disputed", "CompletedWithDispute"} => ~t.postpaid

(* The claims of an account have the numbers from 0 on.                    *)
Numbered(id) ==
  \A j, k \in ClaimKey :
     /\ j[1] = id /\ k[1] = id /\ j[2] = k[2] /\ j[3] < k[3]
     /\ claims[k].status # "Absent"
     => claims[j].status # "Absent"

(* A bounty of equal slots.                                                *)
SlotsRun(id) ==
  LET b == bounties[id] IN
  HasMode(id, "OneForAll") =>
    /\ b.occupied_slots = Cardinality(ClaimsOf(id, Occupying))
    /\ b.occupied_slots + b.paid_slots <= b.terms.slots
    /\ b.status = "ManyClaimed" =>
         b.occupied_slots # 0 /\ ClaimsOf(id, {"ReadyToStart"}) = {}
    /\ b.status = "AwaitingClaims" => b.occupied_slots = 0
    /\ b.status \in {"AwaitingClaims", "PartiallyCompleted"} =>
         0 < b.paid_slots /\ b.paid_slots < b.terms.slots

(* A contest.                                                              *)
ContestRun(id) ==
  LET b == bounties[id] IN
  HasMode(id, "Contest") =>
    /\ b.participants = Cardinality(ClaimsOf(id, {"Competes", "Completed"}))
    /\ b.status = "New" => ~HasCompetitionStarted(b)
    /\ b.status = "ManyClaimed" => HasCompetitionStarted(b)
    /\ b.status = "Completed" => b.started_at # Nil
    /\ b.started_at # Nil => b.started_at <= now

(* A bounty of several tasks: the claim a slot names holds that slot.      *)
SlotNames(id) ==
  \A s \in UsedPlaces(bounties[id]) :
     bounties[id].slots[s] # Nil =>
       LET k == bounties[id].slots[s] IN
       k[1] = id /\ claims[k].slot = s /\ claims[k].status \in Holding

(* The slot of a claim that holds one names the claim.                     *)
ClaimNames(id) ==
  \A k \in ClaimsOf(id, Holding) :
     claims[k].slot # Nil /\ bounties[id].slots[claims[k].slot] = k

(* Slots and claims agree, and the tasks are accepted together.            *)
TasksRun(id) ==
  LET b == bounties[id] IN
  HasMode(id, "DifferentTasks") =>
    /\ SlotNames(id) /\ ClaimNames(id)
    /\ b.status = "Completed" => Finished(id)
    /\ ClaimsOf(id, {"Approved"}) # {} => Finished(id)

(* A slot whose payment is confirmed names a claim that was paid for, and  *)
(* a postpaid bounty is completed only by claims that were.                *)
TasksPaid(id) ==
  LET b == bounties[id] IN
  HasMode(id, "DifferentTasks") =>
    /\ \A s \in UsedPlaces(b) : s \in b.confirmed /\ b.slots[s] # Nil =>
         /\ claims[b.slots[s]].payment_at
         /\ claims[b.slots[s]].payment_confirmed_at
    /\ b.terms.postpaid /\ ~b.terms.dao /\ b.status = "Completed" =>
         \A k \in ClaimsOf(id, {"Completed", "CompletedWithDispute"}) :
            claims[k].payment_at /\ claims[k].payment_confirmed_at

(* A payment for the claimant of a bounty without multitasking.            *)
PaymentKept(id) ==
  LET b == bounties[id] IN
  HasMode(id, "None") /\ b.payment_at /\ ~b.terms.dao =>
    /\ b.terms.postpaid /\ b.status # "New"
    /\ \/ ClaimsOf(id, {"Completed"}) # {}
       \/ ClaimsOf(id, {"Approved"}) # {} /\ ClaimsOf(id, Active) = {}

(* Claim k was accepted with its payment made and confirmed.               *)
PaidFirst(k) ==
  LET b == bounties[k[1]] IN
  claims[k].status = "Approved" /\ b.terms.postpaid /\ ~b.terms.dao =>
    PaymentMade(b, claims[k]) /\ PaymentConfirmed(b, claims[k])

(* The shares of the subtasks make up the whole prize.                     *)
SharesWhole(id) == HasMode(id, "DifferentTasks") => SharesFit(bounties[id])

(* The inductive invariant of this module.                                 *)
Course ==
  /\ Work
  /\ FitSeq(calls)
  /\ \A id \in BountyId :
       /\ StatusFits(id) /\ Numbered(id) /\ IsFiniteSet(Made(id))
       /\ SlotsRun(id) /\ ContestRun(id)
       /\ TasksRun(id) /\ TasksPaid(id) /\ PaymentKept(id)
       /\ SharesWhole(id)
  /\ \A k \in ClaimKey : ClaimFits(k) /\ PaidFirst(k)

----------------------------------------------------------------------------
(* Promises that are sent, answered or left alone.                         *)

(* A queue of fit promises stays one when a fit promise joins it.          *)
LEMMA FitSent ==
  ASSUME Shape', NEW q, FitSeq(q), NEW call, Fit(call), Send(q, call)
  PROVE  FitSeq(calls')
<1>1. calls' \in Seq(Calls)
  BY DEF Shape, TypeOK
<1>2. calls' = Append(q, call) /\ q \in Seq(Calls)
  BY DEF Send, FitSeq
<1>3. ASSUME NEW j \in 1 .. Len(calls')
      PROVE  Fit(calls'[j])
  <2>1. \/ j \in 1 .. Len(q) /\ calls'[j] = q[j]
        \/ calls'[j] = call
    BY <1>2, <1>3
  <2> QED BY <2>1 DEF FitSeq
<1> QED BY <1>1, <1>3 DEF FitSeq

(* So does one from which the answered promise is taken, which was fit.    *)
LEMMA FitLeft ==
  ASSUME Course, NEW i \in 1 .. Len(calls)
  PROVE  /\ FitSeq(Answered(i)) /\ Fit(calls[i])
         /\ Sound(calls[i]) /\ calls[i] \in Calls
<1>1. /\ Sound(calls[i]) /\ calls[i] \in Calls
      /\ Answered(i) \in Seq(Calls) /\ calls \in Seq(Calls)
      /\ \A j \in 1 .. Len(calls) : Fit(calls[j])
  BY SoundLeft, AnsweredType DEF Course, Work, FitSeq
<1>2. ASSUME NEW j \in 1 .. Len(Answered(i))
      PROVE  Fit(Answered(i)[j])
  <2>1. \E m \in 1 .. Len(calls) : Answered(i)[j] = calls[m]
    BY <1>1, RemoveAtFrom DEF Answered
  <2> QED BY <1>1, <2>1
<1> QED BY <1>1, <1>2 DEF FitSeq

(* Then no proposal is new either.                                         *)
LEMMA CarriedLeft ==
  ASSUME Course, NEW i \in 1 .. Len(calls)
  PROVE  /\ Carried(Answered(i)) /\ Fit(calls[i])
         /\ Sound(calls[i]) /\ calls[i] \in Calls
<1>1. /\ FitSeq(Answered(i)) /\ Fit(calls[i])
      /\ Sound(calls[i]) /\ calls[i] \in Calls /\ calls \in Seq(Calls)
  BY FitLeft DEF Course, FitSeq
<1>2. ASSUME NEW j \in 1 .. Len(Answered(i))
      PROVE  \E m \in 1 .. Len(calls) : calls[m] = Answered(i)[j]
  BY <1>1, RemoveAtFrom DEF Answered
<1> QED BY <1>1, <1>2 DEF Carried

(* The promises that are out are carried, in a step that leaves them.      *)
LEMMA CarriedCalls ==
  ASSUME Course
  PROVE  Carried(calls) /\ (UNCHANGED calls => Carried(calls'))
BY DEF Course, Carried

(* A step that leaves the bonds alone, or moves but the NEAR that is held. *)
LEMMA BondsKept ==
  ASSUME Course,
         \/ UNCHANGED bonds
         \/ \E n : bonds' = [bonds EXCEPT !.near = n]
         \/ \E n, m : bonds' = [bonds EXCEPT !.near = n, !.proposals = m]
         \/ \E m, n : bonds' = [bonds EXCEPT !.unlocked_amount = m, !.near = n]
  PROVE  KeepsBonds
BY DEF Course, Work, Shape, TypeOK, BondAccounts, KeepsBonds

(* A bond that is returned or withheld is not locked any more.             *)
LEMMA BondFreed ==
  ASSUME Course, NEW k \in ClaimKey, NEW s, NEW returned,
         CloseClaim(k, s, returned)
  PROVE  FreesBond(k) /\ Closes(k, s)
<1>1. \E m, n : bonds' = [bonds EXCEPT
                 !.locked_amount = bonds.locked_amount - claims[k].bond,
                           !.unlocked_amount = m, !.near = n]
  BY Zenon DEF CloseClaim, BondSettled
<1>2. FreesBond(k)
  BY <1>1 DEF Course, Work, Shape, TypeOK, BondAccounts, FreesBond
<1> QED BY <1>2 DEF CloseClaim, Closes

(* A call that does nothing but send a fit promise.                        *)
LEMMA SentEvent ==
  ASSUME Course, Shape', NEW q, Carried(q),
         NEW call, PlainCall(call), Send(q, call),
         UNCHANGED bounties, UNCHANGED claims, KeepsBonds
  PROVE  PlainStep /\ Carried(calls')
<1>1. FitSeq(q) /\ FitSeq(calls')
  BY FitSent DEF Carried, PlainCall
<1>2. calls' = Append(q, call) /\ q \in Seq(Calls)
  BY <1>1 DEF Send, FitSeq
<1>3. ASSUME NEW j \in 1 .. Len(calls')
      PROVE  (j \in 1 .. Len(q) /\ calls'[j] = q[j]) \/ calls'[j] = call
  BY <1>2, <1>3
<1>4. Carried(calls')
  BY <1>1, <1>3 DEF Carried, PlainCall
<1> QED BY <1>4 DEF PlainStep

(* What a claim and its bounty are, by their types.                        *)
LEMMA Stored ==
  ASSUME Course, NEW k \in ClaimKey
  PROVE  /\ bounties \in [BountyId -> Bounty] /\ claims \in [ClaimKey -> Claim]
         /\ claims[k] \in Claim /\ k[1] \in BountyId
         /\ bounties[k[1]] \in Bounty /\ now \in Nat
         /\ claims[k].status # "Absent" => bounties[k[1]].status # "Absent"
BY KeyType DEF Course, Work, Shape, TypeOK, Unborn

----------------------------------------------------------------------------
(* The internal functions.                                                 *)

(* internal_reset_bounty_to_initial_state                                  *)
LEMMA ResetEvent ==
  ASSUME Course, NEW k \in ClaimKey, NEW s, NEW returned,
         ResetBounty(k, s, returned),
         \/ claims[k].status \in {"InProgress", "Competes"}
            /\ s \in {"Expired", "Canceled"}
         \/ /\ claims[k].status \in {"Completed", "Rejected", "Disputed"}
            /\ bounties[k[1]].status \in Running /\ s = "NotCompleted"
            /\ /\ claims[k].status = "Completed"
               /\ bounties[k[1]].terms.postpaid /\ ~bounties[k[1]].terms.dao
               => ~PaymentMade(bounties[k[1]], claims[k])
  PROVE  PlainStep
<1>1. /\ Closes(k, s) /\ FreesBond(k)
      /\ bounties' = [bounties EXCEPT ![k[1]] = Reopened(bounties[k[1]], k)]
  BY BondFreed DEF ResetBounty
<1> QED BY <1>1 DEF PlainStep, PlainEvent, Resets

(* internal_bounty_completion                                              *)
LEMMA CompleteEvent ==
  ASSUME Course, NEW id \in BountyId, NEW k, NEW amounts,
         NEW place \in Places \cup {Nil},
         \/ k \in ClaimKey /\ k[1] = id
         \/ k = Nil /\ bounties[id].terms.mode = "DifferentTasks",
         bounties[id].terms.postpaid /\ ~bounties[id].terms.dao =>
           IF bounties[id].terms.mode = "DifferentTasks"
           THEN UsedPlaces(bounties[id]) \subseteq bounties[id].confirmed
           ELSE PostpaidReady(k),
         \/ bounties[id].terms.postpaid
         \/ bounties[id].terms.mode = "DifferentTasks"
         \/ /\ bounties[id].terms.mode = "Contest" => place # Nil
            /\ PaidFor(k, Price(bounties[id], place)),
         MayComplete(id, k, amounts, place),
         Complete(id, k, amounts, place)
  PROVE  PlainStep
<1>0. bounties' = [bounties EXCEPT ![id] = PaidBounty(bounties[id], k, place)]
  BY DEF Complete
<1>1. CASE bounties[id].terms.mode = "DifferentTasks"
  <2>1. /\ k = Nil /\ bounties[id].status = "ManyClaimed"
        /\ AllSlotsComplete(id, Nil)
    BY <1>1 DEF MayComplete
  <2>2. PaidBounty(bounties[id], k, place) =
          [bounties[id] EXCEPT !.status = "Completed"]
    BY <1>1 DEF PaidBounty
  <2>3. UNCHANGED claims /\ KeepsBonds
    BY <2>1, BondsKept DEF Complete
  <2>4. bounties' = [bounties EXCEPT ![id].status = "Completed"]
    BY <1>0, <2>2
  <2>5. Accepts(id)
    BY <1>1, <2>1, <2>3, <2>4 DEF Accepts
  <2> QED BY <2>3, <2>5 DEF PlainStep, BountyEvent
<1>2. CASE bounties[id].terms.mode # "DifferentTasks"
  <2>1. /\ k \in ClaimKey /\ k[1] = id /\ k # Nil
        /\ bounties[id].status \in Running
        /\ claims[k].status \in {"Completed", "Disputed"}
    BY <1>2, NilAssumption DEF MayComplete
  <2>2. Closes(k, "Approved") /\ FreesBond(k)
    BY <2>1, BondFreed DEF Complete
  <2>3. ~bounties[id].terms.postpaid =>
          Vacant(bounties[id], place) /\ PaidFor(k, Price(bounties[id], place))
    BY <1>2 DEF MayComplete, Vacant
  <2>4. Pays(k)
    BY <1>0, <1>2, <2>1, <2>2, <2>3 DEF Pays
  <2> QED BY <2>1, <2>2, <2>4 DEF PlainStep, PlainEvent
<1> QED BY <1>1, <1>2

(* internal_bounty_payout completes the bounty, or sends a fit promise.    *)
LEMMA PayoutEvent ==
  ASSUME Course, Shape', NEW q, Carried(q), NEW id \in BountyId, NEW k,
         NEW place \in Places \cup {Nil},
         \/ k \in ClaimKey /\ k[1] = id
         \/ k = Nil /\ bounties[id].terms.mode = "DifferentTasks",
         bounties[id].terms.postpaid /\ ~bounties[id].terms.dao =>
           IF bounties[id].terms.mode = "DifferentTasks"
           THEN UsedPlaces(bounties[id]) \subseteq bounties[id].confirmed
           ELSE PostpaidReady(k),
         bounties[id].status # "Absent",
         Payout(q, id, k, place)
  PROVE  PlainStep /\ Carried(calls')
<1> DEFINE amounts == AmountsForPayment(bounties[id], place)
           call == [kind |-> "payout", id |-> id, claim |-> k,
                    amounts |-> amounts, place |-> place]
<1>1. \/ /\ MayComplete(id, k, amounts, place)
         /\ Complete(id, k, amounts, place)
         /\ calls' = q
         /\ \/ bounties[id].terms.postpaid
            \/ bounties[id].terms.mode = "DifferentTasks"
      \/ /\ Send(q, call) /\ UNCHANGED <<bounties, claims, bonds, fees>>
         /\ ~bounties[id].terms.postpaid
         /\ bounties[id].terms.mode # "DifferentTasks"
  BY Zenon DEF Payout
<1>4. ASSUME ~bounties[id].terms.postpaid,
             bounties[id].terms.mode # "DifferentTasks"
      PROVE  /\ bounties[id].terms.mode = "Contest" => place # Nil
             /\ amounts.pay \in Nat
             /\ amounts.pay >= Price(bounties[id], place)
  <2>1. bounties[id].terms.mode = "Contest" => place # Nil
    BY <1>4, Zenon DEF Payout
  <2>2. bounties[id] \in Bounty
    BY DEF Course, Work, Shape, TypeOK
  <2> HIDE DEF call
  <2> QED BY <1>4, <2>1, <2>2, PaymentPrice
<1> HIDE DEF amounts
<1>2. CASE /\ MayComplete(id, k, amounts, place)
           /\ Complete(id, k, amounts, place)
           /\ calls' = q
           /\ \/ bounties[id].terms.postpaid
              \/ bounties[id].terms.mode = "DifferentTasks"
  BY <1>2, CompleteEvent
<1>3. CASE /\ Send(q, call) /\ UNCHANGED <<bounties, claims, bonds, fees>>
           /\ ~bounties[id].terms.postpaid
           /\ bounties[id].terms.mode # "DifferentTasks"
  <2>1. PlainCall(call)
    BY <1>3, <1>4, NilAssumption DEF PlainCall, Fit, Status, Mode
  <2>2. KeepsBonds
    BY <1>3, BondsKept
  <2> HIDE DEF call
  <2> QED BY <1>3, <2>1, <2>2, SentEvent
<1> QED BY <1>1, <1>2, <1>3

(* internal_bounty_cancellation                                            *)
LEMMA CancelEvent ==
  ASSUME Course, NEW id \in BountyId, bounties[id].status # "Absent",
         \/ bounties[id].status \in {"New", "AwaitingClaims"}
         \/ refunded'[id] # refunded[id],
         Cancellation(id), UNCHANGED claims, KeepsBonds
  PROVE  PlainStep
<1>1. Cancels(id)
  BY DEF Cancels, Cancellation, Status
<1> QED BY <1>1 DEF PlainStep, BountyEvent

(* internal_slot_finalize                                                  *)
LEMMA SlotEvent ==
  ASSUME Course, NEW k \in ClaimKey, NEW slot, slot = claims[k].slot,
         bounties[k[1]].terms.mode = "DifferentTasks", Finished(k[1]),
         claims[k].status \in {"Completed", "CompletedWithDispute"},
         IF bounties[k[1]].terms.postpaid
         THEN bounties[k[1]].status = "Completed"
         ELSE PaidFor(k, Price(bounties[k[1]], slot)),
         SlotFinalize(k, slot)
  PROVE  PlainStep
<1>1. Closes(k, "Approved") /\ FreesBond(k)
  BY BondFreed DEF SlotFinalize
<1>2. Withdraws(k)
  BY <1>1 DEF Withdraws, SlotFinalize
<1> QED BY <1>1, <1>2 DEF PlainStep, PlainEvent

(* internal_reject_claim                                                   *)
LEMMA RejectEvent ==
  ASSUME Course, NEW k \in ClaimKey, claims[k].status = "Completed",
         bounties[k[1]].status \in Running,
         bounties[k[1]].terms.postpaid /\ ~bounties[k[1]].terms.dao
           => ~PaymentMade(bounties[k[1]], claims[k]),
         RejectClaim(k)
  PROVE  PlainStep
<1>1. CASE /\ ~bounties[k[1]].terms.postpaid
           /\ bounties[k[1]].terms.mode # "Contest"
           /\ claims' = [claims EXCEPT ![k].status = "Rejected",
                                       ![k].rejected_at = now]
           /\ UNCHANGED <<bounties, bonds>>
  <2>1. Rejects(k) /\ KeepsBonds
    BY <1>1, BondsKept DEF Rejects
  <2> QED BY <2>1 DEF PlainStep, PlainEvent
<1>2. CASE ResetBounty(k, "NotCompleted", TRUE)
  BY <1>2, ResetEvent
<1> QED BY <1>1, <1>2, Zenon DEF RejectClaim

(* The end of a dispute.                                                   *)
LEMMA SettleEvent ==
  ASSUME Course, Shape', NEW q, Carried(q), NEW k \in ClaimKey,
         claims[k].status = "Disputed", bounties[k[1]].status \in Running,
         NEW success, SettleDispute(q, k, success)
  PROVE  PlainStep /\ Carried(calls')
<1>1. \/ ResetBounty(k, "NotCompleted", TRUE) /\ calls' = q
      \/ /\ bounties[k[1]].terms.mode = "DifferentTasks"
         /\ ReturnedAfterDispute(k) /\ calls' = q
      \/ Payout(q, k[1], k, Nil)
  BY Zenon DEF SettleDispute
<1>2. CASE ResetBounty(k, "NotCompleted", TRUE) /\ calls' = q
  BY <1>2, ResetEvent
<1>3. CASE /\ bounties[k[1]].terms.mode = "DifferentTasks"
           /\ ReturnedAfterDispute(k) /\ calls' = q
  <2>1. Argues(k) /\ KeepsBonds
    BY <1>3, BondsKept DEF ReturnedAfterDispute, Argues, Closes
  <2> QED BY <1>3, <2>1 DEF PlainStep, PlainEvent
<1>4. CASE Payout(q, k[1], k, Nil)
  <2>1. k[1] \in BountyId /\ bounties[k[1]].status # "Absent"
    BY KeyType DEF Running
  <2>2. ~bounties[k[1]].terms.postpaid
    BY DEF Course, ClaimFits
  <2> QED BY <1>4, <2>1, <2>2, PayoutEvent
<1> QED BY <1>1, <1>2, <1>3, <1>4

(* internal_claim_closure of a claim that waits for approval.              *)
LEMMA DeclineEvent ==
  ASSUME Course, NEW k \in ClaimKey, claims[k].status = "New",
         NEW s \in {"NotHired", "Canceled"}, NEW returned,
         CloseClaim(k, s, returned), UNCHANGED bounties
  PROVE  PlainStep
<1>1. Closes(k, s) /\ FreesBond(k)
  BY BondFreed
<1>2. Declines(k)
  BY <1>1 DEF Declines
<1> QED BY <1>1, <1>2 DEF PlainStep, PlainEvent

(* A claim that is not worked on leaves its bounty.                        *)
LEMMA LeaveEvent ==
  ASSUME Course, NEW k \in ClaimKey, NEW s, NEW returned,
         CloseClaim(k, s, returned),
         bounties' = [bounties EXCEPT ![k[1]] = Left(bounties[k[1]], k)],
         \/ claims[k].status = "ReadyToStart" /\ s = "Canceled"
         \/ /\ claims[k].status \in {"Competes", "Completed"}
            /\ bounties[k[1]].terms.mode = "Contest"
            /\ s \in {"NotCompleted", "Canceled"}
  PROVE  PlainStep
<1>1. Closes(k, s) /\ FreesBond(k)
  BY BondFreed
<1>2. Leaves(k)
  BY <1>1 DEF Leaves
<1> QED BY <1>1, <1>2 DEF PlainStep, PlainEvent

(* internal_claimant_approval of the claim that is stored.                 *)
LEMMA AdmitEvent ==
  ASSUME Course, NEW k \in ClaimKey, NEW delayed \in Deferments \cup {Nil},
         MayDecide(k), bounties[k[1]].terms.flow = "AdvancedFlow",
         ApproveClaimant(k, claims[k], delayed), KeepsBonds
  PROVE  ClaimsStep
<1>1. claims[k] \in Claim /\ claims[k].status = "New"
  BY Stored DEF MayDecide
<1>2. Admits(k)
  BY <1>1 DEF Admits
<1>3. ClaimEvent(k)
  BY <1>2 DEF ClaimEvent
<1> QED BY <1>3 DEF ClaimsStep

(* internal_create_claim                                                   *)
LEMMA CreateEvent ==
  ASSUME Course, NEW k \in ClaimKey, NEW deadline \in Nat \cup {Nil},
         NEW slot \in Places \cup {Nil}, NEW proposal \in BOOLEAN,
         NEW attached, Fresh(k, slot),
         CreateClaim(k, deadline, slot, proposal, attached)
  PROVE  ClaimsStep
<1> DEFINE c == [NoClaim EXCEPT !.status = "New", !.deadline = deadline,
                                !.slot = slot, !.bond = config.bond,
                                !.approve_proposal = proposal]
<1>1. /\ NoClaim \in Claim /\ "New" \in ClaimStatus /\ config.bond \in Nat
  BY DEF NoClaim, Claim, ClaimStatus, Course, Work, Shape, TypeOK, Config
<1>2. c \in Claim /\ c.status = "New" /\ c.slot = slot
  BY <1>1, Zenon DEF Claim
<1>3. /\ \/ ApproveClaimant(k, c, Nil)
         \/ claims' = [claims EXCEPT ![k] = c] /\ UNCHANGED bounties
      /\ bonds' = [bonds EXCEPT !.locked_amount = @ + config.bond,
                                !.near = @ + attached]
  BY Zenon DEF CreateClaim
<1>4. c.bond = config.bond
  BY <1>1, Zenon DEF Claim
<1>5. LocksBond(c.bond)
  <2>1. LocksBond(config.bond)
    BY <1>3 DEF Course, Work, Shape, TypeOK, BondAccounts, LocksBond
  <2> QED BY <1>4, <2>1
<1> HIDE DEF c
<1>6. Admits(k) \/ Applies(k)
  BY <1>2, <1>3, <1>5 DEF Admits, Applies
<1>7. ClaimEvent(k)
  BY <1>6 DEF ClaimEvent
<1> QED BY <1>7 DEF ClaimsStep

(* internal_add_proposal sends the promise and locks no bond.              *)
LEMMA ProposeKeeps ==
  ASSUME Course, NEW q, NEW call, NEW attached, Propose(q, call, attached)
  PROVE  Send(q, call) /\ KeepsBonds
<1>1. \E n, m : bonds' = [bonds EXCEPT !.near = n, !.proposals = m]
  BY Zenon DEF Propose
<1> QED BY <1>1, BondsKept DEF Propose

(* internal_add_proposal_and_create_claim                                  *)
LEMMA ProposeOrCreateEvent ==
  ASSUME Course, Shape', NEW q, FitSeq(q), NEW k \in ClaimKey,
         NEW deadline \in Nat \cup {Nil}, NEW slot \in Places \cup {Nil},
         NEW attached,
         ProposeOrCreateClaim(q, k, deadline, slot, attached),
         \/ /\ bounties[k[1]].terms.dao
            /\ ApprovalRequired(k[2], bounties[k[1]].terms)
         \/ Fresh(k, slot),
         Status(k[1]) # "Absent"
  PROVE  ClaimsStep /\ FitSeq(calls')
<1> DEFINE asks == /\ bounties[k[1]].terms.dao
                   /\ ApprovalRequired(k[2], bounties[k[1]].terms)
           call == [kind |-> "addClaimantProposal", claim |-> k,
                    deadline |-> deadline, slot |-> slot]
<1>1. CASE asks
  <2>1. /\ Propose(q, call, attached)
        /\ UNCHANGED bounties /\ UNCHANGED claims
    BY <1>1, Zenon DEF ProposeOrCreateClaim
  <2>2. Fit(call)
    BY <1>1 DEF Fit
  <2>3. Send(q, call) /\ KeepsBonds
    BY <2>1, ProposeKeeps
  <2>4. ClaimsStep
    BY <2>1, <2>3 DEF ClaimsStep
  <2> HIDE DEF call
  <2> QED BY <2>2, <2>3, <2>4, FitSent
<1>2. CASE ~asks
  <2>1. CreateClaim(k, deadline, slot, FALSE, attached) /\ calls' = q
    BY <1>2, Zenon DEF ProposeOrCreateClaim
  <2>2. FALSE \in BOOLEAN
    OBVIOUS
  <2> QED BY <1>2, <2>1, <2>2, CreateEvent
<1> QED BY <1>1, <1>2

(* internal_add_proposal_and_update_claim locks no bond.                   *)
LEMMA FinishKeeps ==
  ASSUME Course, NEW q, NEW k, ProposeOrFinish(q, k)
  PROVE  KeepsBonds
BY ProposeKeeps, BondsKept, Zenon DEF ProposeOrFinish

(* internal_add_proposal_and_update_claim                                  *)
LEMMA ProposeOrFinishEvent ==
  ASSUME Course, Shape', NEW q, FitSeq(q), NEW k \in ClaimKey,
         ProposeOrFinish(q, k), KeepsBonds, Status(k[1]) # "Absent"
  PROVE  ClaimsStep /\ FitSeq(calls')
<1> DEFINE call == [kind |-> "addPayoutProposal", claim |-> k]
<1>1. \/ /\ Send(q, call) /\ UNCHANGED bounties /\ UNCHANGED claims
         /\ bounties[k[1]].terms.dao
      \/ ClaimDone(k, FALSE) /\ calls' = q
  BY ProposeKeeps, Zenon DEF ProposeOrFinish
<1>2. bounties[k[1]].terms.dao => Fit(call)
  BY DEF Fit
<1>3. ClaimDone(k, FALSE) => ClaimEvent(k)
  BY DEF ClaimEvent, Finishes
<1>4. ClaimsStep
  BY <1>1, <1>3 DEF ClaimsStep
<1> HIDE DEF call
<1> QED BY <1>1, <1>2, <1>4, FitSent

(* What a KYC check may have to come before.                               *)
LEMMA CheckedEvent ==
  ASSUME Course, Shape', NEW q, Carried(q), NEW k \in ClaimKey, NEW asked,
         Checked(q, k, asked)
  PROVE  ClaimsStep /\ FitSeq(calls')
<1>0. FitSeq(q) /\ Status(k[1]) # "Absent"
  BY DEF Carried, Checked
<1>1. CASE Makes(q, k)
  <2>1. PICK deadline \in Nat \cup {Nil}, slot \in Places \cup {Nil} :
          \/ /\ \/ /\ bounties[k[1]].terms.dao
                   /\ ApprovalRequired(k[2], bounties[k[1]].terms)
                \/ Fresh(k, slot)
             /\ \E attached \in {0, config.bond} :
                   ProposeOrCreateClaim(q, k, deadline, slot, attached)
          \/ /\ Fresh(k, slot)
             /\ CreateClaim(k, deadline, slot, TRUE, 0) /\ calls' = q
    BY <1>1 DEF Makes
  <2>2. TRUE \in BOOLEAN
    OBVIOUS
  <2> QED BY <1>0, <2>1, <2>2, ProposeOrCreateEvent, CreateEvent
<1>2. ASSUME NEW delayed \in Deferments \cup {Nil}, Engages(q, k, delayed)
      PROVE  ClaimsStep /\ FitSeq(calls')
  BY <1>0, <1>2, AdmitEvent DEF Engages
<1>3. CASE HandsIn(q, k)
  <2>1. CASE ClaimDone(k, TRUE) /\ calls' = q /\ KeepsBonds
    <3>1. ClaimEvent(k)
      BY <2>1 DEF ClaimEvent, Finishes
    <3> QED BY <1>0, <2>1, <3>1 DEF ClaimsStep
  <2> QED BY <1>0, <1>3, <2>1, ProposeOrFinishEvent DEF HandsIn
<1> QED BY <1>1, <1>2, <1>3, Zenon DEF Checked

(* A step without a KYC check is one of the events, and so is any other.   *)
LEMMA CheckedSteps ==
  ASSUME Course, Shape', NEW asked, CheckedStep(asked)
  PROVE  ClaimsStep /\ FitSeq(calls')
<1>1. CASE PlainStep /\ Carried(calls')
  <2>1. \A k \in ClaimKey : PlainEvent(k) => ClaimEvent(k)
    BY DEF ClaimEvent
  <2> QED BY <1>1, <2>1 DEF PlainStep, ClaimsStep, Carried
<1>2. ASSUME NEW k \in ClaimKey, NEW q, Carried(q), Checked(q, k, asked)
      PROVE  ClaimsStep /\ FitSeq(calls')
  BY <1>2, CheckedEvent
<1> QED BY <1>1, <1>2 DEF CheckedStep

----------------------------------------------------------------------------
(* The actions.                                                            *)

(* A step that leaves bounties, claims and promises alone.                 *)
LEMMA CalmEvent ==
  ASSUME Course, UNCHANGED bounties, UNCHANGED claims, UNCHANGED calls,
         KeepsBonds
  PROVE  PlainStep /\ Carried(calls')
BY CarriedCalls DEF PlainStep

(* The clock, the administrator's calls, and the withdrawals of the fees.  *)
LEMMA SystemEvents ==
  ASSUME Course, Shape',
         \/ Tick \/ change_config \/ withdraw_non_refunded_bonds
         \/ withdraw_platform_fee \/ withdraw_validators_dao_fee
  PROVE  PlainStep /\ Carried(calls')
<1>1. CASE Tick \/ change_config \/ withdraw_non_refunded_bonds
  <2>1. KeepsBonds
    BY <1>1, BondsKept, Zenon
       DEF Tick, change_config, withdraw_non_refunded_bonds
  <2> QED BY <1>1, <2>1, CalmEvent
          DEF Tick, change_config, withdraw_non_refunded_bonds
<1>2. CASE withdraw_platform_fee \/ withdraw_validators_dao_fee
  <2>1. PICK available, platform : SendFees(available, platform)
    BY <1>2 DEF withdraw_platform_fee, withdraw_validators_dao_fee
  <2> DEFINE call == [kind |-> "fees", amount |-> available,
                      platform |-> platform]
  <2>2. /\ Send(calls, call) /\ UNCHANGED bounties /\ UNCHANGED claims
        /\ KeepsBonds
    BY <2>1, BondsKept DEF SendFees
  <2>3. PlainCall(call) /\ Carried(calls)
    BY CarriedCalls DEF PlainCall, Fit
  <2> HIDE DEF call
  <2> QED BY <2>2, <2>3, SentEvent
<1> QED BY <1>1, <1>2

(* ft_on_transfer, bounty_create, start_competition and bounty_update      *)
LEMMA OwnerEvents ==
  ASSUME Course, NEW id \in BountyId,
         \/ \E t \in Offers : ft_on_transfer(id, t) \/ bounty_create(id, t)
         \/ start_competition(id)
         \/ \E u \in Updates : bounty_update(id, u)
  PROVE  PlainStep /\ Carried(calls')
<1>1. UNCHANGED calls /\ UNCHANGED bonds
  BY Zenon DEF ft_on_transfer, bounty_create, AddBounty, start_competition,
               bounty_update
<1>2. ASSUME NEW t \in Offers, ft_on_transfer(id, t) \/ bounty_create(id, t)
      PROVE  Begins(id)
  BY <1>2 DEF ft_on_transfer, bounty_create, AddBounty, Begins, Status
<1>3. BountyEvent(id)
  BY <1>2 DEF BountyEvent, Changes
<1> QED BY <1>1, <1>3, BondsKept, CarriedCalls DEF PlainStep

(* bounty_cancel                                                           *)
LEMMA CancelCallEvent ==
  ASSUME Course, Shape', NEW id \in BountyId, bounty_cancel(id)
  PROVE  PlainStep /\ Carried(calls')
<1> DEFINE call == [kind |-> "refund", id |-> id,
                    amount |-> AmountToOwner(bounties[id])]
<1>0. UNCHANGED bonds
  BY DEF bounty_cancel
<1>1. /\ UNCHANGED claims /\ KeepsBonds
      /\ bounties[id].status \in {"New", "AwaitingClaims"}
      /\ AmountToOwner(bounties[id]) \in Nat
      /\ \/ Cancellation(id) /\ UNCHANGED calls
         \/ /\ Send(calls, call) /\ UNCHANGED bounties
            /\ AmountToOwner(bounties[id]) # 0
  BY <1>0, BondsKept, Zenon DEF bounty_cancel, Returnable
<1>2. CASE Cancellation(id) /\ UNCHANGED calls
  BY <1>1, <1>2, CancelEvent, CarriedCalls
<1>3. CASE /\ Send(calls, call) /\ UNCHANGED bounties
           /\ AmountToOwner(bounties[id]) # 0
  <2>1. PlainCall(call) /\ Carried(calls)
    BY <1>1, <1>3, CarriedCalls DEF PlainCall, Fit
  <2> HIDE DEF call
  <2> QED BY <1>1, <1>3, <2>1, SentEvent
<1> QED BY <1>1, <1>2, <1>3

(* bounty_claim                                                            *)
LEMMA ClaimCallEvent ==
  ASSUME Course, Shape', NEW id \in BountyId, NEW who \in Claimants,
         NEW deadline \in Deadlines, NEW slot \in Places \cup {Nil},
         bounty_claim(who, id, deadline, slot), NEW asked
  PROVE  CheckedStep(asked)
<1> DEFINE k == NextKey(id, who)
           call == [kind |-> "kyc", claim |-> k, place |-> "CreatingClaim",
                    deadline |-> deadline, slot |-> slot, delayed |-> Nil]
<1>1. /\ k \in ClaimKey /\ k[1] = id /\ k[2] = who
      /\ MayCreateClaim(id, who, slot)
  BY MayCreateClaimFacts DEF bounty_claim, Course, Work, NextKey
<1>2. Fresh(k, slot) /\ Status(k[1]) # "Absent"
  <2>1. bounties[id].status # "Absent"
    BY <1>1 DEF MayCreateClaim, OpenStatuses
  <2> QED BY <1>1, <2>1 DEF Fresh, Status
<1>8. Vouched(k)
  <2>1. MayClaim(who, bounties[id].terms)
    BY Zenon DEF bounty_claim
  <2> QED BY <1>1, <2>1 DEF Vouched
<1>3. \/ /\ Send(calls, call) /\ UNCHANGED bounties /\ UNCHANGED claims
         /\ bonds' = [bonds EXCEPT !.near = bonds.near + config.bond]
         /\ bounties[id].terms.kyc = "WhenCreatingClaim"
      \/ /\ ProposeOrCreateClaim(calls, k, deadline, slot, config.bond)
         /\ bounties[id].terms.kyc # "WhenCreatingClaim"
  BY Zenon DEF bounty_claim
<1>4. Carried(calls) /\ deadline \in Nat \cup {Nil}
  BY CarriedCalls, BountiesAssumption
<1>5. bounties[id].terms.kyc = "WhenCreatingClaim" => PlainCall(call)
  BY <1>1, <1>2 DEF PlainCall, Fit
<1> HIDE DEF k, call
<1>6. CASE /\ ProposeOrCreateClaim(calls, k, deadline, slot, config.bond)
           /\ bounties[id].terms.kyc # "WhenCreatingClaim"
  <2>1. Makes(calls, k)
    BY <1>2, <1>4, <1>6, <1>8 DEF Makes
  <2>2. Checked(calls, k, asked)
    BY <1>1, <1>2, <1>6, <2>1 DEF Checked
  <2> QED BY <1>1, <1>4, <2>2 DEF CheckedStep
<1>7. CASE /\ Send(calls, call) /\ UNCHANGED bounties /\ UNCHANGED claims
           /\ bonds' = [bonds EXCEPT !.near = bonds.near + config.bond]
           /\ bounties[id].terms.kyc = "WhenCreatingClaim"
  BY <1>4, <1>5, <1>7, BondsKept, SentEvent DEF CheckedStep
<1> QED BY <1>3, <1>6, <1>7

(* Asking the DAO for its vote on a payout sends a fit promise.            *)
LEMMA AskEvent ==
  ASSUME Course, Shape', NEW id, NEW k, AskPayoutProposal(id, k),
         bounties[id].status # "Absent", bounties[id].terms.dao,
         k = Nil => bounties[id].terms.mode = "DifferentTasks"
  PROVE  PlainStep /\ Carried(calls')
<1> DEFINE call == [kind |-> "checkPayoutProposal", id |-> id, claim |-> k]
<1>1. /\ Send(calls, call) /\ UNCHANGED bounties /\ UNCHANGED claims
      /\ KeepsBonds
  BY BondsKept DEF AskPayoutProposal
<1>2. PlainCall(call) /\ Carried(calls)
  BY CarriedCalls DEF PlainCall, Fit, Status, Mode
<1> HIDE DEF call
<1> QED BY <1>1, <1>2, SentEvent

(* bounty_approve_of_several, bounty_finalize without a claimant, and what *)
(* comes back from a proposal.                                             *)
LEMMA SeveralEvents ==
  ASSUME Course, Shape', NEW id \in BountyId,
         \/ \E sender \in Accounts : bounty_approve_of_several(sender, id)
         \/ bounty_finalize_all(id) \/ return_proposal_bond(id)
  PROVE  PlainStep /\ Carried(calls')
<1>1. ASSUME NEW sender, bounty_approve_of_several(sender, id)
      PROVE  PlainStep /\ Carried(calls')
  <2>1. /\ Payout(calls, id, Nil, Nil) /\ Carried(calls)
        /\ bounties[id].terms.mode = "DifferentTasks"
        /\ bounties[id].status # "Absent"
        /\ bounties[id].terms.postpaid =>
             UsedPlaces(bounties[id]) \subseteq bounties[id].confirmed
    BY <1>1, CarriedCalls DEF bounty_approve_of_several, Running
  <2> QED BY <2>1, PayoutEvent
<1>2. CASE bounty_finalize_all(id)
  <2>1. /\ AskPayoutProposal(id, Nil) /\ bounties[id].terms.dao
        /\ bounties[id].status # "Absent"
        /\ bounties[id].terms.mode = "DifferentTasks"
    BY <1>2 DEF bounty_finalize_all, TasksProposed
  <2> QED BY <2>1, AskEvent
<1>3. CASE return_proposal_bond(id)
  <2>1. /\ UNCHANGED bounties /\ UNCHANGED claims /\ UNCHANGED calls
        /\ \E n, m : bonds' = [bonds EXCEPT !.near = n, !.proposals = m]
    BY <1>3, Zenon DEF return_proposal_bond
  <2> QED BY <2>1, BondsKept, CalmEvent
<1> QED BY <1>1, <1>2, <1>3

(* The calls that name a bounty and no claim of it.                        *)
LEMMA OnBountyEvents ==
  ASSUME Course, Shape', NEW id \in BountyId, OnBounty(id), NEW asked
  PROVE  CheckedStep(asked)
BY OwnerEvents, CancelCallEvent, ClaimCallEvent, SeveralEvents
   DEF OnBounty, CheckedStep

(* bounty_done                                                             *)
LEMMA DoneEvent ==
  ASSUME Course, Shape', NEW k \in ClaimKey, bounty_done(k), NEW asked
  PROVE  CheckedStep(asked)
<1> DEFINE call == [kind |-> "kyc", claim |-> k, place |-> "ClaimDone",
                    deadline |-> Nil, slot |-> Nil, delayed |-> Nil]
<1>1. /\ claims[k].status \in {"InProgress", "Competes"}
      /\ Status(k[1]) # "Absent"
  BY DEF bounty_done, Running, Status
<1>2. \/ ResetBounty(k, "Expired", FALSE) /\ UNCHANGED calls
      \/ /\ claims[k].status = "Competes"
         /\ bounties' = [bounties EXCEPT ![k[1]] = Left(bounties[k[1]], k)]
         /\ CloseClaim(k, "NotCompleted", TRUE) /\ UNCHANGED calls
      \/ /\ Send(calls, call) /\ UNCHANGED bounties /\ UNCHANGED claims
         /\ UNCHANGED bonds
      \/ ProposeOrFinish(calls, k) /\ ~KycAtDone(k)
  BY Zenon DEF bounty_done
<1>3. PlainCall(call) /\ Carried(calls)
  BY <1>1, CarriedCalls DEF PlainCall, Fit
<1> HIDE DEF call
<1>4. CASE ResetBounty(k, "Expired", FALSE) /\ UNCHANGED calls
  BY <1>1, <1>4, ResetEvent, CarriedCalls DEF CheckedStep
<1>5. CASE /\ claims[k].status = "Competes"
           /\ bounties' = [bounties EXCEPT ![k[1]] = Left(bounties[k[1]], k)]
           /\ CloseClaim(k, "NotCompleted", TRUE) /\ UNCHANGED calls
  <2>1. bounties[k[1]].terms.mode = "Contest"
    BY <1>5 DEF Course, ClaimFits
  <2> QED BY <1>5, <2>1, LeaveEvent, CarriedCalls DEF CheckedStep
<1>6. CASE /\ Send(calls, call) /\ UNCHANGED bounties /\ UNCHANGED claims
           /\ UNCHANGED bonds
  BY <1>3, <1>6, BondsKept, SentEvent DEF CheckedStep
<1>7. CASE ProposeOrFinish(calls, k) /\ ~KycAtDone(k)
  <2>1. HandsIn(calls, k)
    BY <1>7, FinishKeeps DEF HandsIn
  <2>2. Checked(calls, k, asked)
    BY <1>1, <1>7, <2>1 DEF Checked
  <2> QED BY <1>3, <2>2 DEF CheckedStep
<1> QED BY <1>2, <1>4, <1>5, <1>6, <1>7

(* bounty_give_up                                                          *)
LEMMA GiveUpEvent ==
  ASSUME Course, NEW k \in ClaimKey, bounty_give_up(k)
  PROVE  PlainStep /\ Carried(calls')
<1> DEFINE forgiven == now - StartTime(claims[k], bounties[k[1]])
                         <= config.forgiveness
<1>1. /\ UNCHANGED calls
      /\ \/ /\ claims[k].status \in {"InProgress", "Competes"}
            /\ ResetBounty(k, "Canceled", forgiven)
         \/ /\ claims[k].status # "InProgress"
            /\ IF claims[k].status = "New" THEN UNCHANGED bounties
               ELSE bounties' =
                      [bounties EXCEPT ![k[1]] = Left(bounties[k[1]], k)]
            /\ CloseClaim(k, "Canceled", TRUE)
  BY Zenon DEF bounty_give_up
<1>2. \/ claims[k].status \in {"New", "InProgress", "Competes", "ReadyToStart"}
      \/ /\ claims[k].status = "Completed"
         /\ bounties[k[1]].terms.mode = "Contest"
  BY DEF bounty_give_up
<1> HIDE DEF forgiven
<1>3. CASE /\ claims[k].status \in {"InProgress", "Competes"}
           /\ ResetBounty(k, "Canceled", forgiven)
  BY <1>1, <1>3, ResetEvent, CarriedCalls
<1>4. CASE /\ claims[k].status # "InProgress"
           /\ IF claims[k].status = "New" THEN UNCHANGED bounties
              ELSE bounties' =
                     [bounties EXCEPT ![k[1]] = Left(bounties[k[1]], k)]
           /\ CloseClaim(k, "Canceled", TRUE)
  <2>1. claims[k].status = "Competes" => bounties[k[1]].terms.mode = "Contest"
    BY DEF Course, ClaimFits
  <2>2. PlainStep
    BY <1>2, <1>4, <2>1, DeclineEvent, LeaveEvent
  <2> QED BY <1>1, <2>2, CarriedCalls
<1> QED BY <1>1, <1>3, <1>4

(* withdraw                                                                *)
LEMMA WithdrawEvent ==
  ASSUME Course, Shape', NEW k \in ClaimKey, withdraw(k)
  PROVE  PlainStep /\ Carried(calls')
<1>1. PICK slot :
         /\ slot = claims[k].slot
         /\ bounties[k[1]].terms.mode = "DifferentTasks"
         /\ bounties[k[1]].status = "Completed"
         /\ claims[k].status \in {"Completed", "CompletedWithDispute"}
         /\ bounties[k[1]].slots[slot] # Nil
         /\ \/ /\ SlotFinalize(k, slot) /\ UNCHANGED calls
               /\ bounties[k[1]].terms.postpaid
            \/ /\ ~bounties[k[1]].terms.postpaid
               /\ \E a : /\ Send(calls, [kind |-> "withdraw", claim |-> k,
                                         slot |-> slot, amount |-> a])
                         /\ a \in Nat /\ a = PartialAmount(k, slot)
                         /\ UNCHANGED <<bounties, claims, bonds>>
  BY Zenon DEF withdraw
<1>2. Finished(k[1])
  BY <1>1, KeyType DEF Course, TasksRun, HasMode, Status, Mode
<1>3. CASE /\ SlotFinalize(k, slot) /\ UNCHANGED calls
           /\ bounties[k[1]].terms.postpaid
  BY <1>1, <1>2, <1>3, SlotEvent, CarriedCalls
<1>4. ASSUME ~bounties[k[1]].terms.postpaid,
             NEW a \in Nat, a = PartialAmount(k, slot),
             Send(calls, [kind |-> "withdraw", claim |-> k,
                          slot |-> slot, amount |-> a]),
             UNCHANGED <<bounties, claims, bonds>>
      PROVE  PlainStep /\ Carried(calls')
  <2> DEFINE call == [kind |-> "withdraw", claim |-> k, slot |-> slot,
                      amount |-> a]
  <2>3. a >= Price(bounties[k[1]], slot)
    <3>1. /\ bounties[k[1]] \in Bounty /\ slot \in UsedPlaces(bounties[k[1]])
          /\ SharesFit(bounties[k[1]])
      BY <1>1, Stored, KeyType
         DEF Course, Work, Shape, SlotsNamed, SharesWhole, HasMode, Status, Mode
    <3> HIDE DEF call
    <3> QED BY <1>1, <1>4, <3>1, PartialPrice
  <2>1. PlainCall(call) /\ Carried(calls)
    BY <1>1, <1>2, <1>4, <2>3, CarriedCalls DEF PlainCall, Fit, Status, Mode
  <2>2. Send(calls, call) /\ KeepsBonds
    BY <1>4, BondsKept
  <2> HIDE DEF call
  <2> QED BY <1>4, <2>1, <2>2, SentEvent
<1> QED BY <1>1, <1>3, <1>4

(* open_dispute and dispute_result                                         *)
LEMMA DisputeEvents ==
  ASSUME Course, Shape', NEW k \in ClaimKey,
         open_dispute(k) \/ \E success \in BOOLEAN : dispute_result(k, success)
  PROVE  PlainStep /\ Carried(calls')
<1>0. Carried(calls)
  BY CarriedCalls
<1>1. CASE open_dispute(k)
  <2> DEFINE call == [kind |-> "createDispute", claim |-> k]
  <2>1. /\ Send(calls, call) /\ UNCHANGED bounties /\ UNCHANGED claims
        /\ KeepsBonds
    BY <1>1, BondsKept DEF open_dispute
  <2>2. PlainCall(call)
    BY DEF PlainCall, Fit
  <2> HIDE DEF call
  <2> QED BY <1>0, <2>1, <2>2, SentEvent
<1>2. ASSUME NEW success, dispute_result(k, success)
      PROVE  PlainStep /\ Carried(calls')
  BY <1>0, <1>2, SettleEvent DEF dispute_result
<1> QED BY <1>1, <1>2

(* extend_claim_deadline, mark_as_paid, confirm_payment                    *)
LEMMA NoteEvents ==
  ASSUME Course, NEW k \in ClaimKey, Notes(k)
  PROVE  PlainStep /\ Carried(calls')
<1>1. UNCHANGED calls /\ UNCHANGED bonds
  BY DEF Notes, extend_claim_deadline, mark_as_paid, confirm_payment
<1>2. KeepsBonds
  BY <1>1, BondsKept
<1> QED BY <1>1, <1>2, CarriedCalls DEF PlainStep, PlainEvent

(* internal_finalize_active_claim                                          *)
LEMMA FinalizeActiveEvent ==
  ASSUME Course, Shape', NEW k \in ClaimKey, FinalizeActive(k)
  PROVE  PlainStep /\ Carried(calls')
<1> DEFINE isTask == bounties[k[1]].terms.mode = "DifferentTasks"
           call == [kind |-> "getDispute", claim |-> k]
<1>0. Carried(calls)
  BY CarriedCalls
<1>1. \/ Overdue(k) /\ ResetBounty(k, "Expired", FALSE) /\ UNCHANGED calls
      \/ AwaitsDao(k) /\ AskPayoutProposal(k[1], IF isTask THEN Nil ELSE k)
      \/ /\ claims[k].status = "Rejected" /\ bounties[k[1]].status \in Running
         /\ ResetBounty(k, "NotCompleted", TRUE) /\ UNCHANGED calls
      \/ /\ Send(calls, call) /\ UNCHANGED bounties /\ UNCHANGED claims
         /\ UNCHANGED bonds
  BY Zenon DEF FinalizeActive
<1>2. PlainCall(call)
  BY DEF PlainCall, Fit
<1> HIDE DEF call
<1>3. CASE Overdue(k) /\ ResetBounty(k, "Expired", FALSE) /\ UNCHANGED calls
  <2>1. claims[k].status \in {"InProgress", "Competes"}
    BY <1>3 DEF Overdue
  <2> QED BY <1>3, <2>1, ResetEvent, CarriedCalls
<1>4. CASE AwaitsDao(k) /\ AskPayoutProposal(k[1], IF isTask THEN Nil ELSE k)
  <2>1. PICK j : j = (IF isTask THEN Nil ELSE k)
    OBVIOUS
  <2>2. /\ AskPayoutProposal(k[1], j)
        /\ j = Nil => bounties[k[1]].terms.mode = "DifferentTasks"
    BY <1>4, <2>1, NilAssumption
  <2>3. bounties[k[1]].status # "Absent" /\ bounties[k[1]].terms.dao
    BY <1>4 DEF AwaitsDao, Running
  <2> QED BY <2>2, <2>3, AskEvent
<1>5. CASE /\ claims[k].status = "Rejected"
           /\ bounties[k[1]].status \in Running
           /\ ResetBounty(k, "NotCompleted", TRUE) /\ UNCHANGED calls
  BY <1>5, ResetEvent, CarriedCalls
<1>6. CASE /\ Send(calls, call) /\ UNCHANGED bounties /\ UNCHANGED claims
           /\ UNCHANGED bonds
  BY <1>0, <1>2, <1>6, BondsKept, SentEvent
<1> QED BY <1>1, <1>3, <1>4, <1>5, <1>6

(* The rest of internal_finalize_some_claim                                *)
LEMMA FinalizeInactiveEvent ==
  ASSUME Course, Shape', NEW k \in ClaimKey, FinalizeInactive(k)
  PROVE  PlainStep /\ Carried(calls')
<1> DEFINE call == [kind |-> "checkClaimantProposal", claim |-> k]
<1>1. PICK s : s = IF bounties[k[1]].status = "Canceled" THEN "Canceled"
                                                         ELSE "NotCompleted"
  OBVIOUS
<1>2. \/ /\ Send(calls, call) /\ UNCHANGED bounties /\ UNCHANGED claims
         /\ UNCHANGED bonds
         /\ bounties[k[1]].status = "New" /\ bounties[k[1]].terms.dao
      \/ /\ claims[k].status = "New" /\ CloseClaim(k, "Canceled", TRUE)
         /\ UNCHANGED bounties /\ UNCHANGED calls
      \/ /\ \/ /\ bounties[k[1]].terms.mode = "Contest"
               /\ claims[k].status \in {"Competes", "Completed"}
            \/ /\ bounties[k[1]].status = "Canceled"
               /\ claims[k].status = "ReadyToStart"
         /\ bounties' = [bounties EXCEPT ![k[1]] = Left(bounties[k[1]], k)]
         /\ CloseClaim(k, s, TRUE) /\ UNCHANGED calls
  BY <1>1, Zenon DEF FinalizeInactive
<1>3. CASE /\ Send(calls, call) /\ UNCHANGED bounties /\ UNCHANGED claims
           /\ UNCHANGED bonds
           /\ bounties[k[1]].status = "New" /\ bounties[k[1]].terms.dao
  <2>1. bounties[k[1]].terms.flow = "AdvancedFlow"
    BY <1>3, KeyType DEF Course, StatusFits
  <2>2. PlainCall(call) /\ Carried(calls)
    BY <1>3, <2>1, CarriedCalls DEF PlainCall, Fit, Status
  <2>3. KeepsBonds
    BY <1>3, BondsKept
  <2> HIDE DEF call
  <2> QED BY <1>3, <2>2, <2>3, SentEvent
<1>4. CASE /\ claims[k].status = "New" /\ CloseClaim(k, "Canceled", TRUE)
           /\ UNCHANGED bounties /\ UNCHANGED calls
  BY <1>4, DeclineEvent, CarriedCalls
<1>5. CASE /\ \/ /\ bounties[k[1]].terms.mode = "Contest"
                 /\ claims[k].status \in {"Competes", "Completed"}
              \/ /\ bounties[k[1]].status = "Canceled"
                 /\ claims[k].status = "ReadyToStart"
           /\ bounties' = [bounties EXCEPT ![k[1]] = Left(bounties[k[1]], k)]
           /\ CloseClaim(k, s, TRUE) /\ UNCHANGED calls
  BY <1>1, <1>5, LeaveEvent, CarriedCalls
<1> QED BY <1>2, <1>3, <1>4, <1>5

(* accept_claimant and decline_claimant                                    *)
LEMMA ClaimantDecisionEvents ==
  ASSUME Course, Shape', NEW k \in ClaimKey, NEW sender, NEW asked,
         \/ \E delayed \in Deferments \cup {Nil} :
               accept_claimant(sender, k, delayed)
         \/ decline_claimant(sender, k)
  PROVE  CheckedStep(asked)
<1>1. ASSUME NEW delayed \in Deferments \cup {Nil},
             accept_claimant(sender, k, delayed)
      PROVE  CheckedStep(asked)
  <2> DEFINE call == [kind |-> "kyc", claim |-> k, place |-> "DecisionOnClaim",
                      deadline |-> Nil, slot |-> Nil, delayed |-> Nil]
  <2>1. /\ MayDecide(k) /\ bounties[k[1]].terms.flow = "AdvancedFlow"
        /\ \/ Send(calls, call) /\ UNCHANGED bounties /\ UNCHANGED claims
           \/ /\ ApproveClaimant(k, claims[k], delayed) /\ UNCHANGED calls
              /\ bounties[k[1]].terms.kyc = "DuringClaimApproval" =>
                   delayed # Nil
        /\ UNCHANGED bonds
    BY <1>1, Zenon DEF accept_claimant
  <2>2. Status(k[1]) # "Absent"
    BY <2>1, MayDecideFacts DEF Course, Work, Status
  <2>3. PlainCall(call) /\ Carried(calls)
    BY <2>1, <2>2, CarriedCalls DEF PlainCall, Fit
  <2>4. KeepsBonds
    BY <2>1, BondsKept
  <2> HIDE DEF call
  <2>5. CASE Send(calls, call) /\ UNCHANGED bounties /\ UNCHANGED claims
    BY <2>3, <2>4, <2>5, SentEvent DEF CheckedStep
  <2>6. CASE /\ ApproveClaimant(k, claims[k], delayed) /\ UNCHANGED calls
             /\ bounties[k[1]].terms.kyc = "DuringClaimApproval" =>
                  delayed # Nil
    <3>1. Engages(calls, k, delayed)
      BY <2>1, <2>4, <2>6 DEF Engages
    <3>2. Checked(calls, k, asked)
      BY <2>2, <2>6, <3>1 DEF Checked
    <3> QED BY <2>3, <3>2 DEF CheckedStep
  <2> QED BY <2>1, <2>5, <2>6
<1>2. CASE decline_claimant(sender, k)
  <2>1. /\ claims[k].status = "New" /\ CloseClaim(k, "NotHired", TRUE)
        /\ UNCHANGED bounties /\ UNCHANGED calls
    BY <1>2 DEF decline_claimant, DeclineClaimant, MayDecide
  <2> QED BY <2>1, DeclineEvent, CarriedCalls DEF CheckedStep
<1> QED BY <1>1, <1>2

(* bounty_approve and bounty_reject                                        *)
LEMMA WorkDecisionEvents ==
  ASSUME Course, Shape', NEW k \in ClaimKey, NEW sender,
         \/ \E place \in UsedPlaces(bounties[k[1]]) \cup {Nil} :
               bounty_approve(sender, k, place)
         \/ bounty_reject(sender, k)
  PROVE  PlainStep /\ Carried(calls')
<1>1. ASSUME NEW place \in UsedPlaces(bounties[k[1]]) \cup {Nil},
             bounty_approve(sender, k, place)
      PROVE  PlainStep /\ Carried(calls')
  <2>1. place \in Places \cup {Nil} /\ k[1] \in BountyId
    BY <1>1, UsedPlacesType, Stored
  <2>2. /\ Payout(calls, k[1], k, place) /\ Carried(calls)
        /\ PostpaidReady(k) /\ bounties[k[1]].terms.mode # "DifferentTasks"
        /\ bounties[k[1]].status # "Absent"
    BY <1>1, CarriedCalls DEF bounty_approve, Running
  <2> QED BY <2>1, <2>2, PayoutEvent
<1>2. CASE bounty_reject(sender, k)
  <2>1. /\ RejectClaim(k) /\ claims[k].status = "Completed"
        /\ bounties[k[1]].status \in Running /\ UNCHANGED calls
        /\ bounties[k[1]].terms.postpaid =>
             ~PaymentMade(bounties[k[1]], claims[k])
    BY <1>2 DEF bounty_reject, MayReject
  <2> QED BY <2>1, RejectEvent, CarriedCalls
<1> QED BY <1>1, <1>2

(* The calls that name a claim.                                            *)
LEMMA OnClaimEvents ==
  ASSUME Course, Shape', NEW k \in ClaimKey, OnClaim(k), NEW asked
  PROVE  CheckedStep(asked)
<1>1. CASE bounty_finalize(k)
  BY <1>1, FinalizeActiveEvent, FinalizeInactiveEvent
     DEF bounty_finalize, CheckedStep
<1>2. ASSUME NEW sender \in Accounts,
             \/ \E delayed \in Deferments \cup {Nil} :
                   accept_claimant(sender, k, delayed)
             \/ decline_claimant(sender, k)
             \/ \E place \in UsedPlaces(bounties[k[1]]) \cup {Nil} :
                   bounty_approve(sender, k, place)
             \/ bounty_reject(sender, k)
      PROVE  CheckedStep(asked)
  BY <1>2, ClaimantDecisionEvents, WorkDecisionEvents DEF CheckedStep
<1>3. Notes(k) => CheckedStep(asked)
  BY NoteEvents DEF CheckedStep
<1>4. bounty_done(k) => CheckedStep(asked)
  BY DoneEvent
<1>5. \/ bounty_give_up(k) \/ withdraw(k) \/ open_dispute(k)
      \/ \E success \in BOOLEAN : dispute_result(k, success)
      => CheckedStep(asked)
  BY GiveUpEvent, WithdrawEvent, DisputeEvents DEF CheckedStep
<1> QED BY <1>1, <1>2, <1>3, <1>4, <1>5 DEF OnClaim, ClaimCall, Notes

(* The callbacks of the transfers to a claimant.                           *)
LEMMA TransferEvents ==
  ASSUME Course, Shape', NEW i \in 1 .. Len(calls),
         after_ft_transfer(i) \/ after_bounty_withdraw(i)
  PROVE  PlainStep /\ Carried(calls')
<1>0. /\ Carried(Answered(i)) /\ Fit(calls[i])
      /\ Sound(calls[i]) /\ calls[i] \in Calls
  BY CarriedLeft
<1>1. CASE after_ft_transfer(i)
  <2>1. PICK id, k, amounts, place :
           /\ calls[i].kind = "payout" /\ calls' = Answered(i)
           /\ id = calls[i].id /\ k = calls[i].claim
           /\ amounts = calls[i].amounts /\ place = calls[i].place
           /\ paid' = [paid EXCEPT ![k] = paid[k] + amounts.pay]
           /\ \/ MayComplete(id, k, amounts, place)
                 /\ Complete(id, k, amounts, place)
              \/ UNCHANGED <<bounties, claims, bonds, fees>>
    BY <1>1, Zenon DEF after_ft_transfer
  <2>2. id \in BountyId /\ place \in Places \cup {Nil}
    BY <1>0, <2>1, CallFacts
  <2>3. k \in ClaimKey /\ k[1] = id /\ ~bounties[id].terms.postpaid
    BY <1>0, <2>1 DEF Sound, Fit
  <2>4. /\ PaidFor(k, Price(bounties[id], place))
        /\ bounties[id].terms.mode = "Contest" => place # Nil
    BY <1>0, <2>1 DEF Fit, Mode, PaidFor
  <2>5. PlainStep
    BY <2>1, <2>2, <2>3, <2>4, CompleteEvent, BondsKept DEF PlainStep
  <2> QED BY <1>0, <2>1, <2>5
<1>2. CASE after_bounty_withdraw(i)
  <2>1. PICK k, slot :
           /\ calls[i].kind = "withdraw" /\ calls' = Answered(i)
           /\ k = calls[i].claim /\ slot = calls[i].slot
           /\ paid' = [paid EXCEPT ![k] = paid[k] + calls[i].amount]
           /\ \/ /\ claims[k].status \in {"Completed", "CompletedWithDispute"}
                 /\ SlotFinalize(k, slot)
              \/ UNCHANGED <<bounties, claims, bonds>>
    BY <1>2, Zenon DEF after_bounty_withdraw
  <2>2. k \in ClaimKey
    BY <1>0, <2>1, CallFacts
  <2>3. /\ slot = claims[k].slot /\ Finished(k[1])
        /\ bounties[k[1]].terms.mode = "DifferentTasks"
        /\ ~bounties[k[1]].terms.postpaid
        /\ PaidFor(k, Price(bounties[k[1]], slot))
    BY <1>0, <2>1 DEF Fit, Mode, PaidFor
  <2>4. PlainStep
    BY <2>1, <2>2, <2>3, SlotEvent, BondsKept DEF PlainStep
  <2> QED BY <1>0, <2>1, <2>4
<1> QED BY <1>1, <1>2

(* A callback that fails, and those of the transfers to the owner and to   *)
(* the recipients of the fees.                                             *)
LEMMA OwnersAnswerEvents ==
  ASSUME Course, Shape', NEW i \in 1 .. Len(calls),
         \/ Drop(i) \/ after_fees_payout(i)
         \/ after_refund_bounty_amount(i)
  PROVE  PlainStep /\ Carried(calls')
<1>0. /\ Carried(Answered(i)) /\ Fit(calls[i])
      /\ Sound(calls[i]) /\ calls[i] \in Calls
  BY CarriedLeft
<1>1. calls' = Answered(i) /\ UNCHANGED claims /\ KeepsBonds
  BY BondsKept DEF Drop, after_fees_payout, after_refund_bounty_amount
<1>2. CASE Drop(i) \/ after_fees_payout(i)
  BY <1>0, <1>1, <1>2 DEF Drop, after_fees_payout, PlainStep
<1>3. CASE after_refund_bounty_amount(i)
  <2>1. PICK id, a :
           /\ calls[i].kind = "refund" /\ id = calls[i].id
           /\ a = calls[i].amount
           /\ refunded' = [refunded EXCEPT ![id] = refunded[id] + a]
           /\ Cancellation(id) \/ UNCHANGED bounties
    BY <1>3, Zenon DEF after_refund_bounty_amount
  <2>2. id \in BountyId /\ bounties[id].status # "Absent" /\ a \in Nat /\ a # 0
    BY <1>0, <2>1, CallFacts DEF Sound, Fit, Status
  <2>3. refunded \in [BountyId -> Int]
    BY DEF Course, Work, Shape, TypeOK
  <2>4. refunded'[id] # refunded[id]
    BY <2>1, <2>2, <2>3
  <2>5. PlainStep
    BY <1>1, <2>1, <2>2, <2>4, CancelEvent DEF PlainStep
  <2> QED BY <1>0, <1>1, <2>5
<1> QED BY <1>2, <1>3

(* after_check_if_whitelisted                                              *)
LEMMA KycAnswerEvents ==
  ASSUME Course, Shape', NEW i \in 1 .. Len(calls),
         after_check_if_whitelisted(i), NEW asked, Whitelisted(i, asked)
  PROVE  CheckedStep(asked)
<1>0. Carried(Answered(i)) /\ Fit(calls[i]) /\ calls[i] \in Calls
  BY CarriedLeft
<1>1. PICK k, deadline, slot, delayed :
         /\ k = calls[i].claim /\ deadline = calls[i].deadline
         /\ slot = calls[i].slot /\ delayed = calls[i].delayed
  OBVIOUS
<1>2. /\ k \in ClaimKey /\ deadline \in Nat \cup {Nil}
      /\ slot \in Places \cup {Nil} /\ delayed \in Deferments \cup {Nil}
  BY <1>0, <1>1, CallFacts DEF after_check_if_whitelisted
<1>9. <<k[1], k[2]>> \in asked /\ Status(k[1]) # "Absent"
  BY <1>0, <1>1 DEF Whitelisted, Fit, after_check_if_whitelisted
<1> DEFINE j == NextKey(k[1], k[2])
<1>3. \/ /\ j \in ClaimKey
         /\ calls[i].kind = "kyc" /\ calls[i].place = "CreatingClaim"
         /\ \/ /\ bounties[k[1]].terms.dao
               /\ ApprovalRequired(k[2], bounties[k[1]].terms)
            \/ MayCreateClaim(k[1], k[2], slot)
         /\ ProposeOrCreateClaim(Answered(i), j, deadline, slot, 0)
      \/ /\ calls[i].kind = "kyc" /\ calls[i].place = "DecisionOnClaim"
         /\ MayDecide(k) /\ ApproveClaimant(k, claims[k], delayed)
         /\ calls' = Answered(i) /\ UNCHANGED bonds
      \/ ProposeOrFinish(Answered(i), k)
  BY <1>1, Zenon DEF after_check_if_whitelisted
<1>4. j[1] = k[1] /\ j[2] = k[2]
  BY DEF NextKey
<1>5. MayCreateClaim(k[1], k[2], slot) => Fresh(j, slot)
  BY <1>4 DEF Fresh
<1> HIDE DEF j
<1>6. CASE /\ j \in ClaimKey
           /\ calls[i].kind = "kyc" /\ calls[i].place = "CreatingClaim"
           /\ \/ /\ bounties[k[1]].terms.dao
                 /\ ApprovalRequired(k[2], bounties[k[1]].terms)
              \/ MayCreateClaim(k[1], k[2], slot)
           /\ ProposeOrCreateClaim(Answered(i), j, deadline, slot, 0)
  <2>3. Vouched(j)
    BY <1>0, <1>1, <1>4, <1>6 DEF Fit, Vouched, Direct
  <2>1. Makes(Answered(i), j)
    BY <1>2, <1>4, <1>5, <1>6, <2>3 DEF Makes
  <2>2. Checked(Answered(i), j, asked)
    BY <1>4, <1>9, <2>1 DEF Checked
  <2> QED BY <1>0, <1>6, <2>2 DEF CheckedStep
<1>7. CASE /\ calls[i].kind = "kyc" /\ calls[i].place = "DecisionOnClaim"
           /\ MayDecide(k) /\ ApproveClaimant(k, claims[k], delayed)
           /\ calls' = Answered(i) /\ UNCHANGED bonds
  <2>1. bounties[k[1]].terms.flow = "AdvancedFlow"
    BY <1>0, <1>1, <1>7 DEF Fit
  <2>2. Engages(Answered(i), k, delayed)
    BY <1>7, <2>1, BondsKept DEF Engages
  <2>3. Checked(Answered(i), k, asked)
    BY <1>2, <1>9, <2>2 DEF Checked
  <2> QED BY <1>0, <1>2, <2>3 DEF CheckedStep
<1>8. CASE ProposeOrFinish(Answered(i), k)
  <2>1. HandsIn(Answered(i), k)
    BY <1>8, FinishKeeps DEF HandsIn
  <2>2. Checked(Answered(i), k, asked)
    BY <1>9, <2>1 DEF Checked
  <2> QED BY <1>0, <1>2, <2>2 DEF CheckedStep
<1> QED BY <1>3, <1>6, <1>7, <1>8

(* The callbacks of the proposals that the DAO has stored.                 *)
LEMMA ProposalEvents ==
  ASSUME Course, Shape', NEW i \in 1 .. Len(calls),
         after_add_proposal(i) \/ on_added_proposal_callback(i),
         NEW asked, Proposed(asked)
  PROVE  CheckedStep(asked)
<1>0. Carried(Answered(i)) /\ Fit(calls[i]) /\ calls[i] \in Calls
  BY CarriedLeft
<1>1. CASE after_add_proposal(i)
  <2>1. PICK k, deadline, slot :
           /\ k = calls[i].claim /\ deadline = calls[i].deadline
           /\ slot = calls[i].slot
    OBVIOUS
  <2> DEFINE j == NextKey(k[1], k[2])
  <2>2. /\ MayCreateClaim(k[1], k[2], slot)
        /\ CreateClaim(j, deadline, slot, TRUE, 0)
        /\ calls' = Answered(i)
    BY <1>1, <2>1 DEF after_add_proposal
  <2>3. /\ k \in ClaimKey /\ deadline \in Nat \cup {Nil}
        /\ slot \in Places \cup {Nil}
    BY <1>0, <1>1, <2>1, CallFacts DEF after_add_proposal
  <2>4. /\ j \in ClaimKey /\ Fresh(j, slot)
        /\ j[1] = k[1] /\ j[2] = k[2]
    BY <2>2 DEF MayCreateClaim, NextKey, Fresh
  <2>5. /\ Status(k[1]) # "Absent"
        /\ bounties[k[1]].terms.kyc = "WhenCreatingClaim" =>
             <<k[1], k[2]>> \in asked
    BY <1>0, <1>1, <2>1 DEF Fit, Proposed, after_add_proposal
  <2> HIDE DEF j
  <2>8. Vouched(j)
    BY <1>0, <1>1, <2>1, <2>4 DEF Fit, Vouched, Direct, after_add_proposal
  <2>6. Makes(Answered(i), j)
    BY <2>2, <2>3, <2>4, <2>8 DEF Makes
  <2>7. Checked(Answered(i), j, asked)
    BY <2>4, <2>5, <2>6 DEF Checked
  <2> QED BY <1>0, <2>4, <2>7 DEF CheckedStep
<1>2. CASE on_added_proposal_callback(i)
  <2>1. PICK k : k = calls[i].claim
    OBVIOUS
  <2>2. k \in ClaimKey
    BY <1>0, <1>2, <2>1, CallFacts DEF on_added_proposal_callback
  <2>3. HandsIn(Answered(i), k)
    BY <1>2, <2>1, BondsKept DEF on_added_proposal_callback, HandsIn
  <2>4. Status(k[1]) # "Absent" /\ bounties[k[1]].terms.dao
    BY <1>0, <1>2, <2>1 DEF on_added_proposal_callback, Fit
  <2>5. Checked(Answered(i), k, asked)
    BY <2>3, <2>4 DEF Checked
  <2> QED BY <1>0, <2>2, <2>5 DEF CheckedStep
<1> QED BY <1>1, <1>2

(* The callbacks of the votes of the DAO.                                  *)
LEMMA VoteEvents ==
  ASSUME Course, Shape', NEW i \in 1 .. Len(calls), NEW approved \in BOOLEAN,
         \/ after_check_approve_claimant_proposal(i, approved)
         \/ after_check_bounty_payout_proposal(i, approved),
         NEW asked
  PROVE  CheckedStep(asked)
<1>0. /\ Carried(Answered(i)) /\ Fit(calls[i])
      /\ Sound(calls[i]) /\ calls[i] \in Calls
  BY CarriedLeft
<1>1. CASE after_check_approve_claimant_proposal(i, approved)
  <2>1. PICK k : k = calls[i].claim
    OBVIOUS
  <2>2. /\ k \in ClaimKey /\ calls' = Answered(i)
        /\ bounties[k[1]].terms.flow = "AdvancedFlow"
        /\ bounties[k[1]].terms.dao /\ Status(k[1]) # "Absent"
        /\ \/ /\ MayDecide(k) /\ ApproveClaimant(k, claims[k], Nil)
              /\ UNCHANGED bonds
           \/ DeclineClaimant(k)
    BY <1>0, <1>1, <2>1, CallFacts
       DEF after_check_approve_claimant_proposal, Fit
  <2>3. DeclineClaimant(k) =>
          /\ claims[k].status = "New" /\ CloseClaim(k, "NotHired", TRUE)
          /\ UNCHANGED bounties
    BY DEF DeclineClaimant, MayDecide
  <2>4. CASE /\ MayDecide(k) /\ ApproveClaimant(k, claims[k], Nil)
             /\ UNCHANGED bonds
    <3>1. Engages(Answered(i), k, Nil)
      BY <2>2, <2>4, BondsKept DEF Engages
    <3>2. Checked(Answered(i), k, asked)
      BY <2>2, <3>1 DEF Checked
    <3> QED BY <1>0, <2>2, <3>2 DEF CheckedStep
  <2>5. CASE DeclineClaimant(k)
    BY <1>0, <2>2, <2>3, <2>5, DeclineEvent DEF CheckedStep
  <2> QED BY <2>2, <2>4, <2>5
<1>2. CASE after_check_bounty_payout_proposal(i, approved)
  <2>1. PICK id, k :
           /\ calls[i].kind = "checkPayoutProposal"
           /\ id = calls[i].id /\ k = calls[i].claim
           /\ \/ Payout(Answered(i), id, k, Nil)
              \/ /\ k # Nil /\ claims[k].status = "Completed"
                 /\ bounties[id].status \in Running
                 /\ RejectClaim(k) /\ calls' = Answered(i)
    BY <1>2, Zenon DEF after_check_bounty_payout_proposal
  <2>2. id \in BountyId
    BY <1>0, <2>1, CallFacts
  <2>3. /\ \/ k \in ClaimKey /\ k[1] = id
           \/ k = Nil /\ bounties[id].terms.mode = "DifferentTasks"
        /\ bounties[id].terms.dao /\ bounties[id].status # "Absent"
    BY <1>0, <2>1 DEF Sound, Fit, Status, Mode
  <2>4. CASE Payout(Answered(i), id, k, Nil)
    BY <1>0, <2>2, <2>3, <2>4, PayoutEvent DEF CheckedStep
  <2>5. CASE /\ k # Nil /\ claims[k].status = "Completed"
             /\ bounties[id].status \in Running
             /\ RejectClaim(k) /\ calls' = Answered(i)
    <3>1. k \in ClaimKey /\ k[1] = id
      BY <2>3, <2>5
    <3> QED BY <1>0, <2>3, <2>5, <3>1, RejectEvent DEF CheckedStep
  <2> QED BY <2>1, <2>4, <2>5
<1> QED BY <1>1, <1>2

(* after_create_dispute and after_get_dispute                              *)
LEMMA DisputeAnswerEvents ==
  ASSUME Course, Shape', NEW i \in 1 .. Len(calls),
         \/ after_create_dispute(i)
         \/ \E success \in BOOLEAN : after_get_dispute(i, success)
  PROVE  PlainStep /\ Carried(calls')
<1>0. Carried(Answered(i)) /\ calls[i] \in Calls
  BY CarriedLeft
<1>1. PICK k : k = calls[i].claim
  OBVIOUS
<1>2. k \in ClaimKey
  BY <1>0, <1>1, CallFacts DEF after_create_dispute, after_get_dispute
<1>3. CASE after_create_dispute(i)
  <2>1. Argues(k) /\ calls' = Answered(i) /\ UNCHANGED bonds
    BY <1>1, <1>3, Zenon DEF after_create_dispute, Argues, Closes
  <2>2. KeepsBonds
    BY <2>1, BondsKept
  <2> QED BY <1>0, <1>2, <2>1, <2>2 DEF PlainStep, PlainEvent
<1>4. ASSUME NEW success \in BOOLEAN, after_get_dispute(i, success)
      PROVE  PlainStep /\ Carried(calls')
  <2>1. /\ claims[k].status = "Disputed" /\ bounties[k[1]].status \in Running
        /\ SettleDispute(Answered(i), k, success)
    BY <1>1, <1>4 DEF after_get_dispute
  <2> QED BY <1>0, <1>2, <2>1, SettleEvent
<1> QED BY <1>3, <1>4

(* Every callback does without a KYC check, or with one that was made, ... *)
LEMMA AnswerChecked ==
  ASSUME Course, Shape', NEW i \in 1 .. Len(calls), Answer(i),
         NEW asked, Proposed(asked), Whitelisted(i, asked)
  PROVE  CheckedStep(asked)
<1>1. \/ Drop(i) \/ after_fees_payout(i) \/ after_refund_bounty_amount(i)
      \/ after_ft_transfer(i) \/ after_bounty_withdraw(i)
      \/ after_create_dispute(i)
      \/ \E success \in BOOLEAN : after_get_dispute(i, success)
      => CheckedStep(asked)
  BY OwnersAnswerEvents, TransferEvents, DisputeAnswerEvents DEF CheckedStep
<1> QED BY <1>1, KycAnswerEvents, ProposalEvents, VoteEvents DEF Answer

(* ... and so does everything else that the contract does, ...             *)
LEMMA OwnChecked ==
  ASSUME Course, Shape', NEW asked,
         \/ Tick \/ change_config \/ withdraw_non_refunded_bonds
         \/ withdraw_platform_fee \/ withdraw_validators_dao_fee
         \/ \E id \in BountyId : OnBounty(id)
         \/ \E k \in ClaimKey : OnClaim(k)
         \/ UNCHANGED vars
  PROVE  CheckedStep(asked)
<1>1. CASE UNCHANGED vars
  <2>1. /\ UNCHANGED bounties /\ UNCHANGED claims /\ UNCHANGED calls
        /\ KeepsBonds
    BY <1>1, BondsKept DEF vars
  <2> QED BY <2>1, CalmEvent DEF CheckedStep
<1> QED BY <1>1, SystemEvents, OnBountyEvents, OnClaimEvents DEF CheckedStep

(* ... which makes every step.                                             *)
LEMMA StepsChecked ==
  ASSUME Course, [Next]_vars, NEW asked, Proposed(asked),
         \A i \in 1 .. Len(calls) : Whitelisted(i, asked)
  PROVE  CheckedStep(asked) /\ Work' /\ Shape' /\ BountiesMove
<1>1. Work' /\ Shape' /\ BountiesMove
  BY NextSteps DEF Course, Work
<1> QED BY <1>1, AnswerChecked, OwnChecked DEF Next

(* Every step is checked, if not with the answers then with all accounts.  *)
LEMMA EventsChecked ==
  ASSUME Course, [Next]_vars
  PROVE  /\ \E asked : CheckedStep(asked)
         /\ Work' /\ Shape' /\ BountiesMove
<1> DEFINE everybody == {<<j[1], j[2]>> : j \in ClaimKey}
<1>1. ASSUME NEW i \in 1 .. Len(calls),
             calls[i].kind \in {"kyc", "addClaimantProposal"}
      PROVE  <<calls[i].claim[1], calls[i].claim[2]>> \in everybody
  <2>1. calls[i] \in Calls
    BY FitLeft
  <2>2. calls[i].claim \in ClaimKey
    BY <1>1, <2>1, CallFacts
  <2> QED BY <2>2
<1> HIDE DEF everybody
<1>2. Proposed(everybody)
  BY <1>1 DEF Proposed
<1>3. \A i \in 1 .. Len(calls) : Whitelisted(i, everybody)
  BY <1>1 DEF Whitelisted, after_check_if_whitelisted
<1>4. CheckedStep(everybody) /\ Work' /\ Shape' /\ BountiesMove
  BY <1>2, <1>3, StepsChecked
<1> QED BY <1>4

(* Every step is an event.                                                 *)
LEMMA Events ==
  ASSUME Course, [Next]_vars
  PROVE  /\ ClaimsStep /\ FitSeq(calls')
         /\ Work' /\ Shape' /\ BountiesMove
BY EventsChecked, CheckedSteps

----------------------------------------------------------------------------
(* The operators that compute a bounty, field by field.                    *)

(* A slot is freed.                                                        *)
Vacated(f, s) == [f EXCEPT ![s] = Nil]
(* A slot is given to claim k.                                             *)
Taken(f, s, k) == [f EXCEPT ![s] = k]

(* The status of a bounty of equal slots when one of them is free again.   *)
PausedStatus(b) ==
  IF b.status = "ManyClaimed" /\ b.occupied_slots = 1
  THEN IF b.paid_slots = 0 THEN "New" ELSE "AwaitingClaims"
  ELSE b.status

(* The same when one of them is paid.                                      *)
SlotPaidStatus(b) ==
  IF b.occupied_slots # 1 THEN b.status
  ELSE IF b.paid_slots + 1 = b.terms.slots
  THEN "Completed" ELSE "AwaitingClaims"

(* ResetSlot frees the slot and takes its flags back.                      *)
LEMMA ResetSlotFields ==
  ASSUME NEW b \in Bounty, NEW s
  PROVE  /\ ResetSlot(b, s).terms = b.terms
         /\ ResetSlot(b, s).status = b.status
         /\ ResetSlot(b, s).slots = Vacated(b.slots, s)
         /\ ResetSlot(b, s).confirmed = b.confirmed \ {s}
BY Zenon DEF ResetSlot, Bounty, Vacated

(* A claim that is not worked on takes its place, and nothing else.        *)
LEMMA LeftFields ==
  ASSUME NEW b \in Bounty, NEW k \in ClaimKey,
         NEW c, c = Left(b, k)
  PROVE  /\ c.terms = b.terms /\ c.status = b.status
         /\ b.terms.mode = "Contest" =>
              /\ c.participants = b.participants - 1
              /\ c.started_at = b.started_at /\ c.finished_at = b.finished_at
         /\ b.terms.mode = "OneForAll" =>
              /\ c.occupied_slots = b.occupied_slots - 1
              /\ c.paid_slots = b.paid_slots
         /\ b.terms.mode = "DifferentTasks" =>
              /\ c.slots = Vacated(b.slots, claims[k].slot)
              /\ c.confirmed = b.confirmed \ {claims[k].slot}
<1>1. CASE b.terms.mode = "Contest"
  <2>1. c = [b EXCEPT !.participants = @ - 1]
    BY <1>1, Zenon DEF Left
  <2> QED BY <1>1, <2>1 DEF Bounty
<1>2. CASE b.terms.mode = "OneForAll"
  <2>1. c = [b EXCEPT !.occupied_slots = @ - 1]
    BY <1>2, Zenon DEF Left
  <2> QED BY <1>2, <2>1 DEF Bounty
<1>3. CASE b.terms.mode = "DifferentTasks"
  <2>1. c = ResetSlot(b, claims[k].slot)
    BY <1>3, Zenon DEF Left
  <2> DEFINE freed == ResetSlot(b, claims[k].slot)
  <2>2. /\ freed.terms = b.terms /\ freed.status = b.status
        /\ freed.slots = Vacated(b.slots, claims[k].slot)
        /\ freed.confirmed = b.confirmed \ {claims[k].slot}
    BY ResetSlotFields
  <2>3. c = freed
    BY <2>1
  <2> HIDE DEF freed
  <2> QED BY <1>3, <2>2, <2>3
<1>4. CASE b.terms.mode \notin {"Contest", "OneForAll", "DifferentTasks"}
  <2>1. c = b
    BY <1>4 DEF Left
  <2> QED BY <1>4, <2>1
<1> QED BY <1>1, <1>2, <1>3, <1>4

(* internal_reset_bounty_to_initial_state: the bounty is open again when   *)
(* nobody is left at work.                                                 *)
LEMMA ReopenedFields ==
  ASSUME NEW b \in Bounty, NEW k \in ClaimKey,
         NEW c, c = Reopened(b, k)
  PROVE  /\ c.terms = b.terms
         /\ b.terms.mode = "None" =>
              /\ c.status = "New" /\ c.payment_at = b.payment_at
              /\ c.payment_confirmed_at = b.payment_confirmed_at
         /\ b.terms.mode = "Contest" =>
              /\ c.started_at = b.started_at
              /\ \/ /\ c.status = b.status
                    /\ c.participants = b.participants - 1
                    /\ c.finished_at = b.finished_at
                 \/ /\ b.status = "ManyClaimed" /\ c.status = "New"
                    /\ b.participants = 1 /\ c.participants = 0
                    /\ c.finished_at = now
         /\ b.terms.mode = "OneForAll" =>
              /\ c.occupied_slots = b.occupied_slots - 1
              /\ c.paid_slots = b.paid_slots
              /\ c.status = PausedStatus(b)
         /\ b.terms.mode = "DifferentTasks" =>
              /\ c.slots = Vacated(b.slots, claims[k].slot)
              /\ c.confirmed = b.confirmed \ {claims[k].slot}
              /\ \/ c.status = b.status
                 \/ /\ c.status = "New"
                    /\ \A s \in UsedPlaces(b) : c.slots[s] = Nil
<1>0. b.terms.mode \in Modes
  BY DEF Bounty, Terms
<1>1. CASE b.terms.mode = "None"
  <2>1. c = [b EXCEPT !.status = "New"]
    BY <1>1, Zenon DEF Reopened
  <2> QED BY <1>1, <2>1 DEF Bounty
<1>2. CASE b.terms.mode = "Contest"
  <2>1. CASE b.status = "ManyClaimed" /\ b.participants = 1
    <3>1. c = [b EXCEPT !.participants = 0, !.finished_at = now,
                        !.status = "New"]
      BY <1>2, <2>1, Zenon DEF Reopened
    <3>2. /\ c.terms = b.terms /\ c.started_at = b.started_at
          /\ c.status = "New" /\ c.participants = 0 /\ c.finished_at = now
      BY <3>1, Zenon DEF Bounty
    <3> QED BY <1>2, <2>1, <3>2
  <2>2. CASE ~(b.status = "ManyClaimed" /\ b.participants = 1)
    <3>1. c = [b EXCEPT !.participants = @ - 1]
      BY <1>2, <2>2, Zenon DEF Reopened
    <3> QED BY <1>2, <3>1 DEF Bounty
  <2> QED BY <2>1, <2>2
<1>3. CASE b.terms.mode = "OneForAll"
  <2> DEFINE s == IF b.status = "ManyClaimed" /\ b.occupied_slots = 1
                  THEN IF b.paid_slots = 0 THEN "New" ELSE "AwaitingClaims"
                  ELSE b.status
  <2>1. c = [b EXCEPT !.occupied_slots = @ - 1, !.status = s]
    BY <1>3, Zenon DEF Reopened
  <2>2. /\ c.terms = b.terms /\ c.paid_slots = b.paid_slots
        /\ c.occupied_slots = b.occupied_slots - 1 /\ c.status = s
    <3> HIDE DEF s
    <3> QED BY <2>1, Zenon DEF Bounty
  <2> QED BY <1>3, <2>2 DEF PausedStatus
<1>4. CASE b.terms.mode = "DifferentTasks"
  <2> DEFINE freed == ResetSlot(b, claims[k].slot)
             s == IF AllSlotsAvailable(freed) THEN "New" ELSE freed.status
  <2>1. c = [freed EXCEPT !.status = s]
    BY <1>4, Zenon DEF Reopened
  <2>2. freed \in Bounty
    BY ResetSlotLater DEF Later
  <2>3. /\ freed.terms = b.terms /\ freed.status = b.status
        /\ freed.slots = Vacated(b.slots, claims[k].slot)
        /\ freed.confirmed = b.confirmed \ {claims[k].slot}
    BY ResetSlotFields
  <2>4. (s = "New" /\ AllSlotsAvailable(freed)) \/ s = freed.status
    BY Zenon
  <2> HIDE DEF freed, s
  <2>5. /\ c.terms = freed.terms /\ c.slots = freed.slots
        /\ c.confirmed = freed.confirmed /\ c.status = s
    BY <2>1, <2>2, Zenon DEF Bounty
  <2>6. s = "New" /\ AllSlotsAvailable(freed) =>
          \A p \in UsedPlaces(b) : c.slots[p] = Nil
    BY <2>3, <2>5 DEF AllSlotsAvailable, UsedPlaces
  <2> QED BY <1>4, <2>3, <2>4, <2>5, <2>6
<1> QED BY <1>0, <1>1, <1>2, <1>3, <1>4 DEF Modes

(* internal_bounty_completion for one claim.                               *)
LEMMA PaidFields ==
  ASSUME NEW b \in Bounty, NEW k, NEW place,
         NEW c, c = PaidBounty(b, k, place)
  PROVE  /\ c.terms = b.terms
         /\ b.terms.mode = "None" =>
              /\ c.status = "Completed" /\ c.payment_at = b.payment_at
              /\ c.payment_confirmed_at = b.payment_confirmed_at
         /\ b.terms.mode = "Contest" =>
              /\ c.started_at = b.started_at
              /\ c.participants = b.participants - 1
              /\ \/ c.status = b.status /\ c.finished_at = b.finished_at
                 \/ c.status = "Completed"
         /\ b.terms.mode = "OneForAll" =>
              /\ c.occupied_slots = b.occupied_slots - 1
              /\ c.paid_slots = b.paid_slots + 1
              /\ c.status = SlotPaidStatus(b)
<1>1. CASE b.terms.mode = "Contest"
  <2>1. PICK w : w = IF b.terms.postpaid THEN b.winners
                     ELSE [b.winners EXCEPT ![place] = k]
    OBVIOUS
  <2> DEFINE won == [b EXCEPT !.participants = @ - 1, !.winners = w]
  <2>2. c = IF AllPrizePlacesTaken(won)
            THEN [won EXCEPT !.finished_at = now, !.status = "Completed"]
            ELSE won
    BY <1>1, <2>1, Zenon DEF PaidBounty
  <2>3. /\ won.terms = b.terms /\ won.status = b.status
        /\ won.started_at = b.started_at /\ won.finished_at = b.finished_at
        /\ won.participants = b.participants - 1
    BY Zenon DEF Bounty
  <2>4. LET over == [won EXCEPT !.finished_at = now, !.status = "Completed"] IN
        /\ over.terms = won.terms /\ over.status = "Completed"
        /\ over.started_at = won.started_at
        /\ over.participants = won.participants
    BY Zenon DEF Bounty
  <2>5. \/ c = won
        \/ c = [won EXCEPT !.finished_at = now, !.status = "Completed"]
    BY <2>2, Zenon
  <2> HIDE DEF won
  <2>6. CASE c = won
    <3> QED BY <1>1, <2>3, <2>6
  <2>7. CASE c = [won EXCEPT !.finished_at = now, !.status = "Completed"]
    <3>1. /\ c.terms = won.terms /\ c.status = "Completed"
          /\ c.started_at = won.started_at
          /\ c.participants = won.participants
      BY <2>4, <2>7, Zenon
    <3> QED BY <1>1, <2>3, <3>1
  <2> QED BY <2>5, <2>6, <2>7
<1>2. CASE b.terms.mode = "OneForAll"
  <2> DEFINE s == IF b.occupied_slots # 1 THEN b.status
                  ELSE IF b.paid_slots + 1 = b.terms.slots
                  THEN "Completed" ELSE "AwaitingClaims"
  <2>1. c = [b EXCEPT !.occupied_slots = @ - 1, !.paid_slots = @ + 1,
                      !.status = s]
    BY <1>2, Zenon DEF PaidBounty
  <2>2. /\ c.terms = b.terms /\ c.paid_slots = b.paid_slots + 1
        /\ c.occupied_slots = b.occupied_slots - 1 /\ c.status = s
    <3> HIDE DEF s
    <3> QED BY <2>1, Zenon DEF Bounty
  <2> QED BY <1>2, <2>2 DEF SlotPaidStatus
<1>3. CASE b.terms.mode \notin {"Contest", "OneForAll"}
  <2>1. c = [b EXCEPT !.status = "Completed"]
    BY <1>3 DEF PaidBounty
  <2> QED BY <1>3, <2>1 DEF Bounty
<1> QED BY <1>1, <1>2, <1>3

(* internal_claimant_approval, the bounty's part.                          *)
LEMMA ApprovalFields ==
  ASSUME NEW b \in Bounty, NEW k \in ClaimKey, NEW s,
         NEW c, c = BountyOnApproval(b, k, s)
  PROVE  /\ c.terms = b.terms
         /\ c.status = StatusOnApproval(b, k, s)
         /\ b.terms.mode = "None" =>
              /\ c.payment_at = b.payment_at
              /\ c.payment_confirmed_at = b.payment_confirmed_at
         /\ b.terms.mode = "Contest" =>
              /\ c.participants = b.participants + 1
              /\ StartsWork(b, k, s) => c.started_at = now /\ c.finished_at = Nil
              /\ ~StartsWork(b, k, s) =>
                   c.started_at = b.started_at /\ c.finished_at = b.finished_at
         /\ b.terms.mode = "OneForAll" =>
              /\ c.occupied_slots = b.occupied_slots + 1
              /\ c.paid_slots = b.paid_slots
         /\ b.terms.mode = "DifferentTasks" =>
              /\ c.slots = Taken(b.slots, s, k)
              /\ c.confirmed = b.confirmed \ {s}
<1> DEFINE after == [b EXCEPT !.status = StatusOnApproval(b, k, s)]
<1>0. b.terms.mode \in Modes
  BY DEF Bounty, Terms
<1>1. /\ after.terms = b.terms /\ after.status = StatusOnApproval(b, k, s)
      /\ after.participants = b.participants
      /\ after.occupied_slots = b.occupied_slots
      /\ after.paid_slots = b.paid_slots
      /\ after.started_at = b.started_at /\ after.finished_at = b.finished_at
      /\ after.slots = b.slots /\ after.confirmed = b.confirmed
      /\ after.payment_at = b.payment_at
      /\ after.payment_confirmed_at = b.payment_confirmed_at
  BY Zenon DEF Bounty
<1>2. CASE b.terms.mode = "None"
  <2>1. c = after
    BY <1>2, Zenon DEF BountyOnApproval
  <2> HIDE DEF after
  <2> QED BY <1>1, <1>2, <2>1
<1>3. CASE b.terms.mode = "Contest"
  <2>1. PICK f, g :
          /\ f = IF StartsWork(b, k, s) THEN now ELSE b.started_at
          /\ g = IF StartsWork(b, k, s) THEN Nil ELSE b.finished_at
    OBVIOUS
  <2>2. c = [after EXCEPT !.participants = @ + 1, !.started_at = f,
                          !.finished_at = g]
    BY <1>1, <1>3, <2>1, Zenon DEF BountyOnApproval
  <2>3. /\ c.terms = after.terms /\ c.status = after.status
        /\ c.participants = after.participants + 1
        /\ c.started_at = f /\ c.finished_at = g
    BY <2>2, Zenon DEF Bounty
  <2> HIDE DEF after
  <2> QED BY <1>1, <1>3, <2>1, <2>3
<1>4. CASE b.terms.mode = "OneForAll"
  <2>1. c = [after EXCEPT !.occupied_slots = @ + 1]
    BY <1>4, Zenon DEF BountyOnApproval
  <2>2. /\ c.terms = after.terms /\ c.status = after.status
        /\ c.occupied_slots = after.occupied_slots + 1
        /\ c.paid_slots = after.paid_slots
    BY <2>1, Zenon DEF Bounty
  <2> HIDE DEF after
  <2> QED BY <1>1, <1>4, <2>2
<1>5. CASE b.terms.mode = "DifferentTasks"
  <2>1. PICK d : c = [after EXCEPT !.slots[s] = k, !.confirmed = @ \ {s},
                                   !.completed = d]
    BY <1>5, Zenon DEF BountyOnApproval
  <2>2. /\ c.terms = after.terms /\ c.status = after.status
        /\ c.slots = Taken(after.slots, s, k)
        /\ c.confirmed = after.confirmed \ {s}
    BY <2>1, Zenon DEF Bounty, Taken
  <2> HIDE DEF after
  <2> QED BY <1>1, <1>5, <2>2
<1> QED BY <1>0, <1>2, <1>3, <1>4, <1>5 DEF Modes

(* The status internal_claimant_approval gives the claim.                  *)
AdmittedStatus(b, k, s) ==
  IF /\ b.terms.mode \in {"OneForAll", "DifferentTasks"}
     /\ StatusOnApproval(b, k, s) # "ManyClaimed"
  THEN "ReadyToStart" ELSE ApprovedStatus(b)

(* The claim it stores, with the deferred KYC of the claimant.             *)
Approving(b, k, c, delayed) ==
  [ClaimOnApproval(b, k, c) EXCEPT !.kyc_delayed = delayed]

(* What the bounties' proofs need of that claim.                           *)
LEMMA ApprovedFields ==
  ASSUME NEW b, NEW k \in ClaimKey, NEW c \in Claim, NEW delayed
  PROVE  /\ Approving(b, k, c, delayed).slot = c.slot
         /\ Approving(b, k, c, delayed).status = AdmittedStatus(b, k, c.slot)
<1> DEFINE waits == /\ b.terms.mode \in {"OneForAll", "DifferentTasks"}
                    /\ StatusOnApproval(b, k, c.slot) # "ManyClaimed"
           d == ClaimOnApproval(b, k, c)
<1> PICK a : a = Approving(b, k, c, delayed)
  OBVIOUS
<1>1. CASE waits
  <2>1. d = [c EXCEPT !.status = "ReadyToStart"]
    BY <1>1, Zenon DEF ClaimOnApproval
  <2>2. a.slot = c.slot /\ a.status = "ReadyToStart"
    BY <2>1, Zenon DEF Claim, Approving
  <2> QED BY <1>1, <2>2, Zenon DEF AdmittedStatus
<1>2. CASE ~waits
  <2>1. PICK f : d = [c EXCEPT !.status = ApprovedStatus(b), !.start_time = f]
    BY <1>2, Zenon DEF ClaimOnApproval
  <2>2. a.slot = c.slot /\ a.status = ApprovedStatus(b)
    BY <2>1, Zenon DEF Claim, Approving
  <2> QED BY <1>2, <2>2, Zenon DEF AdmittedStatus
<1> QED BY <1>1, <1>2 DEF AdmittedStatus

(* A new bounty is at rest.                                                *)
LEMMA NewFields ==
  ASSUME NEW t, NEW cfg, NEW b, b = NewBounty(t, cfg)
  PROVE  /\ b.status = "New" /\ b.terms = t
         /\ b.participants = 0 /\ b.started_at = Nil /\ b.finished_at = Nil
         /\ b.occupied_slots = 0 /\ b.paid_slots = 0
         /\ \A p \in Places : b.slots[p] = Nil
         /\ b.confirmed = {}
         /\ ~b.payment_at /\ ~b.payment_confirmed_at
BY Zenon DEF NewBounty, NoBounty

(* The terms that bounty_update never touches.                             *)
LEMMA TermsStay ==
  ASSUME NEW t \in Terms, NEW u \in Update,
         NEW w, w = UpdatedTerms(t, u)
  PROVE  /\ w.mode = t.mode /\ w.flow = t.flow /\ w.dao = t.dao
         /\ w.postpaid = t.postpaid /\ w.many = t.many /\ w.slots = t.slots
         /\ w.kyc = t.kyc
         /\ u.field # "deadline" =>
              w.deadline_type = t.deadline_type /\ w.deadline = t.deadline
         /\ u.field = "deadline" =>
              w.deadline_type = u.deadline_type /\ w.deadline = u.deadline
<1>1. CASE u.field = "approval"
  <2>1. w = [t EXCEPT !.approval = u.approval, !.whitelist = u.whitelist]
    BY <1>1, Zenon DEF UpdatedTerms
  <2>2. /\ w.mode = t.mode /\ w.flow = t.flow /\ w.dao = t.dao
        /\ w.postpaid = t.postpaid /\ w.many = t.many /\ w.slots = t.slots
        /\ w.kyc = t.kyc
        /\ w.deadline_type = t.deadline_type /\ w.deadline = t.deadline
    BY <2>1, Zenon DEF Terms
  <2> QED BY <1>1, <2>2
<1>2. CASE u.field = "deadline"
  <2>1. w = [t EXCEPT !.deadline_type = u.deadline_type,
                      !.deadline = u.deadline]
    BY <1>2, Zenon DEF UpdatedTerms
  <2>2. /\ w.mode = t.mode /\ w.flow = t.flow /\ w.dao = t.dao
        /\ w.postpaid = t.postpaid /\ w.many = t.many /\ w.slots = t.slots
        /\ w.kyc = t.kyc
        /\ w.deadline_type = u.deadline_type /\ w.deadline = u.deadline
    BY <2>1, Zenon DEF Terms
  <2> QED BY <1>2, <2>2
<1>3. CASE u.field = "reviewers"
  <2>1. w = [t EXCEPT !.reviewers = u.reviewers]
    BY <1>3, Zenon DEF UpdatedTerms
  <2> QED BY <1>3, <2>1 DEF Terms
<1>4. CASE u.field = "amount"
  <2>1. w = t
    BY <1>4, Zenon DEF UpdatedTerms
  <2> QED BY <1>4, <2>1
<1> QED BY <1>1, <1>2, <1>3, <1>4 DEF Update

----------------------------------------------------------------------------
(* Where an event happens.                                                 *)

(* The step does nothing to bounty id and its claims.                      *)
Spared(id) ==
  /\ bounties'[id] = bounties[id]
  /\ \A k \in ClaimKey : k[1] = id => claims'[k] = claims[k]

(* The step stores no other claim than k.                                  *)
OthersStay(k) == \A j \in ClaimKey : j # k => claims'[j] = claims[j]

(* Claim k gets status s, and keeps its slot and its payments.             *)
Closed(k, s) ==
  /\ OthersStay(k)
  /\ claims'[k].status = s /\ claims'[k].slot = claims[k].slot
  /\ claims'[k].payment_at = claims[k].payment_at
  /\ claims'[k].payment_confirmed_at = claims[k].payment_confirmed_at

(* What Closes comes to.                                                   *)
LEMMA ClosesFacts ==
  ASSUME Course, NEW k \in ClaimKey, NEW s, Closes(k, s)
  PROVE  Closed(k, s)
<1>1. claims \in [ClaimKey -> Claim] /\ claims[k] \in Claim
  BY Stored
<1>2. claims' = [claims EXCEPT ![k] = [claims[k] EXCEPT !.status = s]]
  BY Zenon DEF Closes
<1> DEFINE c == [claims[k] EXCEPT !.status = s]
<1>3. /\ c.status = s /\ c.slot = claims[k].slot
      /\ c.payment_at = claims[k].payment_at
      /\ c.payment_confirmed_at = claims[k].payment_confirmed_at
  BY <1>1, Zenon DEF Claim
<1> HIDE DEF c
<1>4. claims' = [claims EXCEPT ![k] = c]
  BY <1>2 DEF c
<1>5. claims'[k] = c /\ \A j \in ClaimKey : j # k => claims'[j] = claims[j]
  BY <1>1, <1>4
<1> QED BY <1>3, <1>5 DEF Closed, OthersStay

(* The claims that are released with k are others on the same bounty, and  *)
(* wait for the start of the work.                                         *)
LEMMA ReleasedFacts ==
  ASSUME NEW b, NEW k, NEW s, NEW j \in Released(b, k, s)
  PROVE  /\ j \in ClaimKey /\ j # k /\ j[1] = k[1]
         /\ claims[j].status = "ReadyToStart"
         /\ b.terms.mode \in {"OneForAll", "DifferentTasks"}
         /\ b.status = "New" /\ StartsWork(b, k, s)
BY DEF Released, ReadyBut, ClaimsOf

(* internal_claimant_approval touches claim k, the claims it releases, and *)
(* their bounty.                                                           *)
LEMMA ApproveStores ==
  ASSUME Course, NEW k \in ClaimKey, NEW c \in Claim, NEW delayed,
         ApproveClaimant(k, c, delayed)
  PROVE  /\ bounties'[k[1]] = BountyOnApproval(bounties[k[1]], k, c.slot)
         /\ \A id \in BountyId : id # k[1] => bounties'[id] = bounties[id]
         /\ claims'[k] = Approving(bounties[k[1]], k, c, delayed)
         /\ \A j \in ClaimKey :
              j # k /\ j \notin Released(bounties[k[1]], k, c.slot) =>
                claims'[j] = claims[j]
         /\ \A j \in Released(bounties[k[1]], k, c.slot) :
              claims'[j] =
                [claims[j] EXCEPT !.status = ApprovedStatus(bounties[k[1]]),
                                  !.start_time = now]
<1>1. /\ bounties \in [BountyId -> Bounty] /\ k[1] \in BountyId
  BY Stored
<1>2. bounties' =
        [bounties EXCEPT ![k[1]] =
           BountyOnApproval(bounties[k[1]], k, c.slot)]
  BY DEF ApproveClaimant
<1>3. \A j \in ClaimKey : claims'[j] =
         IF j = k
         THEN Approving(bounties[k[1]], k, c, delayed)
         ELSE IF j \in Released(bounties[k[1]], k, c.slot)
         THEN [claims[j] EXCEPT !.status = ApprovedStatus(bounties[k[1]]),
                                !.start_time = now]
         ELSE claims[j]
  BY Zenon DEF ApproveClaimant, Approving
<1>4. \A j \in Released(bounties[k[1]], k, c.slot) : j \in ClaimKey /\ j # k
  BY ReleasedFacts
<1> QED BY <1>1, <1>2, <1>3, <1>4, Zenon

(* What the approved claim becomes.                                        *)
LEMMA ApproveOwn ==
  ASSUME Course, NEW k \in ClaimKey, NEW c \in Claim, NEW delayed,
         ApproveClaimant(k, c, delayed),
         NEW b, b = bounties[k[1]]
  PROVE  /\ claims'[k].slot = c.slot
         /\ claims'[k].status = AdmittedStatus(b, k, c.slot)
<1>1. claims'[k] = Approving(b, k, c, delayed)
  BY Zenon DEF ApproveClaimant, Approving
<1> QED BY <1>1, ApprovedFields

(* An event on a bounty or a claim leaves the other bounties alone.        *)
LEMMA EventPlace ==
  ASSUME Course, Shape', ClaimsStep, NEW id \in BountyId
  PROVE  \/ Spared(id)
         \/ BountyEvent(id)
         \/ \E k \in ClaimKey : k[1] = id /\ ClaimEvent(k)
<1>1. CASE UNCHANGED bounties /\ UNCHANGED claims
  BY <1>1 DEF Spared
<1>2. ASSUME NEW at \in BountyId, at # id, BountyEvent(at)
      PROVE  Spared(id)
  <2>1. UNCHANGED claims /\ \E b : bounties' = [bounties EXCEPT ![at] = b]
    BY <1>2, Zenon DEF BountyEvent, Begins, Changes, bounty_update, Cancels,
       Accepts, start_competition
  <2>2. bounties'[id] = bounties[id]
    BY <1>2, <2>1 DEF Course, Work, Shape, TypeOK
  <2> QED BY <2>1, <2>2 DEF Spared
<1>3. ASSUME NEW k \in ClaimKey, k[1] # id, ClaimEvent(k)
      PROVE  Spared(id)
  <2>1. CASE Admits(k)
    <3>1. PICK c \in Claim, delayed \in Deferments \cup {Nil} :
            ApproveClaimant(k, c, delayed)
      BY <2>1 DEF Admits
    <3>2. \A j \in ClaimKey : j[1] = id =>
            j # k /\ j \notin Released(bounties[k[1]], k, c.slot)
      BY <1>3, ReleasedFacts
    <3>3. \A j \in ClaimKey :
            j # k /\ j \notin Released(bounties[k[1]], k, c.slot) =>
              claims'[j] = claims[j]
      BY <3>1, ApproveStores, Zenon
    <3>4. bounties'[id] = bounties[id]
      BY <1>3, <3>1, ApproveStores, Zenon
    <3> QED BY <3>2, <3>3, <3>4 DEF Spared
  <2>2. CASE ~Admits(k)
    <3>1. /\ UNCHANGED bounties \/ \E b : bounties' = [bounties EXCEPT ![k[1]] = b]
          /\ UNCHANGED claims \/ \E c : claims' = [claims EXCEPT ![k] = c]
      <4>1. CASE Notes(k)
        BY <4>1, Zenon DEF Notes, extend_claim_deadline, mark_as_paid,
           confirm_payment
      <4>2. CASE Finishes(k)
        BY <4>2, Zenon DEF Finishes, ClaimDone
      <4>3. CASE ~Notes(k) /\ ~Finishes(k)
        BY <1>3, <2>2, <4>3, Zenon
           DEF ClaimEvent, PlainEvent, Applies, Declines,
           Leaves, Resets, Pays, Withdraws, Rejects, Argues, Closes
      <4> QED BY <4>1, <4>2, <4>3
    <3>2. bounties'[id] = bounties[id]
      BY <1>3, <3>1 DEF Course, Work, Shape, TypeOK
    <3>3. \A j \in ClaimKey : j[1] = id => claims'[j] = claims[j]
      BY <1>3, <3>1 DEF Course, Work, Shape, TypeOK
    <3> QED BY <3>2, <3>3 DEF Spared
  <2> QED BY <2>1, <2>2
<1> QED BY <1>1, <1>2, <1>3 DEF ClaimsStep

----------------------------------------------------------------------------
(* The statuses that keep an account from another claim, mode by mode.     *)
LEMMA Blocking ==
  /\ BlockingStatuses("None") = {"New"}
  /\ BlockingStatuses("Contest") =
       {"New", "Competes", "Completed", "NotHired"}
  /\ BlockingStatuses("OneForAll") = {"New", "ReadyToStart"} \cup Active
  /\ BlockingStatuses("DifferentTasks") =
       {"New", "ReadyToStart", "CompletedWithDispute"} \cup Active
<1>1. BlockingStatuses("None") = {"New"}
  BY Zenon DEF BlockingStatuses
<1>2. BlockingStatuses("Contest") =
        {"New", "Competes", "Completed", "NotHired"}
  BY Zenon DEF BlockingStatuses
<1>3. BlockingStatuses("OneForAll") = {"New", "ReadyToStart"} \cup Active
  BY Zenon DEF BlockingStatuses
<1>4. BlockingStatuses("DifferentTasks") =
        {"New", "ReadyToStart", "CompletedWithDispute"} \cup Active
  BY Zenon DEF BlockingStatuses
<1> QED BY <1>1, <1>2, <1>3, <1>4

(* A new claim never takes the place of one that is not over: NextKey is   *)
(* the number after those that were used, or the claim there is was looked *)
(* at (BlockingStatuses).                                                  *)
LEMMA FreshOver ==
  ASSUME Course, NEW k \in ClaimKey, NEW slot, Fresh(k, slot)
  PROVE  /\ claims[k].status \in Over
         /\ Status(k[1]) \in OpenStatuses(Mode(k[1]))
         /\ TakesClaims(bounties[k[1]], slot, now)
<1> DEFINE id == k[1]
           who == k[2]
<1>1. /\ id \in BountyId /\ who \in Claimants /\ k[3] \in Numbers
      /\ k = <<id, who, k[3]>>
      /\ MayCreateClaim(id, who, slot) /\ k = NextKey(id, who)
      /\ claims[k].status \in ClaimStatus /\ Mode(id) \in Modes
  BY Stored, KeyType DEF Fresh, ClaimKey, Claim, Bounty, Terms, Mode
<1>2. /\ Status(id) \in OpenStatuses(Mode(id))
      /\ TakesClaims(bounties[id], slot, now)
  BY <1>1 DEF MayCreateClaim, Status, Mode
<1>3. CASE ~bounties[id].terms.many
  <2>1. claims[k].status \notin BlockingStatuses(Mode(id))
    BY <1>1, <1>3 DEF MayCreateClaim, NextKey, Mode
  <2>2. ClaimFits(k)
    BY DEF Course
  <2>3. Mode(id) = "None" => claims[k].status \notin Active
    <3>1. SUFFICES ASSUME Mode(id) = "None"
                   PROVE  claims[k].status \notin Active
      OBVIOUS
    <3>2. ~Shared(id) /\ Status(id) = "New"
      BY <1>2, <3>1 DEF Shared, OpenStatuses
    <3>3. Lone(id)
      BY <1>1, <3>2 DEF Course, Work, Alone
    <3> QED BY <3>2, <3>3 DEF Lone, ClaimsOf
  <2>4. CASE Mode(id) = "None"
    <3>1. BlockingStatuses(Mode(id)) = {"New"}
      BY <2>4, Blocking
    <3> QED BY <1>1, <1>2, <2>1, <2>2, <2>3, <2>4, <3>1
            DEF ClaimFits, ClaimStatus, Over, Active, Mode
  <2>5. CASE Mode(id) = "Contest"
    <3>1. BlockingStatuses(Mode(id)) =
            {"New", "Competes", "Completed", "NotHired"}
      BY <2>5, Blocking
    <3> QED BY <1>1, <1>2, <2>1, <2>2, <2>5, <3>1
            DEF ClaimFits, ClaimStatus, Over, Active, Mode
  <2>6. CASE Mode(id) = "OneForAll"
    <3>1. BlockingStatuses(Mode(id)) = {"New", "ReadyToStart"} \cup Active
      BY <2>6, Blocking
    <3> QED BY <1>1, <1>2, <2>1, <2>2, <2>6, <3>1
            DEF ClaimFits, ClaimStatus, Over, Active, Mode
  <2>7. CASE Mode(id) = "DifferentTasks"
    <3>1. BlockingStatuses(Mode(id)) =
            {"New", "ReadyToStart", "CompletedWithDispute"} \cup Active
      BY <2>7, Blocking
    <3> QED BY <1>1, <1>2, <2>1, <2>2, <2>7, <3>1
            DEF ClaimFits, ClaimStatus, Over, Active, Mode
  <2> QED BY <1>1, <1>2, <2>4, <2>5, <2>6, <2>7 DEF Modes
<1>4. CASE bounties[id].terms.many
  <2> DEFINE n == k[3]
             made == {j \in ClaimKey : /\ j[1] = id /\ j[2] = who
                                       /\ claims[j].status # "Absent"}
  <2>1. n = Cardinality(made) /\ n \in Nat /\ n <= MaxClaims - 1
    BY <1>1, <1>4, TypesAssumption DEF NextKey, NumberOfClaims, Numbers
  <2>2. SUFFICES ASSUME claims[k].status # "Absent"
                 PROVE  FALSE
    BY <1>1, <1>2 DEF Over
  <2>3. IsFiniteSet(made)
    <3>1. IsFiniteSet(Made(id)) /\ made \in SUBSET Made(id)
      BY <1>1 DEF Course, Made
    <3> QED BY <3>1, FS_Subset
  <2>4. ASSUME NEW m \in 0 .. n
        PROVE  <<id, who, m>> \in made
    <3>1. m \in Numbers
      BY <2>1, TypesAssumption DEF Numbers
    <3>2. <<id, who, m>> \in ClaimKey
      BY <1>1, <3>1 DEF ClaimKey
    <3>3. claims[<<id, who, m>>].status # "Absent"
      <4>1. CASE m = n
        BY <1>1, <2>2, <4>1
      <4>2. CASE m < n
        <5> DEFINE j == <<id, who, m>>
        <5>1. /\ j \in ClaimKey /\ j[1] = id /\ j[2] = who /\ j[3] < k[3]
          BY <3>2, <4>2
        <5>2. Numbered(id)
          BY <1>1 DEF Course
        <5> HIDE DEF j
        <5>3. claims[j].status # "Absent"
          BY <2>2, <5>1, <5>2 DEF Numbered
        <5> QED BY <5>3 DEF j
      <4> QED BY <2>1, <4>1, <4>2
    <3> QED BY <3>2, <3>3
  <2> DEFINE f == [m \in 0 .. n |-> <<id, who, m>>]
  <2> HIDE DEF made, n
  <2>5. f \in [0 .. n -> made]
    BY <2>4
  <2>6. IsFiniteSet(0 .. n) /\ Cardinality(0 .. n) = n + 1
    BY <2>1, FS_Interval
  <2>7. Cardinality(made) < Cardinality(0 .. n)
    BY <2>1, <2>6
  <2>8. PICK x, y \in 0 .. n : x # y /\ f[x] = f[y]
    BY <2>3, <2>5, <2>6, <2>7, FS_PigeonHole, ZenonT(60)
  <2>9. <<id, who, x>> = <<id, who, y>>
    BY <2>8
  <2> QED BY <2>8, <2>9
<1> QED BY <1>2, <1>3, <1>4

----------------------------------------------------------------------------
(* Events that leave a bounty running as it was.                           *)

(* The terms that decide how a bounty runs are the same.                   *)
SameTerms(t, u) ==
  /\ u.mode = t.mode /\ u.flow = t.flow /\ u.dao = t.dao
  /\ u.postpaid = t.postpaid /\ u.many = t.many /\ u.slots = t.slots
  /\ u.kyc = t.kyc

(* The fees are what they were when the bounty was created.                *)
SameFees(b, c) ==
  c.platform_fee = b.platform_fee /\ c.dao_fee = b.dao_fee

(* So are the status and the counters, slots and times.                    *)
SameRun(b, c) ==
  /\ c.status = b.status /\ SameTerms(b.terms, c.terms) /\ SameFees(b, c)
  /\ c.participants = b.participants
  /\ c.started_at = b.started_at /\ c.finished_at = b.finished_at
  /\ c.occupied_slots = b.occupied_slots /\ c.paid_slots = b.paid_slots
  /\ c.slots = b.slots

(* A claim stays what it is for its bounty: at work or not, and where.     *)
CalmClaim(k) ==
  LET b == bounties[k[1]]
      s == claims[k].status
      r == claims'[k].status
  IN
  \/ /\ r = s \/ \/ /\ s \in {"InProgress", "Competes"} /\ r = "Completed"
                    /\ b.status \in Running
                 \/ /\ s = "Completed" /\ r = "Rejected"
                    /\ ~b.terms.postpaid /\ b.terms.mode # "Contest"
                    /\ b.status \in Running
                 \/ s = "Rejected" /\ r = "Disputed" /\ b.status \in Running
                 \/ /\ s = "Disputed" /\ r = "CompletedWithDispute"
                    /\ b.terms.mode = "DifferentTasks"
                    /\ b.status \in Running
     /\ claims'[k].slot = claims[k].slot
     /\ claims[k].payment_at => claims'[k].payment_at
     /\ claims[k].payment_confirmed_at => claims'[k].payment_confirmed_at
  \/ s \in Over /\ r = "New" /\ b.status \in OpenStatuses(b.terms.mode)
  \/ /\ s = "New" /\ r \in {"NotHired", "Canceled"}
     /\ claims'[k].slot = claims[k].slot

(* A step that leaves the bounty and its claims running as they were.      *)
Calm(id) ==
  /\ SameRun(bounties[id], bounties'[id])
  /\ \A k \in ClaimKey : k[1] = id => CalmClaim(k)

(* The events that no counter and no slot has to follow.                   *)
CalmEvents(id) ==
  \/ Changes(id)
  \/ \E k \in ClaimKey :
        /\ k[1] = id
        /\ \/ Notes(k) \/ Applies(k) \/ Finishes(k) \/ Declines(k)
           \/ Rejects(k) \/ Argues(k)

(* A claim that is not stored, or stored with its status, slot and         *)
(* payments, is calm.                                                      *)
LEMMA RestCalm ==
  ASSUME Course, NEW k \in ClaimKey, CalmClaim(k), OthersStay(k)
  PROVE  \A j \in ClaimKey : j[1] = k[1] => CalmClaim(j)
BY DEF OthersStay, CalmClaim

(* bounty_update                                                           *)
LEMMA ChangesFacts ==
  ASSUME Course, NEW id \in BountyId, NEW u \in Updates, bounty_update(id, u)
  PROVE  /\ SameRun(bounties[id], bounties'[id])
         /\ bounties'[id].terms = UpdatedTerms(bounties[id].terms, u)
         /\ bounties'[id].confirmed = bounties[id].confirmed
         /\ bounties'[id].payment_at = bounties[id].payment_at
         /\ bounties'[id].payment_confirmed_at
              = bounties[id].payment_confirmed_at
         /\ UNCHANGED claims
<1>1. /\ bounties \in [BountyId -> Bounty] /\ bounties[id] \in Bounty
      /\ bounties[id].terms \in Terms /\ u \in Update
  BY BountiesAssumption DEF Course, Work, Shape, TypeOK, Bounty
<1>2. PICK t, a :
        /\ t = UpdatedTerms(bounties[id].terms, u)
        /\ bounties' = [bounties EXCEPT ![id] =
                          [bounties[id] EXCEPT !.terms = t, !.amount = a]]
  BY Zenon DEF bounty_update
<1> DEFINE c == [bounties[id] EXCEPT !.terms = t, !.amount = a]
           b == bounties[id]
<1>3. /\ c.terms = t /\ c.status = b.status
      /\ c.participants = b.participants
      /\ c.started_at = b.started_at /\ c.finished_at = b.finished_at
      /\ c.occupied_slots = b.occupied_slots /\ c.paid_slots = b.paid_slots
      /\ c.slots = b.slots /\ c.confirmed = b.confirmed
      /\ c.payment_at = b.payment_at
      /\ c.payment_confirmed_at = b.payment_confirmed_at
      /\ SameFees(b, c)
  BY <1>1, Zenon DEF Bounty, SameFees
<1>4. SameTerms(b.terms, t)
  BY <1>1, <1>2, TermsStay DEF SameTerms
<1> HIDE DEF c
<1>5. bounties'[id] = c
  BY <1>1, <1>2 DEF c
<1>6. UNCHANGED claims
  BY DEF bounty_update
<1> QED BY <1>2, <1>3, <1>4, <1>5, <1>6 DEF SameRun

(* extend_claim_deadline                                                   *)
LEMMA ExtendFacts ==
  ASSUME Course, NEW k \in ClaimKey, NEW deadline \in Deadlines,
         extend_claim_deadline(k, deadline)
  PROVE  /\ UNCHANGED bounties /\ OthersStay(k)
         /\ claims[k].status \in {"InProgress", "Competes"}
         /\ claims'[k].status = claims[k].status
         /\ claims'[k].slot = claims[k].slot
         /\ claims'[k].payment_at = claims[k].payment_at
         /\ claims'[k].payment_confirmed_at = claims[k].payment_confirmed_at
         /\ claims'[k].start_time = claims[k].start_time
         /\ claims'[k].deadline = deadline
         /\ deadline \in Nat /\ claims[k].deadline \in Nat
         /\ deadline > claims[k].deadline
<1>1. claims \in [ClaimKey -> Claim] /\ claims[k] \in Claim
  BY Stored
<1>2. /\ claims' = [claims EXCEPT ![k].deadline = deadline]
      /\ UNCHANGED bounties
      /\ claims[k].status \in {"InProgress", "Competes"}
      /\ deadline # Nil /\ claims[k].deadline # Nil
      /\ deadline > claims[k].deadline
  BY DEF extend_claim_deadline
<1>3. deadline \in Nat /\ claims[k].deadline \in Nat
  BY <1>1, <1>2, BountiesAssumption DEF Claim
<1>4. claims'[k] = [claims[k] EXCEPT !.deadline = deadline]
      /\ \A j \in ClaimKey : j # k => claims'[j] = claims[j]
  BY <1>1, <1>2
<1> QED BY <1>1, <1>2, <1>3, <1>4 DEF Claim, OthersStay

(* mark_as_paid and confirm_payment                                        *)
LEMMA PaymentFacts ==
  ASSUME Course, NEW k \in ClaimKey,
         \/ \E place \in UsedPlaces(bounties[k[1]]) : mark_as_paid(k, place)
         \/ confirm_payment(k)
  PROVE  LET b == bounties[k[1]]
             c == bounties'[k[1]]
         IN
         /\ OthersStay(k)
         /\ claims[k].status \in {"Completed", "CompletedWithDispute"}
         /\ b.status \in Running /\ b.terms.postpaid
         /\ SameRun(b, c) /\ c.terms = b.terms
         /\ claims'[k].status = claims[k].status
         /\ claims'[k].slot = claims[k].slot
         /\ claims'[k].deadline = claims[k].deadline
         /\ claims'[k].start_time = claims[k].start_time
         /\ claims[k].payment_at => claims'[k].payment_at
         /\ claims[k].payment_confirmed_at => claims'[k].payment_confirmed_at
         /\ b.payment_at => c.payment_at
         /\ b.payment_confirmed_at => c.payment_confirmed_at
         /\ \/ c.confirmed = b.confirmed
            \/ /\ b.terms.mode = "DifferentTasks"
               /\ claims'[k].payment_at /\ claims'[k].payment_confirmed_at
               /\ c.confirmed = b.confirmed \cup {claims[k].slot}
<1> DEFINE b == bounties[k[1]]
           c == bounties'[k[1]]
<1>1. /\ claims \in [ClaimKey -> Claim] /\ claims[k] \in Claim
      /\ bounties \in [BountyId -> Bounty] /\ b \in Bounty
      /\ k[1] \in BountyId
  BY Stored
<1>2. Payable(k)
  BY DEF mark_as_paid, confirm_payment
<1>3. SameTerms(b.terms, b.terms)
  BY DEF SameTerms
<1>4. /\ OthersStay(k)
      /\ claims'[k].status = claims[k].status
      /\ claims'[k].slot = claims[k].slot
      /\ claims'[k].deadline = claims[k].deadline
      /\ claims'[k].start_time = claims[k].start_time
      /\ claims[k].payment_at => claims'[k].payment_at
      /\ claims[k].payment_confirmed_at => claims'[k].payment_confirmed_at
  <2>1. \/ UNCHANGED claims
        \/ claims' = [claims EXCEPT ![k].payment_at = TRUE]
        \/ claims' = [claims EXCEPT ![k].payment_confirmed_at = TRUE]
    BY DEF mark_as_paid, confirm_payment
  <2> QED BY <1>1, <2>1 DEF OthersStay, Claim
<1>5. /\ SameRun(b, c) /\ c.terms = b.terms
      /\ b.payment_at => c.payment_at
      /\ b.payment_confirmed_at => c.payment_confirmed_at
      /\ \/ c.confirmed = b.confirmed
         \/ /\ b.terms.mode = "DifferentTasks"
            /\ claims'[k].payment_at /\ claims'[k].payment_confirmed_at
            /\ c.confirmed = b.confirmed \cup {claims[k].slot}
  <2>1. CASE \E place \in UsedPlaces(b) : mark_as_paid(k, place)
    <3>1. PICK place \in UsedPlaces(b) : mark_as_paid(k, place)
      BY <2>1
    <3>2. CASE b.terms.mode = "None"
      <4>1. bounties' = [bounties EXCEPT ![k[1]] =
                           [b EXCEPT !.payment_at = TRUE]]
        BY <3>1, <3>2, Zenon DEF mark_as_paid
      <4>2. c = [b EXCEPT !.payment_at = TRUE]
        BY <1>1, <4>1
      <4> QED BY <1>1, <1>3, <4>2 DEF SameRun, SameFees, Bounty
    <3>3. CASE b.terms.mode = "Contest"
      <4>1. PICK w : bounties' = [bounties EXCEPT ![k[1]] =
                                    [b EXCEPT !.winners = w]]
        BY <3>1, <3>3, Zenon DEF mark_as_paid
      <4>2. c = [b EXCEPT !.winners = w]
        BY <1>1, <4>1
      <4> QED BY <1>1, <1>3, <4>2 DEF SameRun, SameFees, Bounty
    <3>4. CASE b.terms.mode \notin {"None", "Contest"}
      <4>1. UNCHANGED bounties
        BY <3>1, <3>4 DEF mark_as_paid
      <4> QED BY <1>3, <4>1 DEF SameRun, SameFees
    <3> QED BY <3>2, <3>3, <3>4
  <2>2. CASE confirm_payment(k)
    <3>2. CASE b.terms.mode = "None"
      <4>1. bounties' = [bounties EXCEPT ![k[1]] =
                           [b EXCEPT !.payment_confirmed_at = TRUE]]
        BY <2>2, <3>2, Zenon DEF confirm_payment
      <4>2. c = [b EXCEPT !.payment_confirmed_at = TRUE]
        BY <1>1, <4>1
      <4> QED BY <1>1, <1>3, <4>2 DEF SameRun, SameFees, Bounty
    <3>3. CASE b.terms.mode = "DifferentTasks"
      <4>1. bounties' = [bounties EXCEPT ![k[1]] =
              [b EXCEPT !.confirmed = b.confirmed \cup {claims[k].slot}]]
        BY <1>1, <2>2, <3>3, Zenon DEF confirm_payment
      <4>2. c = [b EXCEPT !.confirmed = b.confirmed \cup {claims[k].slot}]
        BY <1>1, <4>1
      <4>3. /\ claims' = [claims EXCEPT ![k].payment_confirmed_at = TRUE]
            /\ claims[k].payment_at
        BY <2>2, <3>3 DEF confirm_payment, PaymentMade
      <4>4. claims'[k].payment_at /\ claims'[k].payment_confirmed_at
        BY <1>1, <4>3 DEF Claim
      <4> QED BY <1>1, <1>3, <3>3, <4>2, <4>4 DEF SameRun, SameFees, Bounty
    <3>4. CASE b.terms.mode \notin {"None", "DifferentTasks"}
      <4>1. UNCHANGED bounties
        BY <2>2, <3>4 DEF confirm_payment
      <4> QED BY <1>3, <4>1 DEF SameRun, SameFees
    <3> QED BY <3>2, <3>3, <3>4
  <2> QED BY <2>1, <2>2
<1> QED BY <1>2, <1>4, <1>5 DEF Payable

(* internal_claim_done                                                     *)
LEMMA FinishesFacts ==
  ASSUME Course, NEW k \in ClaimKey, Finishes(k)
  PROVE  LET b == bounties[k[1]]
             c == bounties'[k[1]]
         IN
         /\ Closed(k, "Completed") /\ b.status \in Running
         /\ claims[k].status \in {"InProgress", "Competes"}
         /\ SameRun(b, c) /\ c.terms = b.terms
         /\ c.confirmed = b.confirmed
         /\ c.payment_at = b.payment_at
         /\ c.payment_confirmed_at = b.payment_confirmed_at
         /\ c.amount = b.amount /\ c.winners = b.winners
<1> DEFINE b == bounties[k[1]]
           c == bounties'[k[1]]
<1>1. /\ claims \in [ClaimKey -> Claim] /\ claims[k] \in Claim
      /\ bounties \in [BountyId -> Bounty] /\ b \in Bounty
      /\ k[1] \in BountyId
  BY Stored
<1>2. PICK proposal \in BOOLEAN : ClaimDone(k, proposal)
  BY DEF Finishes
<1>3. SameTerms(b.terms, b.terms)
  BY DEF SameTerms
<1>4. Closed(k, "Completed")
  <2>1. PICK p : claims' = [claims EXCEPT ![k] =
                   [claims[k] EXCEPT !.status = "Completed",
                                     !.payout_proposal = p]]
    BY <1>2, Zenon DEF ClaimDone
  <2> DEFINE d == [claims[k] EXCEPT !.status = "Completed",
                                    !.payout_proposal = p]
  <2>2. /\ d.status = "Completed" /\ d.slot = claims[k].slot
        /\ d.payment_at = claims[k].payment_at
        /\ d.payment_confirmed_at = claims[k].payment_confirmed_at
    BY <1>1, Zenon DEF Claim
  <2> HIDE DEF d
  <2>3. claims'[k] = d /\ \A j \in ClaimKey : j # k => claims'[j] = claims[j]
    BY <1>1, <2>1 DEF d
  <2> QED BY <2>2, <2>3 DEF Closed, OthersStay
<1>5. /\ SameRun(b, c) /\ c.terms = b.terms /\ c.confirmed = b.confirmed
      /\ c.payment_at = b.payment_at
      /\ c.payment_confirmed_at = b.payment_confirmed_at
      /\ c.amount = b.amount /\ c.winners = b.winners
  <2>1. CASE b.terms.mode = "DifferentTasks"
    <3>0. PICK d, o : /\ d = b.completed \cup {claims[k].slot}
                      /\ o = (b.proposal_id \/ proposal)
      OBVIOUS
    <3> DEFINE e == [b EXCEPT !.completed = d, !.proposal_id = o]
    <3>1. bounties' = [bounties EXCEPT ![k[1]] = e]
      BY <1>1, <1>2, <2>1, <3>0, Zenon DEF ClaimDone
    <3>2. /\ e.status = b.status /\ e.terms = b.terms
          /\ e.participants = b.participants
          /\ e.started_at = b.started_at /\ e.finished_at = b.finished_at
          /\ e.occupied_slots = b.occupied_slots
          /\ e.paid_slots = b.paid_slots
          /\ e.slots = b.slots /\ e.confirmed = b.confirmed
          /\ e.payment_at = b.payment_at
          /\ e.payment_confirmed_at = b.payment_confirmed_at
          /\ e.amount = b.amount /\ e.winners = b.winners
          /\ e.platform_fee = b.platform_fee /\ e.dao_fee = b.dao_fee
      BY <1>1, Zenon DEF Bounty
    <3> HIDE DEF e
    <3>3. c = e
      BY <1>1, <3>1 DEF e
    <3> QED BY <1>3, <3>2, <3>3 DEF SameRun, SameFees
  <2>2. CASE b.terms.mode # "DifferentTasks"
    <3>1. UNCHANGED bounties
      BY <1>2, <2>2 DEF ClaimDone
    <3> QED BY <1>3, <3>1 DEF SameRun, SameFees
  <2> QED BY <2>1, <2>2
<1> QED BY <1>2, <1>4, <1>5 DEF ClaimDone

(* internal_create_claim of a claim that has to be approved                *)
LEMMA AppliesFacts ==
  ASSUME Course, NEW k \in ClaimKey, Applies(k)
  PROVE  /\ UNCHANGED bounties /\ OthersStay(k)
         /\ claims[k].status \in Over /\ claims'[k].status = "New"
         /\ Status(k[1]) \in OpenStatuses(Mode(k[1]))
<1>1. claims \in [ClaimKey -> Claim]
  BY Stored
<1>2. PICK c \in Claim : /\ c.status = "New" /\ Fresh(k, c.slot)
                         /\ claims' = [claims EXCEPT ![k] = c]
  BY DEF Applies
<1>3. claims'[k] = c /\ \A j \in ClaimKey : j # k => claims'[j] = claims[j]
  BY <1>1, <1>2
<1> QED BY <1>2, <1>3, FreshOver DEF Applies, OthersStay

(* internal_reject_claim                                                   *)
LEMMA RejectsFacts ==
  ASSUME Course, NEW k \in ClaimKey, Rejects(k)
  PROVE  Closed(k, "Rejected")
<1>1. claims \in [ClaimKey -> Claim] /\ claims[k] \in Claim
  BY Stored
<1> DEFINE d == [claims[k] EXCEPT !.status = "Rejected", !.rejected_at = now]
<1>2. claims' = [claims EXCEPT ![k] = d]
  BY Zenon DEF Rejects
<1>3. /\ d.status = "Rejected" /\ d.slot = claims[k].slot
      /\ d.payment_at = claims[k].payment_at
      /\ d.payment_confirmed_at = claims[k].payment_confirmed_at
  BY <1>1, Zenon DEF Claim
<1> HIDE DEF d
<1>4. claims'[k] = d /\ \A j \in ClaimKey : j # k => claims'[j] = claims[j]
  BY <1>1, <1>2
<1> QED BY <1>3, <1>4 DEF Closed, OthersStay

(* The calm events are calm.                                               *)
LEMMA CalmFacts ==
  ASSUME Course, NEW id \in BountyId, CalmEvents(id)
  PROVE  Calm(id)
<1>0. \A b : SameRun(b, b)
  BY DEF SameRun, SameTerms, SameFees
<1>1. CASE Changes(id)
  <2>1. PICK u \in Updates : bounty_update(id, u)
    BY <1>1 DEF Changes
  <2>2. SameRun(bounties[id], bounties'[id]) /\ UNCHANGED claims
    BY <2>1, ChangesFacts
  <2> QED BY <2>2 DEF Calm, CalmClaim
<1>2. ASSUME NEW k \in ClaimKey, k[1] = id,
             \/ Notes(k) \/ Applies(k) \/ Finishes(k) \/ Declines(k)
             \/ Rejects(k) \/ Argues(k)
      PROVE  SameRun(bounties[id], bounties'[id]) /\ CalmClaim(k) /\ OthersStay(k)
  <2>1. CASE \E deadline \in Deadlines : extend_claim_deadline(k, deadline)
    BY <1>0, <1>2, <2>1, ExtendFacts DEF CalmClaim
  <2>2. CASE \/ \E place \in UsedPlaces(bounties[k[1]]) : mark_as_paid(k, place)
             \/ confirm_payment(k)
    BY <1>2, <2>2, PaymentFacts DEF CalmClaim
  <2>3. CASE Applies(k)
    BY <1>0, <1>2, <2>3, AppliesFacts DEF CalmClaim, Status, Mode
  <2>4. CASE Finishes(k)
    BY <1>2, <2>4, FinishesFacts DEF CalmClaim, Closed
  <2>5. CASE Declines(k)
    <3>1. PICK s \in {"NotHired", "Canceled"} : Closes(k, s)
      BY <2>5 DEF Declines
    <3>2. Closed(k, s)
      BY <3>1, ClosesFacts
    <3> QED BY <1>0, <2>5, <3>2 DEF CalmClaim, Closed, Declines
  <2>6. CASE Rejects(k)
    BY <1>0, <2>6, RejectsFacts DEF CalmClaim, Closed, Rejects
  <2>7. CASE Argues(k)
    <3>1. PICK s \in {"Disputed", "CompletedWithDispute"} :
            /\ Closes(k, s)
            /\ s = "Disputed" => claims[k].status = "Rejected"
            /\ s = "CompletedWithDispute" =>
                 /\ claims[k].status = "Disputed"
                 /\ bounties[k[1]].terms.mode = "DifferentTasks"
      BY <2>7 DEF Argues
    <3>2. Closed(k, s)
      BY <3>1, ClosesFacts
    <3> QED BY <1>0, <2>7, <3>1, <3>2 DEF CalmClaim, Closed, Argues
  <2> QED BY <1>2, <2>1, <2>2, <2>3, <2>4, <2>5, <2>6, <2>7 DEF Notes
<1> QED BY <1>1, <1>2, RestCalm DEF CalmEvents, Calm

----------------------------------------------------------------------------
(* Events that move a bounty along.                                        *)

(* What happens to bounty id, when the calm events are put together.       *)
Moves(id) ==
  \/ Begins(id) \/ start_competition(id) \/ Cancels(id) \/ Accepts(id)
  \/ \E k \in ClaimKey :
        /\ k[1] = id
        /\ Admits(k) \/ Leaves(k) \/ Resets(k) \/ Pays(k) \/ Withdraws(k)

(* A bounty is left alone, or it is calm, or it moves.                     *)
LEMMA EventKinds ==
  ASSUME Course, Shape', ClaimsStep, NEW id \in BountyId
  PROVE  Spared(id) \/ CalmEvents(id) \/ Moves(id)
<1>1. CASE BountyEvent(id)
  BY <1>1 DEF BountyEvent, CalmEvents, Moves
<1>2. ASSUME NEW k \in ClaimKey, k[1] = id, ClaimEvent(k)
      PROVE  CalmEvents(id) \/ Moves(id)
  BY <1>2 DEF ClaimEvent, PlainEvent, CalmEvents, Moves
<1> QED BY <1>1, <1>2, EventPlace

(* A bounty that is left alone is calm.                                    *)
LEMMA SparedCalm ==
  ASSUME NEW id \in BountyId, Spared(id)
  PROVE  Calm(id)
BY DEF Spared, Calm, CalmClaim, SameRun, SameTerms, SameFees

(* internal_create_bounty                                                  *)
LEMMA BeginsFacts ==
  ASSUME Course, NEW id \in BountyId, Begins(id)
  PROVE  /\ UNCHANGED claims /\ Status(id) = "Absent"
         /\ \A k \in ClaimKey : k[1] = id => claims[k].status = "Absent"
         /\ \E t \in Terms : ValidTerms(t, NewBounty(t, config).amount, now)
                             /\ bounties'[id] = NewBounty(t, config)
<1>1. /\ UNCHANGED claims /\ Status(id) = "Absent"
  BY DEF Begins
<1>2. PICK t \in Offers : /\ ValidTerms(t, NewBounty(t, config).amount, now)
                          /\ bounties' = [bounties EXCEPT ![id] = NewBounty(t, config)]
  BY DEF Begins
<1>3. t \in Terms /\ bounties'[id] = NewBounty(t, config)
  BY <1>2, OffersAssumption DEF Course, Work, Shape, TypeOK
<1>4. \A k \in ClaimKey : k[1] = id => claims[k].status = "Absent"
  BY <1>1 DEF Course, Work, Shape, Unborn, Status
<1> QED BY <1>1, <1>2, <1>3, <1>4

(* start_competition                                                       *)
LEMMA StartFacts ==
  ASSUME Course, NEW id \in BountyId, start_competition(id)
  PROVE  LET b == bounties[id]
             c == bounties'[id]
         IN
         /\ UNCHANGED claims /\ b.terms.mode = "Contest" /\ b.status = "New"
         /\ c.terms = b.terms /\ c.participants = b.participants
         /\ c.started_at = now /\ c.finished_at = Nil
         /\ c.status = "ManyClaimed" /\ now \in Nat
         /\ ~HasCompetitionStarted(b)
<1> DEFINE b == bounties[id]
           c == bounties'[id]
           d == [b EXCEPT !.started_at = now, !.finished_at = Nil,
                          !.status = "ManyClaimed"]
<1>1. /\ bounties \in [BountyId -> Bounty] /\ b \in Bounty /\ now \in Nat
  BY DEF Course, Work, Shape, TypeOK
<1>2. bounties' = [bounties EXCEPT ![id] = d]
  BY Zenon DEF start_competition
<1>3. /\ d.terms = b.terms /\ d.participants = b.participants
      /\ d.started_at = now /\ d.finished_at = Nil
      /\ d.status = "ManyClaimed"
  BY <1>1, Zenon DEF Bounty
<1>4. /\ UNCHANGED claims /\ b.terms.mode = "Contest" /\ b.status = "New"
      /\ ~HasCompetitionStarted(b)
  BY DEF start_competition
<1> HIDE DEF d
<1>5. c = d
  BY <1>1, <1>2
<1> QED BY <1>1, <1>3, <1>4, <1>5

(* internal_bounty_cancellation and, for several tasks,                    *)
(* internal_bounty_completion change the status alone.                     *)
LEMMA StatusMoves ==
  ASSUME Course, NEW id \in BountyId, Cancels(id) \/ Accepts(id),
         NEW s, s = IF ~Cancels(id) THEN "Completed"
                    ELSE IF Status(id) = "AwaitingClaims"
                    THEN "PartiallyCompleted" ELSE "Canceled"
  PROVE  /\ UNCHANGED claims
         /\ bounties'[id] = [bounties[id] EXCEPT !.status = s]
         /\ bounties[id] \in Bounty /\ Status(id) # "Absent"
<1>1. bounties \in [BountyId -> Bounty] /\ bounties[id] \in Bounty
  BY DEF Course, Work, Shape, TypeOK
<1>2. UNCHANGED claims /\ Status(id) # "Absent"
  BY DEF Cancels, Accepts, Status
<1>3. bounties' = [bounties EXCEPT ![id] = [bounties[id] EXCEPT !.status = s]]
  <2>1. CASE Cancels(id)
    BY <2>1, Zenon DEF Cancels, Status
  <2>2. CASE ~Cancels(id)
    BY <2>2, Zenon DEF Accepts
  <2> QED BY <2>1, <2>2
<1> QED BY <1>1, <1>2, <1>3

(* A claim that is closed on a bounty that takes note of it.               *)
LEMMA LeavesFacts ==
  ASSUME Course, NEW k \in ClaimKey, Leaves(k)
  PROVE  /\ bounties'[k[1]] = Left(bounties[k[1]], k)
         /\ \/ claims[k].status = "ReadyToStart" /\ Closed(k, "Canceled")
            \/ /\ claims[k].status \in {"Competes", "Completed"}
               /\ bounties[k[1]].terms.mode = "Contest"
               /\ \E s \in {"NotCompleted", "Canceled"} : Closed(k, s)
BY Stored, ClosesFacts DEF Leaves

(* The same of a claim whose bounty may be open again.                     *)
LEMMA ResetsFacts ==
  ASSUME Course, NEW k \in ClaimKey, Resets(k)
  PROVE  /\ bounties'[k[1]] = Reopened(bounties[k[1]], k)
         /\ claims[k].status \in {"InProgress", "Competes", "Completed",
                                  "Rejected", "Disputed"}
         /\ \E s \in {"Expired", "Canceled", "NotCompleted"} : Closed(k, s)
         /\ claims[k].status \notin {"InProgress", "Competes"} =>
              /\ bounties[k[1]].status \in Running
              /\ Closed(k, "NotCompleted")
BY Stored, ClosesFacts DEF Resets

(* The same of a claim that is paid.                                       *)
LEMMA PaysFacts ==
  ASSUME Course, NEW k \in ClaimKey, Pays(k)
  PROVE  \E place : bounties'[k[1]] = PaidBounty(bounties[k[1]], k, place)
                    /\ Closed(k, "Approved")
BY Stored, ClosesFacts DEF Pays

(* The same of a task whose reward is withdrawn.                           *)
LEMMA WithdrawsFacts ==
  ASSUME Course, NEW k \in ClaimKey, Withdraws(k)
  PROVE  /\ bounties'[k[1]] = ResetSlot(bounties[k[1]], claims[k].slot)
         /\ Closed(k, "Approved")
BY Stored, ClosesFacts DEF Withdraws

(* A claim that is approved: what it becomes, and what becomes of the      *)
(* others on its bounty.                                                   *)
Admitted(k, s) ==
  LET b == bounties[k[1]] IN
  /\ TakesClaims(b, s, now) /\ b.status \in OpenStatuses(b.terms.mode)
  /\ claims[k].status \in Over \cup {"New"}
  /\ bounties'[k[1]] = BountyOnApproval(b, k, s)
  /\ claims'[k].slot = s
  /\ claims'[k].status = AdmittedStatus(b, k, s)
  /\ \A j \in ClaimKey : j # k /\ j \notin Released(b, k, s) =>
       claims'[j] = claims[j]
  /\ \A j \in Released(b, k, s) :
       /\ claims'[j].status = ApprovedStatus(b)
       /\ claims'[j].slot = claims[j].slot
       /\ claims'[j].payment_at = claims[j].payment_at
       /\ claims'[j].payment_confirmed_at = claims[j].payment_confirmed_at

(* internal_claimant_approval reaches only a bounty that takes claims, and *)
(* only a claim that waits for an answer or is over.                       *)
LEMMA AdmitsFacts ==
  ASSUME Course, NEW k \in ClaimKey, Admits(k)
  PROVE  \E s \in Places \cup {Nil} : Admitted(k, s)
<1> DEFINE b == bounties[k[1]]
<1>1. PICK c \in Claim, delayed \in Deferments \cup {Nil} :
        /\ c.status = "New"
        /\ ApproveClaimant(k, c, delayed)
        /\ \/ c = claims[k] /\ MayDecide(k)
           \/ Fresh(k, c.slot)
  BY DEF Admits
<1>2. /\ TakesClaims(b, c.slot, now) /\ b.status \in OpenStatuses(b.terms.mode)
      /\ claims[k].status \in Over \cup {"New"}
  BY <1>1, FreshOver DEF MayDecide, Status, Mode
<1>3. c.slot \in Places \cup {Nil}
  BY DEF Claim
<1>4. claims'[k].slot = c.slot /\ claims'[k].status = AdmittedStatus(b, k, c.slot)
  BY <1>1, ApproveOwn
<1>5. ASSUME NEW j \in Released(b, k, c.slot)
      PROVE  /\ claims'[j].status = ApprovedStatus(b)
             /\ claims'[j].slot = claims[j].slot
             /\ claims'[j].payment_at = claims[j].payment_at
             /\ claims'[j].payment_confirmed_at = claims[j].payment_confirmed_at
  <2>1. claims[j] \in Claim
    BY ReleasedFacts, Stored
  <2>2. claims'[j] = [claims[j] EXCEPT !.status = ApprovedStatus(b),
                                       !.start_time = now]
    BY <1>1, ApproveStores
  <2>3. PICK d : d = [claims[j] EXCEPT !.status = ApprovedStatus(b),
                                       !.start_time = now]
    OBVIOUS
  <2>4. /\ d.status = ApprovedStatus(b) /\ d.slot = claims[j].slot
        /\ d.payment_at = claims[j].payment_at
        /\ d.payment_confirmed_at = claims[j].payment_confirmed_at
    BY <2>1, <2>3, Zenon DEF Claim
  <2>5. claims'[j] = d
    BY <2>2, <2>3, Zenon
  <2> QED BY <2>4, <2>5
<1>6. /\ bounties'[k[1]] = BountyOnApproval(b, k, c.slot)
      /\ \A j \in ClaimKey : j # k /\ j \notin Released(b, k, c.slot) =>
           claims'[j] = claims[j]
  BY <1>1, ApproveStores
<1>7. Admitted(k, c.slot)
  BY <1>2, <1>4, <1>5, <1>6 DEF Admitted
<1> QED BY <1>3, <1>7

----------------------------------------------------------------------------
(* Counting claims.                                                        *)

(* The claims with a status other than "Absent" are finitely many.         *)
LEMMA CountFacts ==
  ASSUME Course, NEW id \in BountyId, NEW S, "Absent" \notin S
  PROVE  /\ IsFiniteSet(ClaimsOf(id, S)) /\ Cardinality(ClaimsOf(id, S)) \in Nat
         /\ Cardinality(ClaimsOf(id, S)) = 0 => ClaimsOf(id, S) = {}
<1>1. IsFiniteSet(Made(id)) /\ ClaimsOf(id, S) \in SUBSET Made(id)
  BY DEF Course, Made, ClaimsOf
<1>2. IsFiniteSet(ClaimsOf(id, S))
  BY <1>1, FS_Subset
<1> QED BY <1>2, FS_CardinalityType, FS_EmptySet

(* No claim comes under the statuses S or leaves them.                     *)
LEMMA CountSame ==
  ASSUME NEW id, NEW S,
         \A j \in ClaimKey : j[1] = id =>
           (claims'[j].status \in S <=> claims[j].status \in S)
  PROVE  ClaimsOf(id, S)' = ClaimsOf(id, S)
BY DEF ClaimsOf

(* One claim comes under them.                                             *)
LEMMA CountJoins ==
  ASSUME Course, NEW k \in ClaimKey, NEW S, "Absent" \notin S,
         claims[k].status \notin S, claims'[k].status \in S,
         \A j \in ClaimKey : j[1] = k[1] /\ j # k =>
           (claims'[j].status \in S <=> claims[j].status \in S)
  PROVE  Cardinality(ClaimsOf(k[1], S)') = Cardinality(ClaimsOf(k[1], S)) + 1
<1>1. IsFiniteSet(ClaimsOf(k[1], S)) /\ k \notin ClaimsOf(k[1], S)
  BY KeyType, CountFacts DEF ClaimsOf
<1>2. ClaimsOf(k[1], S)' = ClaimsOf(k[1], S) \cup {k}
  BY DEF ClaimsOf
<1> QED BY <1>1, <1>2, FS_AddElement

(* One claim leaves them.                                                  *)
LEMMA CountLeaves ==
  ASSUME Course, NEW k \in ClaimKey, NEW S, "Absent" \notin S,
         claims[k].status \in S, claims'[k].status \notin S,
         \A j \in ClaimKey : j[1] = k[1] /\ j # k =>
           (claims'[j].status \in S <=> claims[j].status \in S)
  PROVE  Cardinality(ClaimsOf(k[1], S)') = Cardinality(ClaimsOf(k[1], S)) - 1
<1>1. IsFiniteSet(ClaimsOf(k[1], S)) /\ k \in ClaimsOf(k[1], S)
  BY KeyType, CountFacts DEF ClaimsOf
<1>2. ClaimsOf(k[1], S)' = ClaimsOf(k[1], S) \ {k}
  BY DEF ClaimsOf
<1> HIDE DEF ClaimsOf
<1>3. Cardinality(ClaimsOf(k[1], S) \ {k}) = Cardinality(ClaimsOf(k[1], S)) - 1
  BY <1>1, FS_RemoveElement
<1> QED BY <1>2, <1>3

----------------------------------------------------------------------------
(* The numbers of the claims.                                              *)

(* A new claim comes after those the account has.                          *)
LEMMA FreshNext ==
  ASSUME Course, NEW k \in ClaimKey, NEW slot, Fresh(k, slot)
  PROVE  \A j \in ClaimKey :
           j[1] = k[1] /\ j[2] = k[2] /\ j[3] < k[3] =>
             claims[j].status # "Absent"
<1>1. SUFFICES ASSUME NEW j \in ClaimKey, j[1] = k[1], j[2] = k[2],
                      j[3] < k[3], claims[j].status = "Absent"
               PROVE  FALSE
  OBVIOUS
<1> DEFINE n == k[3]
           m == j[3]
           made == {x \in ClaimKey : /\ x[1] = k[1] /\ x[2] = k[2]
                                     /\ claims[x].status # "Absent"}
<1>2. /\ m \in Nat /\ n \in Nat /\ m < n /\ k[1] \in BountyId
      /\ \A x \in ClaimKey : x[3] \in Nat /\ x = <<x[1], x[2], x[3]>>
  BY <1>1, KeyType, TypesAssumption DEF ClaimKey, Numbers
<1>3. n = Cardinality(made)
  BY <1>1, <1>2 DEF Fresh, NextKey, NumberOfClaims
<1>4. IsFiniteSet(made)
  <2>1. IsFiniteSet(Made(k[1])) /\ made \in SUBSET Made(k[1])
    BY <1>2 DEF Course, Made
  <2> QED BY <2>1, FS_Subset
<1>5. ASSUME NEW x \in made
      PROVE  x[3] \in 0 .. m - 1
  <2>1. /\ x \in ClaimKey /\ x[1] = k[1] /\ x[2] = k[2]
        /\ claims[x].status # "Absent"
    OBVIOUS
  <2>2. x[3] # m
    <3>1. SUFFICES ASSUME x[3] = m PROVE FALSE
      OBVIOUS
    <3>2. x = <<x[1], x[2], x[3]>> /\ j = <<j[1], j[2], j[3]>>
      BY <1>2, <2>1
    <3>3. x = j
      BY <1>1, <2>1, <3>1, <3>2, Zenon
    <3> QED BY <1>1, <2>1, <3>3
  <2>3. ~(m < x[3])
    <3>1. Numbered(k[1])
      BY <1>2 DEF Course
    <3> QED BY <1>1, <2>1, <3>1 DEF Numbered
  <2> QED BY <1>2, <2>1, <2>2, <2>3
<1> DEFINE f == [x \in made |-> x[3]]
<1>6. f \in [made -> 0 .. m - 1]
  BY <1>5
<1>7. /\ \A x \in made : x = <<k[1], k[2], x[3]>>
      /\ \A x \in made : f[x] = x[3]
  <2>1. SUFFICES ASSUME NEW x \in made PROVE x = <<k[1], k[2], x[3]>>
    OBVIOUS
  <2>2. x = <<x[1], x[2], x[3]>> /\ x[1] = k[1] /\ x[2] = k[2]
    BY <1>2
  <2> QED BY <2>2, Zenon
<1> DEFINE last == m - 1
           below == 0 .. last
<1> HIDE DEF made, m, n, f
<1>8. last \in Int /\ (0 > last => m = 0) /\ m = last + 1
  BY <1>2
<1>9. f \in [made -> below]
  BY <1>6
<1> HIDE DEF last
<1>10. /\ IsFiniteSet(below)
       /\ Cardinality(below) = IF 0 > last THEN 0 ELSE last - 0 + 1
  BY <1>8, FS_Interval
<1>11. Cardinality(below) < Cardinality(made)
  BY <1>2, <1>3, <1>8, <1>10
<1> HIDE DEF below
<1>12. \E x, y \in made : x # y /\ f[x] = f[y]
  BY <1>4, <1>9, <1>10, <1>11, FS_PigeonHole
<1>13. PICK x, y \in made : x # y /\ f[x] = f[y]
  BY <1>12
<1>14. x[3] = y[3]
  BY <1>7, <1>13
<1>15. x = <<k[1], k[2], x[3]>> /\ y = <<k[1], k[2], y[3]>>
  BY <1>7
<1> QED BY <1>13, <1>14, <1>15, Zenon

(* What an event makes of the set of claims: no claim is forgotten, and at *)
(* most one is made, the next of its account.                              *)
LEMMA MadeGrows ==
  ASSUME Course, Shape', NEW k \in ClaimKey, ClaimEvent(k)
  PROVE  /\ \A j \in ClaimKey : j # k =>
              (claims'[j].status = "Absent" <=> claims[j].status = "Absent")
         /\ claims[k].status # "Absent" => claims'[k].status # "Absent"
         /\ claims[k].status = "Absent" =>
              \A j \in ClaimKey :
                 j[1] = k[1] /\ j[2] = k[2] /\ j[3] < k[3] =>
                   claims[j].status # "Absent"
<1>1. CASE Notes(k) \/ Finishes(k) \/ Declines(k) \/ Rejects(k) \/ Argues(k)
           \/ Applies(k)
  <2>1. OthersStay(k)
    <3>1. CASE \E deadline \in Deadlines : extend_claim_deadline(k, deadline)
      BY <3>1, ExtendFacts
    <3>2. CASE \/ \E place \in UsedPlaces(bounties[k[1]]) : mark_as_paid(k, place)
               \/ confirm_payment(k)
      BY <3>2, PaymentFacts
    <3>3. CASE \E s : Closed(k, s)
      BY <3>3 DEF Closed
    <3>4. CASE Applies(k)
      BY <3>4, AppliesFacts
    <3> QED BY <1>1, <3>1, <3>2, <3>3, <3>4, FinishesFacts, RejectsFacts,
               ClosesFacts DEF Notes, Declines, Argues
  <2>2. CASE ~Applies(k)
    <3>1. claims[k].status # "Absent" /\ claims'[k].status # "Absent"
      <4>1. CASE Notes(k)
        BY <4>1, ExtendFacts, PaymentFacts DEF Notes
      <4>2. CASE Finishes(k)
        BY <4>2, FinishesFacts DEF Closed
      <4>3. CASE Declines(k)
        BY <4>3, ClosesFacts DEF Declines, Closed
      <4>4. CASE Rejects(k)
        BY <4>4, RejectsFacts DEF Closed, Rejects
      <4>5. CASE Argues(k)
        BY <4>5, ClosesFacts DEF Argues, Closed
      <4> QED BY <1>1, <2>2, <4>1, <4>2, <4>3, <4>4, <4>5
    <3> QED BY <2>1, <3>1 DEF OthersStay
  <2>3. CASE Applies(k)
    <3>1. PICK slot : Fresh(k, slot)
      BY <2>3 DEF Applies
    <3>2. claims'[k].status # "Absent"
      BY <2>3, AppliesFacts
    <3> QED BY <2>1, <3>1, <3>2, FreshNext DEF OthersStay
  <2> QED BY <2>2, <2>3
<1>2. CASE Leaves(k) \/ Resets(k) \/ Pays(k) \/ Withdraws(k)
  <2>1. PICK s : s # "Absent" /\ Closed(k, s)
    <3>1. CASE Leaves(k)
      BY <3>1, LeavesFacts
    <3>2. CASE Resets(k)
      BY <3>2, ResetsFacts
    <3>3. CASE Pays(k)
      BY <3>3, PaysFacts
    <3>4. CASE Withdraws(k)
      BY <3>4, WithdrawsFacts
    <3> QED BY <1>2, <3>1, <3>2, <3>3, <3>4
  <2>2. claims[k].status # "Absent"
    <3>1. CASE Leaves(k)
      BY <3>1 DEF Leaves
    <3>2. CASE Resets(k)
      BY <3>2 DEF Resets
    <3>3. CASE Pays(k)
      BY <3>3 DEF Pays
    <3>4. CASE Withdraws(k)
      BY <3>4 DEF Withdraws
    <3> QED BY <1>2, <3>1, <3>2, <3>3, <3>4
  <2> QED BY <2>1, <2>2 DEF Closed, OthersStay
<1>3. CASE Admits(k)
  <2>1. PICK s \in Places \cup {Nil} : Admitted(k, s)
    BY <1>3, AdmitsFacts
  <2>2. /\ ApprovedStatus(bounties[k[1]]) # "Absent"
        /\ AdmittedStatus(bounties[k[1]], k, s) # "Absent"
    BY DEF ApprovedStatus, AdmittedStatus
  <2>3. ASSUME NEW j \in ClaimKey, j # k
        PROVE  claims'[j].status = "Absent" <=> claims[j].status = "Absent"
    <3>1. CASE j \in Released(bounties[k[1]], k, s)
      BY <2>1, <2>2, <3>1, ReleasedFacts DEF Admitted
    <3>2. CASE j \notin Released(bounties[k[1]], k, s)
      BY <2>1, <2>3, <3>2 DEF Admitted
    <3> QED BY <3>1, <3>2
  <2>4. claims[k].status = "Absent" => \E slot : Fresh(k, slot)
    BY <1>3 DEF Admits, MayDecide
  <2>5. claims'[k].status # "Absent"
    BY <2>1, <2>2 DEF Admitted
  <2> QED BY <2>3, <2>4, <2>5, FreshNext
<1> QED BY <1>1, <1>2, <1>3 DEF ClaimEvent, PlainEvent

(* The claims on a bounty stay numbered from 0 on.                         *)
LEMMA NumberedKept ==
  ASSUME Course, Shape', ClaimsStep, NEW id \in BountyId
  PROVE  Numbered(id)' /\ IsFiniteSet(Made(id)')
<1>0. Numbered(id) /\ IsFiniteSet(Made(id))
  BY DEF Course
<1>1. CASE Spared(id) \/ BountyEvent(id)
  <2>1. \A k \in ClaimKey : k[1] = id => claims'[k].status = claims[k].status
    <3>1. CASE Spared(id)
      BY <3>1 DEF Spared
    <3>2. CASE BountyEvent(id)
      BY <3>2, Zenon DEF BountyEvent, Begins, Changes, bounty_update, Cancels,
         Accepts, start_competition
    <3> QED BY <1>1, <3>1, <3>2
  <2>2. Made(id)' = Made(id)
    BY <2>1 DEF Made
  <2> QED BY <1>0, <2>1, <2>2 DEF Numbered
<1>2. ASSUME NEW k \in ClaimKey, k[1] = id, ClaimEvent(k)
      PROVE  Numbered(id)' /\ IsFiniteSet(Made(id)')
  <2>1. /\ \A j \in ClaimKey : j # k =>
             (claims'[j].status = "Absent" <=> claims[j].status = "Absent")
        /\ claims[k].status # "Absent" => claims'[k].status # "Absent"
        /\ claims[k].status = "Absent" =>
             \A j \in ClaimKey :
                j[1] = k[1] /\ j[2] = k[2] /\ j[3] < k[3] =>
                  claims[j].status # "Absent"
    BY <1>2, MadeGrows
  <2>2. Made(id)' \in SUBSET (Made(id) \cup {k})
    BY <2>1 DEF Made
  <2>3. IsFiniteSet(Made(id) \cup {k})
    BY <1>0, FS_AddElement
  <2>4. IsFiniteSet(Made(id)')
    BY <2>2, <2>3, FS_Subset
  <2>5. \A j \in ClaimKey : claims[j].status # "Absent" =>
                              claims'[j].status # "Absent"
    BY <2>1
  <2>6. ASSUME NEW j \in ClaimKey, NEW i \in ClaimKey, j[1] = id, i[1] = id,
               j[2] = i[2], j[3] < i[3], claims'[i].status # "Absent"
        PROVE  claims'[j].status # "Absent"
    <3>1. CASE claims[i].status # "Absent"
      BY <1>0, <2>5, <2>6, <3>1 DEF Numbered
    <3>2. CASE claims[i].status = "Absent"
      BY <1>2, <2>1, <2>5, <2>6, <3>2
    <3> QED BY <3>1, <3>2
  <2>7. Numbered(id)'
    BY <2>6 DEF Numbered
  <2> QED BY <2>4, <2>7
<1> QED BY <1>1, <1>2, EventPlace

----------------------------------------------------------------------------
(* What the events that move a bounty make of it, field by field.          *)

(* A cancellation, or the acceptance of several tasks.                     *)
LEMMA StatusEffect ==
  ASSUME Course, NEW id \in BountyId, Cancels(id) \/ Accepts(id),
         NEW b, b = bounties[id], NEW c, c = bounties'[id]
  PROVE  /\ b \in Bounty /\ b.status # "Absent" /\ UNCHANGED claims
         /\ c.status = IF ~Cancels(id) THEN "Completed"
                       ELSE IF b.status = "AwaitingClaims"
                       THEN "PartiallyCompleted" ELSE "Canceled"
         /\ c.terms = b.terms /\ c.participants = b.participants
         /\ c.started_at = b.started_at /\ c.finished_at = b.finished_at
         /\ c.occupied_slots = b.occupied_slots /\ c.paid_slots = b.paid_slots
         /\ c.slots = b.slots /\ c.confirmed = b.confirmed
         /\ c.payment_at = b.payment_at
         /\ c.payment_confirmed_at = b.payment_confirmed_at
<1>1. PICK s : s = IF ~Cancels(id) THEN "Completed"
                   ELSE IF Status(id) = "AwaitingClaims"
                   THEN "PartiallyCompleted" ELSE "Canceled"
  OBVIOUS
<1>2. /\ UNCHANGED claims
      /\ bounties'[id] = [bounties[id] EXCEPT !.status = s]
      /\ bounties[id] \in Bounty /\ Status(id) # "Absent"
  BY <1>1, StatusMoves
<1>3. c = [b EXCEPT !.status = s] /\ b \in Bounty
  BY <1>2, Zenon
<1>4. /\ c.status = s
      /\ c.terms = b.terms /\ c.participants = b.participants
      /\ c.started_at = b.started_at /\ c.finished_at = b.finished_at
      /\ c.occupied_slots = b.occupied_slots /\ c.paid_slots = b.paid_slots
      /\ c.slots = b.slots /\ c.confirmed = b.confirmed
      /\ c.payment_at = b.payment_at
      /\ c.payment_confirmed_at = b.payment_confirmed_at
  BY <1>3, Zenon DEF Bounty
<1> QED BY <1>1, <1>2, <1>3, <1>4 DEF Status

(* A claim that is not worked on leaves.                                   *)
LEMMA LeavesEffect ==
  ASSUME Course, NEW k \in ClaimKey, Leaves(k),
         NEW b, b = bounties[k[1]], NEW c, c = bounties'[k[1]]
  PROVE  /\ b \in Bounty /\ b.status # "Absent"
         /\ c.terms = b.terms /\ c.status = b.status
         /\ b.terms.mode = "Contest" =>
              /\ c.participants = b.participants - 1
              /\ c.started_at = b.started_at /\ c.finished_at = b.finished_at
         /\ b.terms.mode = "OneForAll" =>
              /\ c.occupied_slots = b.occupied_slots - 1
              /\ c.paid_slots = b.paid_slots
         /\ b.terms.mode = "DifferentTasks" =>
              /\ c.slots = Vacated(b.slots, claims[k].slot)
              /\ c.confirmed = b.confirmed \ {claims[k].slot}
<1>1. b \in Bounty /\ b.status # "Absent" /\ c = Left(b, k)
  BY Stored, LeavesFacts DEF Leaves
<1> QED BY <1>1, LeftFields

(* A claim leaves, and the bounty may be open again.                       *)
LEMMA ResetsEffect ==
  ASSUME Course, NEW k \in ClaimKey, Resets(k),
         NEW b, b = bounties[k[1]], NEW c, c = bounties'[k[1]]
  PROVE  /\ b \in Bounty /\ b.status # "Absent" /\ c.terms = b.terms
         /\ b.terms.mode = "None" =>
              /\ c.status = "New" /\ c.payment_at = b.payment_at
              /\ c.payment_confirmed_at = b.payment_confirmed_at
         /\ b.terms.mode = "Contest" =>
              /\ c.started_at = b.started_at
              /\ \/ /\ c.status = b.status
                    /\ c.participants = b.participants - 1
                    /\ c.finished_at = b.finished_at
                 \/ /\ b.status = "ManyClaimed" /\ c.status = "New"
                    /\ b.participants = 1 /\ c.participants = 0
                    /\ c.finished_at = now
         /\ b.terms.mode = "OneForAll" =>
              /\ c.occupied_slots = b.occupied_slots - 1
              /\ c.paid_slots = b.paid_slots
              /\ c.status = PausedStatus(b)
         /\ b.terms.mode = "DifferentTasks" =>
              /\ c.slots = Vacated(b.slots, claims[k].slot)
              /\ c.confirmed = b.confirmed \ {claims[k].slot}
              /\ \/ c.status = b.status
                 \/ /\ c.status = "New"
                    /\ \A s \in UsedPlaces(b) : c.slots[s] = Nil
<1>1. b \in Bounty /\ b.status # "Absent" /\ c = Reopened(b, k)
  BY Stored, ResetsFacts
<1> QED BY <1>1, ReopenedFields

(* A claim is paid.                                                        *)
LEMMA PaysEffect ==
  ASSUME Course, NEW k \in ClaimKey, Pays(k),
         NEW b, b = bounties[k[1]], NEW c, c = bounties'[k[1]]
  PROVE  /\ b \in Bounty /\ b.status \in Running
         /\ b.terms.mode \in {"None", "Contest", "OneForAll"}
         /\ c.terms = b.terms
         /\ b.terms.mode = "None" =>
              /\ c.status = "Completed" /\ c.payment_at = b.payment_at
              /\ c.payment_confirmed_at = b.payment_confirmed_at
         /\ b.terms.mode = "Contest" =>
              /\ c.started_at = b.started_at
              /\ c.participants = b.participants - 1
              /\ \/ c.status = b.status /\ c.finished_at = b.finished_at
                 \/ c.status = "Completed"
         /\ b.terms.mode = "OneForAll" =>
              /\ c.occupied_slots = b.occupied_slots - 1
              /\ c.paid_slots = b.paid_slots + 1
              /\ c.status = SlotPaidStatus(b)
<1>1. PICK place : c = PaidBounty(b, k, place)
  BY PaysFacts
<1>2. b \in Bounty /\ b.status \in Running /\ b.terms.mode # "DifferentTasks"
  BY Stored DEF Pays
<1>3. b.terms.mode \in {"None", "Contest", "OneForAll"}
  BY <1>2 DEF Bounty, Terms, Modes
<1> QED BY <1>1, <1>2, <1>3, PaidFields

(* A reward is withdrawn.                                                  *)
LEMMA WithdrawsEffect ==
  ASSUME Course, NEW k \in ClaimKey, Withdraws(k),
         NEW b, b = bounties[k[1]], NEW c, c = bounties'[k[1]]
  PROVE  /\ b \in Bounty /\ b.status \in {"Completed", "Canceled"}
         /\ b.terms.mode = "DifferentTasks"
         /\ c.terms = b.terms /\ c.status = b.status
         /\ c.slots = Vacated(b.slots, claims[k].slot)
         /\ c.confirmed = b.confirmed \ {claims[k].slot}
<1>1. b \in Bounty /\ c = ResetSlot(b, claims[k].slot)
  BY Stored, WithdrawsFacts
<1>2. /\ b.terms.mode = "DifferentTasks"
      /\ b.status \in {"Completed", "Canceled"}
  BY DEF Withdraws, Finished, Status
<1> QED BY <1>1, <1>2, ResetSlotFields

(* A claim is approved.                                                    *)
LEMMA AdmitsEffect ==
  ASSUME Course, NEW k \in ClaimKey, NEW s, Admitted(k, s),
         NEW b, b = bounties[k[1]], NEW c, c = bounties'[k[1]]
  PROVE  /\ b \in Bounty /\ b.status # "Absent"
         /\ b.status \in OpenStatuses(b.terms.mode)
         /\ c.terms = b.terms
         /\ c.status = StatusOnApproval(b, k, s)
         /\ b.terms.mode = "None" =>
              /\ c.payment_at = b.payment_at
              /\ c.payment_confirmed_at = b.payment_confirmed_at
         /\ b.terms.mode = "Contest" =>
              /\ c.participants = b.participants + 1
              /\ StartsWork(b, k, s) => c.started_at = now /\ c.finished_at = Nil
              /\ ~StartsWork(b, k, s) =>
                   c.started_at = b.started_at /\ c.finished_at = b.finished_at
         /\ b.terms.mode = "OneForAll" =>
              /\ c.occupied_slots = b.occupied_slots + 1
              /\ c.paid_slots = b.paid_slots
         /\ b.terms.mode = "DifferentTasks" =>
              /\ c.slots = Taken(b.slots, s, k)
              /\ c.confirmed = b.confirmed \ {s}
<1>1. /\ b \in Bounty /\ c = BountyOnApproval(b, k, s)
      /\ b.status \in OpenStatuses(b.terms.mode)
  BY Stored DEF Admitted
<1>2. b.status # "Absent"
  BY <1>1 DEF OpenStatuses
<1> QED BY <1>1, <1>2, ApprovalFields

(* A bounty that is there never gets other terms by moving.                *)
LEMMA MoveTerms ==
  ASSUME Course, NEW id \in BountyId, Moves(id), ~Begins(id)
  PROVE  /\ bounties'[id].terms = bounties[id].terms
         /\ Status(id) # "Absent" /\ bounties[id] \in Bounty
<1> DEFINE b == bounties[id]
           c == bounties'[id]
<1>1. CASE start_competition(id)
  BY <1>1, StartFacts DEF Course, Work, Shape, TypeOK, Status
<1>2. CASE Cancels(id) \/ Accepts(id)
  BY <1>2, StatusEffect DEF Status
<1>3. ASSUME NEW k \in ClaimKey, k[1] = id, Admits(k)
      PROVE  c.terms = b.terms /\ b.status # "Absent" /\ b \in Bounty
  BY <1>3, AdmitsFacts, AdmitsEffect
<1>4. ASSUME NEW k \in ClaimKey, k[1] = id, Leaves(k)
      PROVE  c.terms = b.terms /\ b.status # "Absent" /\ b \in Bounty
  BY <1>4, LeavesEffect
<1>5. ASSUME NEW k \in ClaimKey, k[1] = id, Resets(k)
      PROVE  c.terms = b.terms /\ b.status # "Absent" /\ b \in Bounty
  BY <1>5, ResetsEffect
<1>6. ASSUME NEW k \in ClaimKey, k[1] = id, Pays(k)
      PROVE  c.terms = b.terms /\ b.status # "Absent" /\ b \in Bounty
  BY <1>6, PaysEffect DEF Running
<1>7. ASSUME NEW k \in ClaimKey, k[1] = id, Withdraws(k)
      PROVE  c.terms = b.terms /\ b.status # "Absent" /\ b \in Bounty
  BY <1>7, WithdrawsEffect
<1> QED BY <1>1, <1>2, <1>3, <1>4, <1>5, <1>6, <1>7 DEF Moves, Status

----------------------------------------------------------------------------
(* The statuses of each mode.                                              *)

(* The statuses in which a bounty takes claims, mode by mode.              *)
LEMMA Opened ==
  /\ OpenStatuses("None") = {"New"}
  /\ OpenStatuses("OneForAll") = {"New", "ManyClaimed", "AwaitingClaims"}
  /\ OpenStatuses("Contest") = {"New", "ManyClaimed"}
  /\ OpenStatuses("DifferentTasks") = {"New", "ManyClaimed"}
<1>1. OpenStatuses("None") = {"New"}
  BY DEF OpenStatuses
<1>2. OpenStatuses("OneForAll") = {"New", "ManyClaimed", "AwaitingClaims"}
  BY DEF OpenStatuses
<1>3. OpenStatuses("Contest") = {"New", "ManyClaimed"}
  BY DEF OpenStatuses
<1>4. OpenStatuses("DifferentTasks") = {"New", "ManyClaimed"}
  BY DEF OpenStatuses
<1> QED BY <1>1, <1>2, <1>3, <1>4

(* A bounty keeps to the statuses of its mode.                             *)
LEMMA StatusFitsKept ==
  ASSUME Course, Shape', NEW id \in BountyId, Calm(id) \/ Moves(id)
  PROVE  StatusFits(id)'
<1> PICK b : b = bounties[id]
  OBVIOUS
<1> PICK c : c = bounties'[id]
  OBVIOUS
<1>0. StatusFits(id) /\ b \in Bounty /\ b.terms.mode \in Modes
  BY DEF Course, Work, Shape, TypeOK, Bounty, Terms
<1>1. SUFFICES /\ c.status = "Claimed" => c.terms.mode = "None"
               /\ c.status = "ManyClaimed" => c.terms.mode # "None"
               /\ c.status \in {"AwaitingClaims", "PartiallyCompleted"} =>
                    c.terms.mode = "OneForAll"
               /\ /\ c.status # "Absent"
                  /\ c.terms.dao \/ c.terms.kyc = "DuringClaimApproval"
                  => c.terms.flow = "AdvancedFlow"
  BY DEF StatusFits
<1>2. CASE Calm(id)
  BY <1>0, <1>2 DEF StatusFits, Calm, SameRun, SameTerms
<1>3. CASE Begins(id)
  <2>1. PICK t \in Terms : /\ ValidTerms(t, NewBounty(t, config).amount, now)
                           /\ bounties'[id] = NewBounty(t, config)
    BY <1>3, BeginsFacts
  <2>2. c.status = "New" /\ c.terms = t
    BY <2>1, NewFields
  <2>3. t.dao \/ t.kyc = "DuringClaimApproval" => t.flow = "AdvancedFlow"
    BY <2>1 DEF ValidTerms, Terms, Flows
  <2> QED BY <2>1, <2>2, <2>3
<1>4. CASE Moves(id) /\ ~Begins(id)
  <2>1. c.terms = b.terms /\ b.status # "Absent"
    BY <1>4, MoveTerms DEF Status
  <2>2. c.terms.dao \/ c.terms.kyc = "DuringClaimApproval" =>
          c.terms.flow = "AdvancedFlow"
    BY <1>0, <2>1 DEF StatusFits
  <2>3. SUFFICES /\ c.status = "Claimed" => b.terms.mode = "None"
                 /\ c.status = "ManyClaimed" => b.terms.mode # "None"
                 /\ c.status \in {"AwaitingClaims", "PartiallyCompleted"} =>
                      b.terms.mode = "OneForAll"
    BY <2>1, <2>2
  <2>4. CASE c.status = b.status
    BY <1>0, <2>4 DEF StatusFits
  <2>5. CASE start_competition(id)
    BY <2>5, StartFacts
  <2>6. CASE Cancels(id) \/ Accepts(id)
    BY <1>0, <2>6, StatusEffect DEF StatusFits
  <2>7. ASSUME NEW k \in ClaimKey, k[1] = id, Admits(k)
        PROVE  \/ c.status = b.status
               \/ c.status = "Claimed" /\ b.terms.mode = "None"
               \/ c.status = "ManyClaimed" /\ b.terms.mode # "None"
    <3>1. PICK s : Admitted(k, s)
      BY <2>7, AdmitsFacts
    <3>2. c.status = StatusOnApproval(b, k, s)
      BY <2>7, <3>1, AdmitsEffect
    <3> QED BY <3>2 DEF StatusOnApproval
  <2>8. ASSUME NEW k \in ClaimKey, k[1] = id, Leaves(k)
        PROVE  c.status = b.status
    BY <2>8, LeavesEffect
  <2>9. ASSUME NEW k \in ClaimKey, k[1] = id, Resets(k)
        PROVE  \/ c.status = b.status \/ c.status = "New"
               \/ c.status = "AwaitingClaims" /\ b.terms.mode = "OneForAll"
    BY <1>0, <2>9, ResetsEffect DEF PausedStatus, Modes
  <2>10. ASSUME NEW k \in ClaimKey, k[1] = id, Pays(k)
         PROVE  \/ c.status = b.status \/ c.status = "Completed"
                \/ c.status = "AwaitingClaims" /\ b.terms.mode = "OneForAll"
    BY <2>10, PaysEffect DEF SlotPaidStatus
  <2>11. ASSUME NEW k \in ClaimKey, k[1] = id, Withdraws(k)
         PROVE  c.status = b.status
    BY <2>11, WithdrawsEffect
  <2> QED BY <1>4, <2>4, <2>5, <2>6, <2>7, <2>8, <2>9, <2>10, <2>11 DEF Moves
<1> QED BY <1>2, <1>3, <1>4

(* What a move makes of the claims of the bounty: one claim leaves or      *)
(* joins, and those that waited with it may be released.                   *)
MovedClaims(id, k) ==
  \/ UNCHANGED claims
  \/ /\ k[1] = id
     /\ \E s \in {"Canceled", "Expired", "NotCompleted", "Approved"} :
          Closed(k, s)
     /\ claims[k].status \notin Over \cup {"New"}
  \/ /\ k[1] = id /\ Admits(k)
     /\ \E s \in Places \cup {Nil} : Admitted(k, s)

(* What moves a bounty stores one claim of it, or approves one, or none.   *)
LEMMA MoveClaims ==
  ASSUME Course, NEW id \in BountyId, Moves(id)
  PROVE  \/ UNCHANGED claims
         \/ \E k \in ClaimKey : MovedClaims(id, k)
<1>1. CASE start_competition(id) \/ Cancels(id) \/ Accepts(id) \/ Begins(id)
  BY <1>1, StartFacts, StatusMoves DEF Cancels, Accepts, Begins
<1>2. ASSUME NEW k \in ClaimKey, k[1] = id, Admits(k)
      PROVE  MovedClaims(id, k)
  BY <1>2, AdmitsFacts DEF MovedClaims
<1>3. ASSUME NEW k \in ClaimKey, k[1] = id,
             Leaves(k) \/ Resets(k) \/ Pays(k) \/ Withdraws(k)
      PROVE  MovedClaims(id, k)
  <2>1. claims[k].status \notin Over \cup {"New"}
    BY <1>3 DEF Leaves, Resets, Pays, Withdraws, Over
  <2>2. \E s \in {"Canceled", "Expired", "NotCompleted", "Approved"} :
          Closed(k, s)
    BY <1>3, LeavesFacts, ResetsFacts, PaysFacts, WithdrawsFacts
  <2> QED BY <1>3, <2>1, <2>2 DEF MovedClaims
<1> QED BY <1>1, <1>2, <1>3 DEF Moves

(* A claim keeps to the statuses of the mode of its bounty.                *)
LEMMA ClaimFitsKept ==
  ASSUME Course, Shape', NEW k \in ClaimKey, Calm(k[1]) \/ Moves(k[1])
  PROVE  ClaimFits(k)'
<1> PICK b : b = bounties[k[1]]
  OBVIOUS
<1> PICK c : c = bounties'[k[1]]
  OBVIOUS
<1>0. /\ ClaimFits(k) /\ b \in Bounty /\ b.terms.mode \in Modes
      /\ k[1] \in BountyId
  BY KeyType DEF Course, Work, Shape, TypeOK, Bounty, Terms
<1>1. CASE Calm(k[1])
  <2>1. CalmClaim(k) /\ SameTerms(b.terms, c.terms)
    BY <1>1 DEF Calm, SameRun
  <2> QED BY <1>0, <2>1 DEF ClaimFits, CalmClaim, SameTerms, Over
<1>2. CASE Moves(k[1])
  <2>1. CASE Begins(k[1])
    <3>1. claims'[k].status = "Absent"
      BY <1>0, <2>1, BeginsFacts
    <3> QED BY <3>1 DEF ClaimFits
  <2>2. CASE ~Begins(k[1])
    <3>1. c.terms = b.terms
      BY <1>0, <1>2, <2>2, MoveTerms
    <3>2. CASE claims'[k].status = claims[k].status
      BY <1>0, <3>1, <3>2 DEF ClaimFits
    <3>3. ASSUME NEW j \in ClaimKey, MovedClaims(k[1], j), j = k
          PROVE  ClaimFits(k)'
      <4>1. CASE \E s \in {"Canceled", "Expired", "NotCompleted", "Approved"} :
                   Closed(k, s)
        BY <4>1 DEF Closed, ClaimFits
      <4>2. ASSUME NEW s, Admitted(k, s)
            PROVE  ClaimFits(k)'
        <5>1. claims'[k].status = AdmittedStatus(b, k, s)
          BY <4>2 DEF Admitted
        <5> QED BY <1>0, <3>1, <5>1
                DEF ClaimFits, AdmittedStatus, ApprovedStatus, Modes
      <4>3. CASE UNCHANGED claims
        BY <3>2, <4>3
      <4> QED BY <3>3, <4>1, <4>2, <4>3 DEF MovedClaims
    <3>4. ASSUME NEW j \in ClaimKey, MovedClaims(k[1], j), j # k
          PROVE  ClaimFits(k)'
      <4>1. CASE OthersStay(j) \/ UNCHANGED claims
        BY <3>2, <3>4, <4>1 DEF OthersStay
      <4>2. ASSUME NEW s, Admitted(j, s), j[1] = k[1]
            PROVE  ClaimFits(k)'
        <5>1. CASE k \in Released(b, j, s)
          <6>1. /\ claims'[k].status = ApprovedStatus(b)
                /\ b.terms.mode \in {"OneForAll", "DifferentTasks"}
            BY <4>2, <5>1, ReleasedFacts DEF Admitted
          <6> QED BY <3>1, <6>1 DEF ClaimFits, ApprovedStatus
        <5>2. CASE k \notin Released(b, j, s)
          BY <3>2, <3>4, <4>2, <5>2 DEF Admitted
        <5> QED BY <5>1, <5>2
      <4> QED BY <3>4, <4>1, <4>2 DEF MovedClaims, Closed
    <3> QED BY <1>0, <1>2, <3>2, <3>3, <3>4, MoveClaims
  <2> QED BY <2>1, <2>2
<1> QED BY <1>1, <1>2

----------------------------------------------------------------------------
(* A bounty of equal slots.                                                *)

(* A bounty that has a mode after the step has it before, unless it is new *)
(* now.                                                                    *)
LEMMA ModeBefore ==
  ASSUME Course, NEW id \in BountyId, Calm(id) \/ Moves(id), ~Begins(id),
         NEW mode, HasMode(id, mode)'
  PROVE  HasMode(id, mode) /\ bounties'[id].terms.slots = bounties[id].terms.slots
<1>1. CASE Calm(id)
  BY <1>1 DEF Calm, SameRun, SameTerms, HasMode, Status, Mode
<1>2. CASE Moves(id)
  BY <1>2, MoveTerms DEF HasMode, Status, Mode
<1> QED BY <1>1, <1>2

(* A bounty that is new now has no claims.                                 *)
LEMMA BegunFields ==
  ASSUME Course, Shape', NEW id \in BountyId, Begins(id),
         NEW c, c = bounties'[id]
  PROVE  /\ c \in Bounty /\ c.status = "New"
         /\ c.participants = 0 /\ c.started_at = Nil
         /\ c.occupied_slots = 0 /\ c.paid_slots = 0
         /\ \A p \in Places : c.slots[p] = Nil
         /\ c.confirmed = {} /\ ~c.payment_at
         /\ \A S : "Absent" \notin S => ClaimsOf(id, S)' = {}
<1>1. PICK t \in Terms : bounties'[id] = NewBounty(t, config)
  BY BeginsFacts
<1>2. /\ c.status = "New"
      /\ c.participants = 0 /\ c.started_at = Nil
      /\ c.occupied_slots = 0 /\ c.paid_slots = 0
      /\ \A p \in Places : c.slots[p] = Nil
      /\ c.confirmed = {} /\ ~c.payment_at
  BY <1>1, NewFields
<1>3. c \in Bounty
  BY DEF Shape, TypeOK
<1>4. \A k \in ClaimKey : k[1] = id => claims'[k].status = "Absent"
  BY BeginsFacts
<1>5. ASSUME NEW S, "Absent" \notin S
      PROVE  ClaimsOf(id, S)' = {}
  BY <1>4, <1>5 DEF ClaimsOf
<1> QED BY <1>2, <1>3, <1>5

(* A claim that leaves a bounty of equal slots gives its slot back.        *)
LEMMA SlotFreed ==
  ASSUME Course, NEW k \in ClaimKey, NEW s \in Over, Closed(k, s),
         claims[k].status \in Occupying
  PROVE  /\ Cardinality(ClaimsOf(k[1], Occupying)') =
              Cardinality(ClaimsOf(k[1], Occupying)) - 1
         /\ Cardinality(ClaimsOf(k[1], Occupying)) \in Nat
         /\ Cardinality(ClaimsOf(k[1], Occupying)) # 0
         /\ ClaimsOf(k[1], {"ReadyToStart"})'
              \subseteq ClaimsOf(k[1], {"ReadyToStart"})
<1>1. /\ "Absent" \notin Occupying /\ claims'[k].status \notin Occupying
      /\ claims'[k].status # "ReadyToStart"
  BY DEF Occupying, Closed, Over
<1>2. \A j \in ClaimKey : j # k => claims'[j] = claims[j]
  BY DEF Closed, OthersStay
<1>3. k \in ClaimsOf(k[1], Occupying) /\ k[1] \in BountyId
  BY KeyType DEF ClaimsOf
<1>4. Cardinality(ClaimsOf(k[1], Occupying)') =
        Cardinality(ClaimsOf(k[1], Occupying)) - 1
  BY <1>1, <1>2, CountLeaves
<1>5. /\ Cardinality(ClaimsOf(k[1], Occupying)) \in Nat
      /\ Cardinality(ClaimsOf(k[1], Occupying)) # 0
  BY <1>1, <1>3, CountFacts
<1>6. ClaimsOf(k[1], {"ReadyToStart"})' \subseteq ClaimsOf(k[1], {"ReadyToStart"})
  BY <1>1, <1>2 DEF ClaimsOf
<1> QED BY <1>4, <1>5, <1>6

(* A claim that is approved on such a bounty takes a slot, and nobody      *)
(* waits for a start that was made.                                        *)
LEMMA SlotTaken ==
  ASSUME Course, NEW k \in ClaimKey, NEW s, Admitted(k, s),
         HasMode(k[1], "OneForAll")
  PROVE  /\ Cardinality(ClaimsOf(k[1], Occupying)') =
              Cardinality(ClaimsOf(k[1], Occupying)) + 1
         /\ bounties[k[1]].status = "AwaitingClaims" =>
              StartsWork(bounties[k[1]], k, s)
         /\ StatusOnApproval(bounties[k[1]], k, s) = "ManyClaimed" =>
              ClaimsOf(k[1], {"ReadyToStart"})' = {}
<1> PICK b : b = bounties[k[1]]
  OBVIOUS
<1>0. /\ b.terms.mode = "OneForAll" /\ b.status # "Absent"
      /\ b.status \in {"New", "ManyClaimed", "AwaitingClaims"}
      /\ SlotsRun(k[1]) /\ k[1] \in BountyId
  BY Opened, KeyType DEF HasMode, Status, Mode, Admitted, Course
<1>1. /\ claims[k].status \notin Occupying
      /\ claims[k].status # "ReadyToStart"
  BY DEF Admitted, Over, Occupying
<1>2. /\ ApprovedStatus(b) \in {"Completed", "InProgress"}
      /\ claims'[k].status = AdmittedStatus(b, k, s)
      /\ claims'[k].status \in {"ReadyToStart", "Completed", "InProgress"}
  BY <1>0 DEF ApprovedStatus, AdmittedStatus, Admitted
<1>3. ASSUME NEW j \in ClaimKey, j # k
      PROVE  \/ claims'[j] = claims[j] /\ j \notin Released(b, k, s)
             \/ /\ j \in Released(b, k, s)
                /\ claims[j].status = "ReadyToStart"
                /\ claims'[j].status \in {"Completed", "InProgress"}
  BY <1>2, <1>3, ReleasedFacts DEF Admitted
<1>4. Cardinality(ClaimsOf(k[1], Occupying)') =
        Cardinality(ClaimsOf(k[1], Occupying)) + 1
  <2>1. "Absent" \notin Occupying /\ claims'[k].status \in Occupying
    BY <1>2 DEF Occupying
  <2>2. \A j \in ClaimKey : j[1] = k[1] /\ j # k =>
          (claims'[j].status \in Occupying <=> claims[j].status \in Occupying)
    BY <1>3 DEF Occupying
  <2> QED BY <1>1, <2>1, <2>2, CountJoins
<1>5. b.status = "AwaitingClaims" => StartsWork(b, k, s)
  BY <1>0 DEF StartsWork
<1>6. ASSUME StatusOnApproval(b, k, s) = "ManyClaimed"
      PROVE  ClaimsOf(k[1], {"ReadyToStart"})' = {}
  <2>1. claims'[k].status # "ReadyToStart"
    BY <1>2, <1>6 DEF AdmittedStatus
  <2>2. CASE b.status = "ManyClaimed"
    <3>1. ClaimsOf(k[1], {"ReadyToStart"}) = {}
      BY <1>0, <2>2 DEF SlotsRun, HasMode, Status, Mode
    <3> QED BY <1>3, <2>1, <3>1 DEF ClaimsOf
  <2>3. CASE b.status = "AwaitingClaims"
    <3>1. Cardinality(ClaimsOf(k[1], Occupying)) = 0
      BY <1>0, <2>3 DEF SlotsRun, HasMode, Status, Mode
    <3>2. ClaimsOf(k[1], Occupying) = {}
      BY <1>0, <3>1, CountFacts DEF Occupying
    <3>3. ClaimsOf(k[1], {"ReadyToStart"}) = {}
      BY <3>2 DEF ClaimsOf, Occupying
    <3> QED BY <1>3, <2>1, <3>3 DEF ClaimsOf
  <2>4. CASE b.status = "New"
    <3>1. StartsWork(b, k, s)
      BY <1>0, <1>6, <2>4 DEF StatusOnApproval
    <3>2. Released(b, k, s) = ClaimsOf(k[1], {"ReadyToStart"}) \ {k}
      BY <1>0, <2>4, <3>1 DEF Released, ReadyBut
    <3> QED BY <1>3, <2>1, <3>2 DEF ClaimsOf
  <2> QED BY <1>0, <2>2, <2>3, <2>4
<1> QED BY <1>4, <1>5, <1>6

(* The counters of a bounty of equal slots follow its claims.              *)
LEMMA SlotsRunKept ==
  ASSUME Course, Shape', NEW id \in BountyId, Calm(id) \/ Moves(id)
  PROVE  SlotsRun(id)'
<1> PICK b : b = bounties[id]
  OBVIOUS
<1> PICK c : c = bounties'[id]
  OBVIOUS
<1> DEFINE n == Cardinality(ClaimsOf(id, Occupying))
           r == ClaimsOf(id, {"ReadyToStart"})
<1>1. SUFFICES ASSUME HasMode(id, "OneForAll")'
               PROVE  /\ c.occupied_slots = Cardinality(ClaimsOf(id, Occupying)')
                      /\ c.occupied_slots + c.paid_slots <= c.terms.slots
                      /\ c.status = "ManyClaimed" =>
                           c.occupied_slots # 0 /\ r' = {}
                      /\ c.status = "AwaitingClaims" => c.occupied_slots = 0
                      /\ c.status \in {"AwaitingClaims", "PartiallyCompleted"} =>
                           0 < c.paid_slots /\ c.paid_slots < c.terms.slots
  BY DEF SlotsRun
<1>2. CASE Begins(id)
  <2>1. /\ c \in Bounty /\ c.status = "New"
        /\ c.occupied_slots = 0 /\ c.paid_slots = 0
        /\ ClaimsOf(id, Occupying)' = {}
    BY <1>2, BegunFields DEF Occupying
  <2>2. c.terms.slots \in Nat
    BY <2>1 DEF Bounty, Terms, Places
  <2> QED BY <2>1, <2>2, FS_EmptySet
<1>3. CASE ~Begins(id)
  <2>0. /\ HasMode(id, "OneForAll") /\ c.terms.slots = b.terms.slots
        /\ b.terms.mode = "OneForAll" /\ b.status # "Absent"
    BY <1>1, <1>3, ModeBefore DEF HasMode, Mode, Status
  <2>1. /\ b.occupied_slots = n /\ n \in Nat
        /\ b.paid_slots \in Nat /\ b.terms.slots \in Nat
        /\ b.occupied_slots + b.paid_slots <= b.terms.slots
        /\ b.status = "ManyClaimed" => b.occupied_slots # 0 /\ r = {}
        /\ b.status = "AwaitingClaims" => b.occupied_slots = 0
        /\ b.status \in {"AwaitingClaims", "PartiallyCompleted"} =>
             0 < b.paid_slots /\ b.paid_slots < b.terms.slots
    <3>1. b \in Bounty
      BY DEF Course, Work, Shape, TypeOK
    <3>2. b.paid_slots \in Nat /\ b.terms.slots \in Nat
      <4>1. b.paid_slots \in Nat /\ b.terms \in Terms
        BY <3>1 DEF Bounty
      <4>2. b.terms.slots \in Places
        BY <4>1 DEF Terms
      <4> QED BY <4>1, <4>2 DEF Places
    <3>3. n \in Nat
      BY CountFacts DEF Occupying
    <3>4. SlotsRun(id)
      BY DEF Course
    <3> QED BY <2>0, <3>2, <3>3, <3>4 DEF SlotsRun
  <2>2. CASE Calm(id)
    <3>1. SameRun(b, c)
      BY <2>2 DEF Calm
    <3>2. ASSUME NEW k \in ClaimKey, k[1] = id
          PROVE  /\ claims'[k].status \in Occupying <=>
                      claims[k].status \in Occupying
                 /\ claims'[k].status = "ReadyToStart" <=>
                      claims[k].status = "ReadyToStart"
      BY <2>0, <2>2, <3>2 DEF Calm, CalmClaim, Occupying, Over, Course, ClaimFits
    <3>3. ClaimsOf(id, Occupying)' = ClaimsOf(id, Occupying)
      BY <3>2, CountSame
    <3>4. r' = r
      BY <3>2 DEF ClaimsOf
    <3> QED BY <2>0, <2>1, <3>1, <3>3, <3>4 DEF SameRun
  <2>3. CASE start_competition(id) \/ Accepts(id)
    BY <2>0, <2>3, StartFacts DEF Accepts
  <2>4. CASE Cancels(id)
    <3>1. UNCHANGED claims
      BY <2>4 DEF Cancels
    <3>2. ClaimsOf(id, Occupying)' = ClaimsOf(id, Occupying) /\ r' = r
      BY <3>1 DEF ClaimsOf
    <3> QED BY <2>0, <2>1, <2>4, <3>2, StatusEffect
  <2>5. ASSUME NEW k \in ClaimKey, k[1] = id, Leaves(k)
        PROVE  /\ b.occupied_slots # 0 /\ c.occupied_slots = b.occupied_slots - 1
               /\ c.paid_slots = b.paid_slots /\ c.status = b.status
               /\ b.status # "ManyClaimed"
               /\ Cardinality(ClaimsOf(id, Occupying)') = n - 1
    <3>1. claims[k].status = "ReadyToStart" /\ Closed(k, "Canceled")
      BY <2>0, <2>5, LeavesFacts
    <3>2. Cardinality(ClaimsOf(id, Occupying)') = n - 1 /\ n # 0
      BY <2>5, <3>1, SlotFreed DEF Over, Occupying
    <3>3. k \in r
      BY <2>5, <3>1 DEF ClaimsOf
    <3> QED BY <2>0, <2>1, <2>5, <3>2, <3>3, LeavesEffect
  <2>6. ASSUME NEW k \in ClaimKey, k[1] = id, Resets(k)
        PROVE  /\ b.occupied_slots # 0 /\ c.occupied_slots = b.occupied_slots - 1
               /\ c.paid_slots = b.paid_slots /\ c.status = PausedStatus(b)
               /\ r' \subseteq r
               /\ Cardinality(ClaimsOf(id, Occupying)') = n - 1
    <3>1. PICK s \in Over : Closed(k, s)
      BY <2>6, ResetsFacts DEF Over
    <3>2. claims[k].status \in Occupying
      BY <2>0, <2>6, ResetsFacts DEF Course, ClaimFits, Occupying
    <3>3. /\ Cardinality(ClaimsOf(id, Occupying)') = n - 1 /\ n # 0
          /\ r' \subseteq r
      BY <2>6, <3>1, <3>2, SlotFreed
    <3> QED BY <2>0, <2>1, <2>6, <3>3, ResetsEffect
  <2>7. ASSUME NEW k \in ClaimKey, k[1] = id, Pays(k)
        PROVE  /\ b.occupied_slots # 0 /\ c.occupied_slots = b.occupied_slots - 1
               /\ c.paid_slots = b.paid_slots + 1
               /\ b.status \in Running /\ c.status = SlotPaidStatus(b)
               /\ r' \subseteq r
               /\ Cardinality(ClaimsOf(id, Occupying)') = n - 1
    <3>1. Closed(k, "Approved") /\ "Approved" \in Over
      BY <2>7, PaysFacts DEF Over
    <3>2. claims[k].status \in Occupying
      BY <2>7 DEF Pays, Occupying
    <3>3. /\ Cardinality(ClaimsOf(id, Occupying)') = n - 1 /\ n # 0
          /\ r' \subseteq r
      BY <2>7, <3>1, <3>2, SlotFreed
    <3> QED BY <2>0, <2>1, <2>7, <3>3, PaysEffect
  <2>8. ASSUME NEW k \in ClaimKey, k[1] = id, Withdraws(k)
        PROVE  FALSE
    BY <2>0, <2>8 DEF Withdraws
  <2>9. ASSUME NEW k \in ClaimKey, k[1] = id, Admits(k)
        PROVE  /\ c.occupied_slots = b.occupied_slots + 1
               /\ c.paid_slots = b.paid_slots
               /\ b.occupied_slots + b.paid_slots < b.terms.slots
               /\ c.status = "ManyClaimed" => r' = {}
               /\ \/ c.status = "ManyClaimed"
                  \/ c.status = b.status /\ b.status = "New"
               /\ Cardinality(ClaimsOf(id, Occupying)') = n + 1
    <3>1. PICK s : Admitted(k, s)
      BY <2>9, AdmitsFacts
    <3>2. /\ Cardinality(ClaimsOf(id, Occupying)') = n + 1
          /\ b.status = "AwaitingClaims" => StartsWork(b, k, s)
          /\ StatusOnApproval(b, k, s) = "ManyClaimed" => r' = {}
      BY <2>0, <2>9, <3>1, SlotTaken
    <3>3. /\ c.occupied_slots = b.occupied_slots + 1
          /\ c.paid_slots = b.paid_slots
          /\ c.status = StatusOnApproval(b, k, s)
          /\ b.status \in {"New", "ManyClaimed", "AwaitingClaims"}
      BY <2>0, <2>9, <3>1, AdmitsEffect, Opened
    <3>4. b.occupied_slots + b.paid_slots < b.terms.slots
      BY <2>0, <2>9, <3>1 DEF Admitted, TakesClaims
    <3>5. StatusOnApproval(b, k, s) =
            IF StartsWork(b, k, s) THEN "ManyClaimed" ELSE b.status
      BY <2>0 DEF StatusOnApproval
    <3> QED BY <3>2, <3>3, <3>4, <3>5
  <2> HIDE DEF n, r
  <2>10. b.status \in Running => b.status = "ManyClaimed"
    BY <2>0 DEF Course, StatusFits, Running
  <2>11. PausedStatus(b) \in {"New", "AwaitingClaims"} \cup {b.status}
         /\ (PausedStatus(b) = "ManyClaimed" => b.occupied_slots # 1)
         /\ (PausedStatus(b) = "AwaitingClaims" /\ b.status # "AwaitingClaims" =>
               b.occupied_slots = 1 /\ b.paid_slots # 0)
         /\ (PausedStatus(b) = "PartiallyCompleted" =>
               b.status = "PartiallyCompleted")
         /\ (PausedStatus(b) = "ManyClaimed" => b.status = "ManyClaimed")
    BY <2>1 DEF PausedStatus
  <2>12. CASE \E k \in ClaimKey : k[1] = id /\ Leaves(k)
    BY <2>0, <2>1, <2>5, <2>12
  <2>13. CASE \E k \in ClaimKey : k[1] = id /\ Resets(k)
    BY <2>0, <2>1, <2>6, <2>11, <2>13
  <2>14. CASE \E k \in ClaimKey : k[1] = id /\ Pays(k)
    BY <2>0, <2>1, <2>7, <2>10, <2>14 DEF SlotPaidStatus
  <2>15. CASE \E k \in ClaimKey : k[1] = id /\ Admits(k)
    BY <2>0, <2>1, <2>9, <2>15
  <2> QED BY <1>3, <2>2, <2>3, <2>4, <2>8, <2>12, <2>13, <2>14, <2>15 DEF Moves
<1> QED BY <1>2, <1>3

----------------------------------------------------------------------------
(* A contest.                                                              *)

(* The claims that are counted as participants.                            *)
Competing == {"Competes", "Completed"}

(* A claim that leaves a contest was one of its participants.              *)
LEMMA ParticipantLeaves ==
  ASSUME Course, NEW k \in ClaimKey, NEW s \in Over, Closed(k, s),
         HasMode(k[1], "Contest"),
         claims[k].status \in Occupying \cup Competing
  PROVE  Cardinality(ClaimsOf(k[1], Competing)') =
           Cardinality(ClaimsOf(k[1], Competing)) - 1
<1>1. claims[k].status \in Competing
  BY DEF Course, ClaimFits, Occupying, Competing, HasMode, Mode
<1>2. "Absent" \notin Competing /\ claims'[k].status \notin Competing
  BY DEF Competing, Over, Closed
<1>3. \A j \in ClaimKey : j # k => claims'[j] = claims[j]
  BY DEF Closed, OthersStay
<1> QED BY <1>1, <1>2, <1>3, CountLeaves

(* A claim that is approved becomes one.                                   *)
LEMMA ParticipantJoins ==
  ASSUME Course, NEW k \in ClaimKey, NEW s, Admitted(k, s),
         HasMode(k[1], "Contest")
  PROVE  Cardinality(ClaimsOf(k[1], Competing)') =
           Cardinality(ClaimsOf(k[1], Competing)) + 1
<1> PICK b : b = bounties[k[1]]
  OBVIOUS
<1>1. b.terms.mode = "Contest"
  BY DEF HasMode, Mode
<1>2. claims[k].status \notin Competing /\ "Absent" \notin Competing
  BY DEF Admitted, Over, Competing
<1>3. claims'[k].status \in Competing
  BY <1>1 DEF Admitted, AdmittedStatus, ApprovedStatus, Competing
<1>4. \A j \in ClaimKey : j # k => claims'[j] = claims[j]
  BY <1>1, ReleasedFacts DEF Admitted
<1> QED BY <1>2, <1>3, <1>4, CountJoins

(* The participants and the start of a contest follow its claims and its   *)
(* status.                                                                 *)
LEMMA ContestRunKept ==
  ASSUME Course, Shape', NEW id \in BountyId, Calm(id) \/ Moves(id),
         now' >= now
  PROVE  ContestRun(id)'
<1> PICK b : b = bounties[id]
  OBVIOUS
<1> PICK c : c = bounties'[id]
  OBVIOUS
<1> DEFINE n == Cardinality(ClaimsOf(id, Competing))
<1>0. now \in Nat /\ now' \in Nat /\ Nil \notin Nat
  BY NilAssumption DEF Course, Work, Shape, TypeOK
<1>1. SUFFICES ASSUME HasMode(id, "Contest")'
               PROVE  /\ c.participants = n'
                      /\ c.status = "New" => ~HasCompetitionStarted(c)
                      /\ c.status = "ManyClaimed" => HasCompetitionStarted(c)
                      /\ c.status = "Completed" => c.started_at # Nil
                      /\ c.started_at # Nil => c.started_at <= now'
  BY DEF ContestRun, Competing
<1>2. CASE Begins(id)
  <2>1. /\ c.status = "New" /\ c.participants = 0 /\ c.started_at = Nil
        /\ ClaimsOf(id, Competing)' = {}
    BY <1>2, BegunFields DEF Competing
  <2> QED BY <2>1, FS_EmptySet DEF HasCompetitionStarted
<1>3. CASE ~Begins(id)
  <2>0. /\ HasMode(id, "Contest")
        /\ b.terms.mode = "Contest" /\ b.status # "Absent"
    BY <1>1, <1>3, ModeBefore DEF HasMode, Mode, Status
  <2>1. /\ b.participants = n
        /\ b.status = "New" => ~HasCompetitionStarted(b)
        /\ b.status = "ManyClaimed" => HasCompetitionStarted(b)
        /\ b.status = "Completed" => b.started_at # Nil
        /\ b.started_at # Nil => b.started_at <= now
        /\ b.started_at # Nil => b.started_at \in Nat
        /\ b.status \in Running => b.status = "ManyClaimed"
    <3>1. b \in Bounty
      BY DEF Course, Work, Shape, TypeOK
    <3>2. b.started_at \in Nat \cup {Nil}
      BY <3>1 DEF Bounty
    <3>3. ContestRun(id) /\ StatusFits(id)
      BY DEF Course
    <3> QED BY <2>0, <3>2, <3>3 DEF ContestRun, Competing, StatusFits, Running
  <2>2. CASE Calm(id)
    <3>1. SameRun(b, c)
      BY <2>2 DEF Calm
    <3>2. ASSUME NEW k \in ClaimKey, k[1] = id
          PROVE  claims'[k].status \in Competing <=>
                   claims[k].status \in Competing
      BY <2>0, <2>2, <3>2 DEF Calm, CalmClaim, Competing, Over, Course, ClaimFits
    <3>3. ClaimsOf(id, Competing)' = ClaimsOf(id, Competing)
      BY <3>2, CountSame
    <3> QED BY <1>0, <2>1, <3>1, <3>3 DEF SameRun, HasCompetitionStarted
  <2>3. CASE start_competition(id)
    <3>1. /\ UNCHANGED claims /\ c.participants = b.participants
          /\ c.started_at = now /\ c.finished_at = Nil /\ c.status = "ManyClaimed"
      BY <2>3, StartFacts
    <3>2. n' = n
      BY <3>1 DEF ClaimsOf
    <3> QED BY <1>0, <2>1, <3>1, <3>2 DEF HasCompetitionStarted
  <2>4. CASE Accepts(id)
    BY <2>0, <2>4 DEF Accepts
  <2>5. CASE Cancels(id)
    <3>1. /\ UNCHANGED claims /\ c.participants = b.participants
          /\ c.started_at = b.started_at
          /\ c.status \in {"Canceled", "PartiallyCompleted"}
      BY <2>5, StatusEffect
    <3>2. n' = n
      BY <3>1 DEF ClaimsOf
    <3> QED BY <1>0, <2>1, <3>1, <3>2
  <2>6. ASSUME NEW k \in ClaimKey, k[1] = id, Leaves(k)
        PROVE  /\ c.participants = b.participants - 1 /\ n' = n - 1
               /\ c.status = b.status
               /\ c.started_at = b.started_at /\ c.finished_at = b.finished_at
    <3>1. PICK s \in Over : Closed(k, s)
      BY <2>6, LeavesFacts DEF Over
    <3>2. claims[k].status \in Occupying \cup Competing
      BY <2>6, LeavesFacts DEF Occupying, Competing
    <3>3. n' = n - 1
      BY <2>0, <2>6, <3>1, <3>2, ParticipantLeaves
    <3> QED BY <2>0, <2>6, <3>3, LeavesEffect
  <2>7. ASSUME NEW k \in ClaimKey, k[1] = id, Resets(k)
        PROVE  /\ n' = n - 1 /\ c.started_at = b.started_at
               /\ \/ /\ c.status = b.status
                     /\ c.participants = b.participants - 1
                     /\ c.finished_at = b.finished_at
                  \/ /\ c.status = "New" /\ c.finished_at = now
                     /\ b.participants = 1 /\ c.participants = 0
    <3>1. PICK s \in Over : Closed(k, s)
      BY <2>7, ResetsFacts DEF Over
    <3>2. claims[k].status \in Occupying \cup Competing
      BY <2>7, ResetsFacts DEF Occupying, Competing
    <3>3. n' = n - 1
      BY <2>0, <2>7, <3>1, <3>2, ParticipantLeaves
    <3> QED BY <2>0, <2>7, <3>3, ResetsEffect
  <2>8. ASSUME NEW k \in ClaimKey, k[1] = id, Pays(k)
        PROVE  /\ n' = n - 1 /\ c.started_at = b.started_at
               /\ c.participants = b.participants - 1
               /\ b.status \in Running
               /\ \/ c.status = b.status /\ c.finished_at = b.finished_at
                  \/ c.status = "Completed"
    <3>1. Closed(k, "Approved") /\ "Approved" \in Over
      BY <2>8, PaysFacts DEF Over
    <3>2. claims[k].status \in Occupying \cup Competing
      BY <2>8 DEF Pays, Occupying
    <3>3. n' = n - 1
      BY <2>0, <2>8, <3>1, <3>2, ParticipantLeaves
    <3> QED BY <2>0, <2>8, <3>3, PaysEffect
  <2>9. ASSUME NEW k \in ClaimKey, k[1] = id, Withdraws(k)
        PROVE  FALSE
    BY <2>0, <2>9 DEF Withdraws
  <2>10. ASSUME NEW k \in ClaimKey, k[1] = id, Admits(k)
         PROVE  /\ n' = n + 1 /\ c.participants = b.participants + 1
                /\ \/ /\ c.started_at = now /\ c.finished_at = Nil
                      /\ c.status = "ManyClaimed"
                   \/ /\ c.started_at = b.started_at
                      /\ c.finished_at = b.finished_at
                      /\ c.status = b.status
    <3>1. PICK s : Admitted(k, s)
      BY <2>10, AdmitsFacts
    <3>2. n' = n + 1
      BY <2>0, <2>10, <3>1, ParticipantJoins
    <3>3. /\ c.participants = b.participants + 1
          /\ c.status = StatusOnApproval(b, k, s)
          /\ StartsWork(b, k, s) => c.started_at = now /\ c.finished_at = Nil
          /\ ~StartsWork(b, k, s) =>
               c.started_at = b.started_at /\ c.finished_at = b.finished_at
      BY <2>0, <2>10, <3>1, AdmitsEffect
    <3>4. /\ StartsWork(b, k, s) => c.status = "ManyClaimed"
          /\ ~StartsWork(b, k, s) => c.status = b.status
      BY <2>0, <3>3 DEF StatusOnApproval
    <3> QED BY <3>2, <3>3, <3>4
  <2> HIDE DEF n
  <2>11. CASE \E k \in ClaimKey : k[1] = id /\ Leaves(k)
    BY <1>0, <2>1, <2>6, <2>11 DEF HasCompetitionStarted
  <2>12. CASE \E k \in ClaimKey : k[1] = id /\ Resets(k)
    BY <1>0, <2>1, <2>7, <2>12 DEF HasCompetitionStarted
  <2>13. CASE \E k \in ClaimKey : k[1] = id /\ Pays(k)
    BY <1>0, <2>1, <2>8, <2>13 DEF HasCompetitionStarted
  <2>14. CASE \E k \in ClaimKey : k[1] = id /\ Admits(k)
    BY <1>0, <2>1, <2>10, <2>14 DEF HasCompetitionStarted
  <2> QED BY <1>3, <2>2, <2>3, <2>4, <2>5, <2>9, <2>11, <2>12, <2>13, <2>14
          DEF Moves
<1> QED BY <1>2, <1>3

----------------------------------------------------------------------------
(* A bounty of several tasks.                                              *)

(* A slot and the claims that name it, before the step.                    *)
LEMMA TaskFacts ==
  ASSUME Course, NEW id \in BountyId, HasMode(id, "DifferentTasks"),
         NEW b, b = bounties[id]
  PROVE  /\ b \in Bounty /\ b.slots \in [Places -> ClaimKey \cup {Nil}]
         /\ UsedPlaces(b) \subseteq Places
         /\ b.terms.mode = "DifferentTasks" /\ b.status # "Absent"
         /\ \A s \in UsedPlaces(b) : b.slots[s] # Nil =>
              /\ b.slots[s] \in ClaimKey /\ b.slots[s][1] = id
              /\ claims[b.slots[s]].slot = s
              /\ claims[b.slots[s]].status \in Holding
         /\ \A k \in ClaimKey : k[1] = id /\ claims[k].status \in Holding =>
              /\ claims[k].slot \in UsedPlaces(b)
              /\ b.slots[claims[k].slot] = k
         /\ b.status = "Completed" => Finished(id)
         /\ ClaimsOf(id, {"Approved"}) # {} => Finished(id)
<1>1. /\ b \in Bounty /\ b.slots \in [Places -> ClaimKey \cup {Nil}]
      /\ b.terms.slots \in Places
  BY DEF Course, Work, Shape, TypeOK, Bounty, Terms
<1>2. UsedPlaces(b) \subseteq Places
  BY <1>1, TypesAssumption DEF UsedPlaces, Places
<1>3. b.terms.mode = "DifferentTasks" /\ b.status # "Absent" /\ TasksRun(id)
  BY DEF HasMode, Mode, Status, Course
<1>4. /\ SlotNames(id) /\ ClaimNames(id)
      /\ b.status = "Completed" => Finished(id)
      /\ ClaimsOf(id, {"Approved"}) # {} => Finished(id)
  BY <1>3 DEF TasksRun
<1>5. \A s \in UsedPlaces(b) : b.slots[s] # Nil =>
        /\ b.slots[s] \in ClaimKey /\ b.slots[s][1] = id
        /\ claims[b.slots[s]].slot = s
        /\ claims[b.slots[s]].status \in Holding
  BY <1>1, <1>2, <1>4 DEF SlotNames
<1>6. ASSUME NEW k \in ClaimKey, k[1] = id, claims[k].status \in Holding
      PROVE  claims[k].slot \in UsedPlaces(b) /\ b.slots[claims[k].slot] = k
  <2>1. claims[k].status # "Absent"
    BY <1>6 DEF Holding, Occupying
  <2>2. claims[k].slot \in UsedPlaces(b)
    BY <1>3, <1>6, <2>1 DEF Course, Work, Shape, SlotsNamed, Mode
  <2>3. k \in ClaimsOf(id, Holding)
    BY <1>6 DEF ClaimsOf
  <2> QED BY <1>4, <2>2, <2>3 DEF ClaimNames
<1> QED BY <1>1, <1>2, <1>3, <1>4, <1>5, <1>6

(* A finished bounty of several tasks stays finished.                      *)
LEMMA FinishedStays ==
  ASSUME Course, Shape', NEW id \in BountyId, Calm(id) \/ Moves(id),
         Mode(id) = "DifferentTasks", Finished(id)
  PROVE  Finished(id)'
<1> PICK b : b = bounties[id]
  OBVIOUS
<1> PICK c : c = bounties'[id]
  OBVIOUS
<1>1. /\ b.terms.mode = "DifferentTasks"
      /\ b.status \in {"Completed", "Canceled"}
      /\ \A k \in ClaimKey : k[1] = id => claims[k].status \notin Unsettled
  BY DEF Finished, Mode, Status, ClaimsOf
<1>2. SUFFICES /\ c.status \in {"Completed", "Canceled"}
               /\ \A k \in ClaimKey : k[1] = id =>
                    claims'[k].status \notin Unsettled
  BY DEF Finished, Status, ClaimsOf
<1>3. CASE Calm(id)
  <2>1. \A k \in ClaimKey : k[1] = id => claims'[k].status \notin Unsettled
    BY <1>1, <1>3 DEF Calm, CalmClaim, Running, Unsettled
  <2> QED BY <1>1, <1>3, <2>1 DEF Calm, SameRun
<1>4. CASE Begins(id) \/ start_competition(id) \/ Accepts(id)
  BY <1>1, <1>4, StartFacts DEF Begins, Accepts, Status
<1>5. CASE Cancels(id)
  BY <1>1, <1>5, StatusEffect
<1>6. ASSUME NEW k \in ClaimKey, k[1] = id, Admits(k)
      PROVE  FALSE
  <2>1. PICK s : Admitted(k, s)
    BY <1>6, AdmitsFacts
  <2> QED BY <1>1, <1>6, <2>1, Opened DEF Admitted
<1>7. ASSUME NEW k \in ClaimKey, k[1] = id, Leaves(k)
      PROVE  FALSE
  BY <1>1, <1>7 DEF Leaves, Unsettled
<1>8. ASSUME NEW k \in ClaimKey, k[1] = id, Resets(k)
      PROVE  FALSE
  <2>1. claims[k].status \in {"InProgress", "Competes"}
    BY <1>1, <1>8 DEF Resets, Running
  <2>2. ClaimFits(k)
    BY DEF Course
  <2> QED BY <1>1, <1>8, <2>1, <2>2 DEF ClaimFits, Unsettled
<1>9. ASSUME NEW k \in ClaimKey, k[1] = id, Pays(k)
      PROVE  FALSE
  BY <1>1, <1>9 DEF Pays
<1>10. ASSUME NEW k \in ClaimKey, k[1] = id, Withdraws(k)
       PROVE  /\ c.status \in {"Completed", "Canceled"}
              /\ \A j \in ClaimKey : j[1] = id =>
                   claims'[j].status \notin Unsettled
  <2>1. c.status = b.status
    BY <1>10, WithdrawsEffect
  <2>2. Closed(k, "Approved")
    BY <1>10, WithdrawsFacts
  <2> QED BY <1>1, <1>10, <2>1, <2>2 DEF Closed, OthersStay, Unsettled
<1> QED BY <1>3, <1>4, <1>5, <1>6, <1>7, <1>8, <1>9, <1>10 DEF Moves

(* A claim that leaves frees its own slot and no other.                    *)
LEMMA TaskFreed ==
  ASSUME Course, NEW k \in ClaimKey, NEW s \in Over, Closed(k, s),
         HasMode(k[1], "DifferentTasks"), claims[k].status \in Holding,
         NEW b, b = bounties[k[1]], NEW c, c = bounties'[k[1]],
         c.terms = b.terms, c.slots = Vacated(b.slots, claims[k].slot)
  PROVE  SlotNames(k[1])' /\ ClaimNames(k[1])'
<1>1. k[1] \in BountyId
  BY KeyType
<1>2. /\ b.slots \in [Places -> ClaimKey \cup {Nil}]
      /\ UsedPlaces(b) \subseteq Places /\ UsedPlaces(c) = UsedPlaces(b)
      /\ \A p \in UsedPlaces(b) : b.slots[p] # Nil =>
           /\ b.slots[p] \in ClaimKey /\ b.slots[p][1] = k[1]
           /\ claims[b.slots[p]].slot = p
           /\ claims[b.slots[p]].status \in Holding
      /\ \A j \in ClaimKey : j[1] = k[1] /\ claims[j].status \in Holding =>
           /\ claims[j].slot \in UsedPlaces(b)
           /\ b.slots[claims[j].slot] = j
  BY <1>1, TaskFacts DEF UsedPlaces
<1>3. /\ claims'[k].status \notin Holding
      /\ \A j \in ClaimKey : j # k => claims'[j] = claims[j]
  BY DEF Closed, OthersStay, Over, Holding, Occupying
<1>4. \A p \in Places :
        c.slots[p] = IF p = claims[k].slot THEN Nil ELSE b.slots[p]
  BY <1>2 DEF Vacated
<1>5. ASSUME NEW p \in UsedPlaces(c), c.slots[p] # Nil
      PROVE  /\ c.slots[p][1] = k[1] /\ claims'[c.slots[p]].slot = p
             /\ claims'[c.slots[p]].status \in Holding
  <2>1. p # claims[k].slot /\ c.slots[p] = b.slots[p] /\ p \in UsedPlaces(b)
    BY <1>2, <1>4, <1>5
  <2>2. b.slots[p] # k
    BY <1>2, <1>5, <2>1
  <2>3. PICK j \in ClaimKey : /\ j = b.slots[p] /\ j # k /\ j[1] = k[1]
                              /\ claims[j].slot = p /\ claims[j].status \in Holding
    BY <1>2, <1>5, <2>1, <2>2, Zenon
  <2> QED BY <1>3, <2>1, <2>3, Zenon
<1>6. ASSUME NEW j \in ClaimKey, j[1] = k[1], claims'[j].status \in Holding
      PROVE  claims'[j].slot # Nil /\ c.slots[claims'[j].slot] = j
  <2>1. j # k /\ claims'[j] = claims[j]
    BY <1>3, <1>6
  <2>2. claims[j].slot \in UsedPlaces(b) /\ b.slots[claims[j].slot] = j
    BY <1>2, <1>6, <2>1
  <2>3. claims[j].slot # claims[k].slot
    BY <1>2, <2>1, <2>2
  <2>4. claims[j].slot # Nil
    BY <1>2, <2>2, NilAssumption, TypesAssumption DEF Places
  <2> QED BY <1>2, <1>4, <2>1, <2>2, <2>3, <2>4
<1> QED BY <1>5, <1>6 DEF SlotNames, ClaimNames, ClaimsOf

(* A claim that is approved takes the free slot it names.                  *)
LEMMA TaskTaken ==
  ASSUME Course, NEW k \in ClaimKey, NEW s, Admitted(k, s),
         HasMode(k[1], "DifferentTasks"),
         NEW b, b = bounties[k[1]], NEW c, c = bounties'[k[1]]
  PROVE  /\ SlotNames(k[1])' /\ ClaimNames(k[1])'
         /\ c.status # "Completed"
         /\ ClaimsOf(k[1], {"Approved"})' = {}
<1>1. k[1] \in BountyId
  BY KeyType
<1>2. /\ b.slots \in [Places -> ClaimKey \cup {Nil}]
      /\ UsedPlaces(b) \subseteq Places
      /\ b.terms.mode = "DifferentTasks"
      /\ \A p \in UsedPlaces(b) : b.slots[p] # Nil =>
           /\ b.slots[p] \in ClaimKey /\ b.slots[p][1] = k[1]
           /\ claims[b.slots[p]].slot = p
           /\ claims[b.slots[p]].status \in Holding
      /\ \A j \in ClaimKey : j[1] = k[1] /\ claims[j].status \in Holding =>
           /\ claims[j].slot \in UsedPlaces(b)
           /\ b.slots[claims[j].slot] = j
  BY <1>1, TaskFacts DEF UsedPlaces
<1>3. /\ c.terms = b.terms /\ c.slots = Taken(b.slots, s, k)
      /\ c.status = StatusOnApproval(b, k, s)
      /\ b.status \in {"New", "ManyClaimed"}
  BY <1>2, AdmitsEffect, Opened
<1>4. /\ s \in UsedPlaces(b) /\ b.slots[s] = Nil
      /\ UsedPlaces(c) = UsedPlaces(b)
  BY <1>2, <1>3 DEF Admitted, TakesClaims, UsedPlaces
<1>5. \A p \in Places : c.slots[p] = IF p = s THEN k ELSE b.slots[p]
  BY <1>2, <1>3, <1>4 DEF Taken
<1>6. /\ claims'[k].slot = s
      /\ claims'[k].status \in {"ReadyToStart", "InProgress", "Completed"}
      /\ claims[k].status \notin Holding
  BY <1>2 DEF Admitted, AdmittedStatus, ApprovedStatus, Over, Holding, Occupying
<1>7. ASSUME NEW j \in ClaimKey, j # k
      PROVE  \/ claims'[j] = claims[j]
             \/ /\ claims[j].status = "ReadyToStart"
                /\ claims'[j].status \in {"InProgress", "Completed"}
                /\ claims'[j].slot = claims[j].slot
  <2>1. CASE j \in Released(b, k, s)
    BY <1>2, <2>1, ReleasedFacts DEF Admitted, ApprovedStatus
  <2>2. CASE j \notin Released(b, k, s)
    BY <1>7, <2>2 DEF Admitted
  <2> QED BY <2>1, <2>2
<1>8. \A j \in ClaimKey : j # k =>
        /\ claims'[j].status \in Holding <=> claims[j].status \in Holding
        /\ claims[j].status \in Holding => claims'[j].slot = claims[j].slot
        /\ claims'[j].status = "Approved" => claims[j].status = "Approved"
  BY <1>7 DEF Holding, Occupying
<1>9. ASSUME NEW p \in UsedPlaces(c), c.slots[p] # Nil
      PROVE  /\ c.slots[p][1] = k[1] /\ claims'[c.slots[p]].slot = p
             /\ claims'[c.slots[p]].status \in Holding
  <2>1. CASE p = s
    BY <1>2, <1>4, <1>5, <1>6, <2>1 DEF Holding, Occupying
  <2>2. CASE p # s
    <3>1. c.slots[p] = b.slots[p] /\ p \in UsedPlaces(b)
      BY <1>2, <1>4, <1>5, <2>2
    <3>2. b.slots[p] # k
      BY <1>2, <1>6, <1>9, <3>1
    <3> QED BY <1>2, <1>8, <1>9, <3>1, <3>2
  <2> QED BY <2>1, <2>2
<1>10. ASSUME NEW j \in ClaimKey, j[1] = k[1], claims'[j].status \in Holding
       PROVE  claims'[j].slot # Nil /\ c.slots[claims'[j].slot] = j
  <2>1. s # Nil /\ \A p \in UsedPlaces(b) : p # Nil
    BY <1>2, <1>4, NilAssumption, TypesAssumption DEF Places
  <2>2. CASE j = k
    BY <1>2, <1>4, <1>5, <1>6, <2>1, <2>2
  <2>3. CASE j # k
    <3>1. /\ claims'[j].slot = claims[j].slot /\ claims[j].slot \in UsedPlaces(b)
          /\ b.slots[claims[j].slot] = j
      BY <1>2, <1>8, <1>10, <2>3
    <3>2. claims[j].slot # s
      BY <1>4, <3>1, NilAssumption
    <3> QED BY <1>2, <1>5, <2>1, <3>1, <3>2
  <2> QED BY <2>2, <2>3
<1>11. ClaimsOf(k[1], {"Approved"})' = {}
  <2>1. ClaimsOf(k[1], {"Approved"}) # {} => Finished(k[1])
    BY <1>1, TaskFacts
  <2>2. ~Finished(k[1])
    BY <1>3 DEF Finished, Status
  <2> QED BY <1>6, <1>8, <2>1, <2>2 DEF ClaimsOf
<1>12. c.status # "Completed"
  BY <1>2, <1>3 DEF StatusOnApproval
<1> QED BY <1>9, <1>10, <1>11, <1>12 DEF SlotNames, ClaimNames, ClaimsOf

(* The slots of a bounty of several tasks follow its claims, and what is   *)
(* approved was accepted with the rest.                                    *)
LEMMA TasksRunKept ==
  ASSUME Course, Shape', NEW id \in BountyId, Calm(id) \/ Moves(id)
  PROVE  TasksRun(id)'
<1> PICK b : b = bounties[id]
  OBVIOUS
<1> PICK c : c = bounties'[id]
  OBVIOUS
<1>1. SUFFICES ASSUME HasMode(id, "DifferentTasks")'
               PROVE  /\ SlotNames(id)' /\ ClaimNames(id)'
                      /\ c.status = "Completed" => Finished(id)'
                      /\ ClaimsOf(id, {"Approved"})' # {} => Finished(id)'
  BY DEF TasksRun
<1>2. CASE Begins(id)
  <2>1. /\ c \in Bounty /\ c.status = "New"
        /\ \A p \in Places : c.slots[p] = Nil
        /\ ClaimsOf(id, Holding)' = {} /\ ClaimsOf(id, {"Approved"})' = {}
    BY <1>2, BegunFields DEF Holding, Occupying
  <2>2. UsedPlaces(c) \subseteq Places
    <3>1. c.terms.slots \in Places
      BY <2>1 DEF Bounty, Terms
    <3> QED BY <3>1, TypesAssumption DEF UsedPlaces, Places
  <2> QED BY <2>1, <2>2 DEF SlotNames, ClaimNames
<1>3. CASE ~Begins(id)
  <2>0. /\ HasMode(id, "DifferentTasks") /\ c.terms.slots = b.terms.slots
        /\ b.terms.mode = "DifferentTasks" /\ b.status # "Absent"
        /\ Mode(id) = "DifferentTasks"
    BY <1>1, <1>3, ModeBefore DEF HasMode, Mode, Status
  <2>1. /\ b \in Bounty /\ b.slots \in [Places -> ClaimKey \cup {Nil}]
        /\ UsedPlaces(b) \subseteq Places /\ UsedPlaces(c) = UsedPlaces(b)
        /\ \A s \in UsedPlaces(b) : b.slots[s] # Nil =>
             /\ b.slots[s] \in ClaimKey /\ b.slots[s][1] = id
             /\ claims[b.slots[s]].slot = s
             /\ claims[b.slots[s]].status \in Holding
        /\ \A k \in ClaimKey : k[1] = id /\ claims[k].status \in Holding =>
             /\ claims[k].slot \in UsedPlaces(b)
             /\ b.slots[claims[k].slot] = k
        /\ b.status = "Completed" => Finished(id)
        /\ ClaimsOf(id, {"Approved"}) # {} => Finished(id)
    BY <2>0, TaskFacts DEF UsedPlaces
  <2>2. Finished(id) => Finished(id)'
    BY <2>0, FinishedStays
  <2>3. CASE Calm(id)
    <3>1. SameRun(b, c) /\ \A k \in ClaimKey : k[1] = id => CalmClaim(k)
      BY <2>3 DEF Calm
    <3>2. ASSUME NEW k \in ClaimKey, k[1] = id
          PROVE  /\ claims'[k].status \in Holding <=> claims[k].status \in Holding
                 /\ claims[k].status \in Holding =>
                      claims'[k].slot = claims[k].slot
                 /\ claims'[k].status = "Approved" =>
                      claims[k].status = "Approved"
      <4>1. CalmClaim(k)
        BY <3>1, <3>2
      <4>2. \/ /\ claims'[k].slot = claims[k].slot
               /\ claims'[k].status = claims[k].status
            \/ /\ claims'[k].slot = claims[k].slot
               /\ claims[k].status \in
                    {"InProgress", "Competes", "Completed", "Rejected", "Disputed"}
               /\ claims'[k].status \in
                    {"Completed", "Rejected", "Disputed", "CompletedWithDispute"}
            \/ claims[k].status \in Over /\ claims'[k].status = "New"
            \/ /\ claims[k].status = "New"
               /\ claims'[k].status \in {"NotHired", "Canceled"}
        BY <4>1 DEF CalmClaim
      <4>3. claims[k].status # "Competes"
        BY <2>0, <3>2 DEF Course, ClaimFits, Mode
      <4> QED BY <4>2, <4>3 DEF Holding, Occupying, Over
    <3>3. SlotNames(id)'
      BY <2>1, <3>1, <3>2 DEF SlotNames, SameRun
    <3>4. ClaimNames(id)'
      <4>1. ASSUME NEW k \in ClaimKey, k[1] = id, claims'[k].status \in Holding
            PROVE  claims'[k].slot # Nil /\ c.slots[claims'[k].slot] = k
        <5>1. /\ claims'[k].slot = claims[k].slot
              /\ claims[k].slot \in UsedPlaces(b)
              /\ b.slots[claims[k].slot] = k
          BY <2>1, <3>2, <4>1
        <5>2. claims[k].slot # Nil
          BY <2>1, <5>1, NilAssumption, TypesAssumption DEF Places
        <5> QED BY <3>1, <5>1, <5>2 DEF SameRun
      <4> QED BY <4>1 DEF ClaimNames, ClaimsOf
    <3>5. c.status = "Completed" => Finished(id)'
      BY <2>1, <2>2, <3>1 DEF SameRun
    <3>6. ClaimsOf(id, {"Approved"})' # {} => Finished(id)'
      BY <2>1, <2>2, <3>2 DEF ClaimsOf
    <3> QED BY <3>3, <3>4, <3>5, <3>6
  <2>4. CASE start_competition(id)
    BY <2>0, <2>4, StartFacts
  <2>5. CASE Cancels(id) \/ Accepts(id)
    <3>1. /\ UNCHANGED claims /\ c.slots = b.slots /\ c.terms = b.terms
          /\ Accepts(id) \/ c.status # "Completed"
      BY <2>5, StatusEffect
    <3>2. SlotNames(id) /\ ClaimNames(id)
      BY <2>0 DEF Course, TasksRun
    <3>3. SlotNames(id)' /\ ClaimNames(id)'
      BY <3>1, <3>2 DEF SlotNames, ClaimNames, UsedPlaces, ClaimsOf
    <3>4. ClaimsOf(id, {"Approved"})' # {} => Finished(id)'
      BY <2>1, <2>2, <3>1 DEF ClaimsOf
    <3>5. ASSUME ~Cancels(id)
          PROVE  Finished(id)'
      <4>1. Accepts(id) /\ AllSlotsComplete(id, Nil)
        BY <2>5, <3>5 DEF Accepts
      <4>2. c.status = "Completed"
        BY <2>5, <3>5, StatusEffect
      <4>3. ASSUME NEW k \in ClaimKey, k[1] = id, claims[k].status \in Unsettled
            PROVE  FALSE
        <5>1. claims[k].status \in Holding
          BY <4>3 DEF Unsettled, Holding, Occupying
        <5>2. claims[k].slot \in UsedPlaces(b) /\ b.slots[claims[k].slot] = k
          BY <2>1, <4>3, <5>1
        <5>3. claims[k].status \in {"Completed", "CompletedWithDispute"}
          BY <4>1, <5>2, NilAssumption DEF AllSlotsComplete
        <5> QED BY <4>3, <5>3 DEF Unsettled
      <4> QED BY <3>1, <4>2, <4>3 DEF Finished, Status, ClaimsOf
    <3>6. Cancels(id) => c.status # "Completed"
      BY StatusEffect
    <3> QED BY <3>3, <3>4, <3>5, <3>6
  <2>6. ASSUME NEW k \in ClaimKey, k[1] = id, Leaves(k) \/ Resets(k)
        PROVE  /\ SlotNames(id)' /\ ClaimNames(id)'
               /\ c.status = "Completed" => b.status = "Completed"
               /\ ClaimsOf(id, {"Approved"})' \subseteq ClaimsOf(id, {"Approved"})
    <3>1. PICK s \in Over : Closed(k, s) /\ s # "Approved"
      BY <2>6, LeavesFacts, ResetsFacts DEF Over
    <3>2. claims[k].status \in Holding
      BY <2>0, <2>6 DEF Leaves, Resets, Holding, Occupying, Course, ClaimFits
    <3>3. /\ c.terms = b.terms /\ c.slots = Vacated(b.slots, claims[k].slot)
          /\ c.status = "Completed" => b.status = "Completed"
      BY <2>0, <2>6, LeavesEffect, ResetsEffect
    <3>4. SlotNames(id)' /\ ClaimNames(id)'
      BY <2>0, <2>6, <3>1, <3>2, <3>3, TaskFreed
    <3>5. ClaimsOf(id, {"Approved"})' \subseteq ClaimsOf(id, {"Approved"})
      BY <3>1 DEF ClaimsOf, Closed, OthersStay
    <3> QED BY <3>3, <3>4, <3>5
  <2>7. ASSUME NEW k \in ClaimKey, k[1] = id, Pays(k)
        PROVE  FALSE
    BY <2>0, <2>7 DEF Pays
  <2>8. ASSUME NEW k \in ClaimKey, k[1] = id, Withdraws(k)
        PROVE  SlotNames(id)' /\ ClaimNames(id)' /\ Finished(id)'
    <3>1. Closed(k, "Approved") /\ "Approved" \in Over
      BY <2>8, WithdrawsFacts DEF Over
    <3>2. claims[k].status \in Holding /\ Finished(id)
      BY <2>8 DEF Withdraws, Holding, Occupying
    <3>3. c.terms = b.terms /\ c.slots = Vacated(b.slots, claims[k].slot)
      BY <2>8, WithdrawsEffect
    <3> QED BY <2>0, <2>2, <2>8, <3>1, <3>2, <3>3, TaskFreed
  <2>9. ASSUME NEW k \in ClaimKey, k[1] = id, Admits(k)
        PROVE  /\ SlotNames(id)' /\ ClaimNames(id)' /\ c.status # "Completed"
               /\ ClaimsOf(id, {"Approved"})' = {}
    <3>1. PICK s : Admitted(k, s)
      BY <2>9, AdmitsFacts
    <3> QED BY <2>0, <2>9, <3>1, TaskTaken
  <2> QED BY <1>3, <2>1, <2>2, <2>3, <2>4, <2>5, <2>6, <2>7, <2>8, <2>9 DEF Moves
<1> QED BY <1>2, <1>3

----------------------------------------------------------------------------
(* What is paid for.                                                       *)

(* The events that leave a bounty running note a payment for a claim that  *)
(* is complete, or none, and take none back.                               *)
LEMMA CalmRecords ==
  ASSUME Course, NEW id \in BountyId, Spared(id) \/ CalmEvents(id),
         NEW b, b = bounties[id], NEW c, c = bounties'[id]
  PROVE  /\ b.payment_at => c.payment_at
         /\ b.payment_confirmed_at => c.payment_confirmed_at
         /\ \/ c.payment_at = b.payment_at /\ c.confirmed = b.confirmed
            \/ /\ b.status \in Running /\ b.terms.postpaid
               /\ \E k \in ClaimKey :
                    /\ k[1] = id
                    /\ claims[k].status \in {"Completed", "CompletedWithDispute"}
                    /\ claims'[k].status = claims[k].status
                    /\ \/ c.confirmed = b.confirmed
                       \/ /\ b.terms.mode = "DifferentTasks"
                          /\ claims'[k].payment_at
                          /\ claims'[k].payment_confirmed_at
                          /\ \A p \in c.confirmed :
                               p \in b.confirmed \/ p = claims[k].slot
<1>1. CASE Spared(id)
  BY <1>1 DEF Spared
<1>2. CASE Changes(id)
  BY <1>2, ChangesFacts DEF Changes
<1>3. ASSUME NEW k \in ClaimKey, k[1] = id,
             \/ \E place \in UsedPlaces(bounties[k[1]]) : mark_as_paid(k, place)
             \/ confirm_payment(k)
      PROVE  /\ b.payment_at => c.payment_at
             /\ b.payment_confirmed_at => c.payment_confirmed_at
             /\ b.status \in Running /\ b.terms.postpaid
             /\ claims[k].status \in {"Completed", "CompletedWithDispute"}
             /\ claims'[k].status = claims[k].status
             /\ \/ c.confirmed = b.confirmed
                \/ /\ b.terms.mode = "DifferentTasks"
                   /\ claims'[k].payment_at /\ claims'[k].payment_confirmed_at
                   /\ \A p \in c.confirmed :
                        p \in b.confirmed \/ p = claims[k].slot
  BY <1>3, PaymentFacts
<1>4. ASSUME NEW k \in ClaimKey, k[1] = id,
             \/ \E d \in Deadlines : extend_claim_deadline(k, d)
             \/ Applies(k) \/ Finishes(k) \/ Declines(k) \/ Rejects(k)
             \/ Argues(k)
      PROVE  /\ c.payment_at = b.payment_at /\ c.confirmed = b.confirmed
             /\ c.payment_confirmed_at = b.payment_confirmed_at
  <2>1. CASE Finishes(k)
    BY <1>4, <2>1, FinishesFacts
  <2>2. CASE \E d \in Deadlines : extend_claim_deadline(k, d)
    BY <2>2, ExtendFacts
  <2>3. CASE Applies(k) \/ Declines(k) \/ Rejects(k) \/ Argues(k)
    BY <2>3 DEF Applies, Declines, Rejects, Argues
  <2> QED BY <1>4, <2>1, <2>2, <2>3
<1>5. ASSUME NEW k \in ClaimKey, k[1] = id, Notes(k)
      PROVE  \/ \E d \in Deadlines : extend_claim_deadline(k, d)
             \/ \E place \in UsedPlaces(bounties[k[1]]) : mark_as_paid(k, place)
             \/ confirm_payment(k)
  BY <1>5 DEF Notes
<1>6. CASE CalmEvents(id)
  <2>1. CASE Changes(id)
    BY <1>2, <2>1
  <2>2. ASSUME NEW k \in ClaimKey, k[1] = id,
               \/ Notes(k) \/ Applies(k) \/ Finishes(k) \/ Declines(k)
               \/ Rejects(k) \/ Argues(k)
        PROVE  \/ \E d \in Deadlines : extend_claim_deadline(k, d)
               \/ Applies(k) \/ Finishes(k) \/ Declines(k) \/ Rejects(k)
               \/ Argues(k)
               \/ \E place \in UsedPlaces(bounties[k[1]]) : mark_as_paid(k, place)
               \/ confirm_payment(k)
    BY <1>5, <2>2
  <2> QED BY <1>2, <1>3, <1>4, <1>6, <2>2 DEF CalmEvents
<1> QED BY <1>1, <1>6

(* A task whose payment is confirmed by such an event has a claim that is  *)
(* complete, and paid.                                                     *)
LEMMA CalmConfirmed ==
  ASSUME Course, NEW id \in BountyId, Spared(id) \/ CalmEvents(id),
         NEW p, p \in bounties'[id].confirmed, p \notin bounties[id].confirmed
  PROVE  \E k \in ClaimKey :
            /\ k[1] = id /\ claims[k].slot = p
            /\ claims[k].status \in {"Completed", "CompletedWithDispute"}
            /\ claims'[k].payment_at /\ claims'[k].payment_confirmed_at
<1> PICK b : b = bounties[id]
  OBVIOUS
<1> PICK c : c = bounties'[id]
  OBVIOUS
<1>1. p \in c.confirmed /\ p \notin b.confirmed
  OBVIOUS
<1>2. \E k \in ClaimKey :
        /\ k[1] = id
        /\ claims[k].status \in {"Completed", "CompletedWithDispute"}
        /\ \/ c.confirmed = b.confirmed
           \/ /\ claims'[k].payment_at /\ claims'[k].payment_confirmed_at
              /\ \A q \in c.confirmed :
                   q \in b.confirmed \/ q = claims[k].slot
  <2>1. c.confirmed # b.confirmed
    BY <1>1
  <2>2. ~(c.payment_at = b.payment_at /\ c.confirmed = b.confirmed)
    BY <2>1
  <2> QED BY <2>2, CalmRecords, SMTT(60)
<1>3. PICK k \in ClaimKey :
        /\ k[1] = id
        /\ claims[k].status \in {"Completed", "CompletedWithDispute"}
        /\ \/ c.confirmed = b.confirmed
           \/ /\ claims'[k].payment_at /\ claims'[k].payment_confirmed_at
              /\ \A q \in c.confirmed :
                   q \in b.confirmed \/ q = claims[k].slot
  BY <1>2
<1> QED BY <1>1, <1>3

(* No claim of a calm bounty loses a payment, or comes to be accepted.     *)
LEMMA CalmStays ==
  ASSUME Course, NEW id \in BountyId, Calm(id),
         NEW k \in ClaimKey, k[1] = id
  PROVE  /\ claims'[k].status = "Approved" \/ claims[k].status \in Holding =>
              /\ claims[k].payment_at => claims'[k].payment_at
              /\ claims[k].payment_confirmed_at =>
                   claims'[k].payment_confirmed_at
         /\ claims'[k].status = "Approved" => claims[k].status = "Approved"
         /\ claims'[k].status \in {"Completed", "CompletedWithDispute"} =>
              \/ claims[k].status = claims'[k].status
              \/ bounties[id].status \in Running
<1>1. CalmClaim(k)
  BY DEF Calm
<1>2. \/ /\ claims[k].payment_at => claims'[k].payment_at
         /\ claims[k].payment_confirmed_at => claims'[k].payment_confirmed_at
      \/ claims[k].status \in Over /\ claims'[k].status = "New"
      \/ claims[k].status = "New" /\ claims'[k].status \in {"NotHired", "Canceled"}
  BY <1>1 DEF CalmClaim
<1>3. claims'[k].status = "Approved" => claims[k].status = "Approved"
  BY <1>1 DEF CalmClaim
<1>4. claims'[k].status \in {"Completed", "CompletedWithDispute"} =>
        \/ claims[k].status = claims'[k].status
        \/ bounties[id].status \in Running
  BY <1>1 DEF CalmClaim
<1> QED BY <1>2, <1>3, <1>4 DEF Over, Holding, Occupying

(* The payments of a bounty without multitasking: a step that moves it     *)
(* keeps what is noted of them.                                            *)
LEMMA MovePayments ==
  ASSUME Course, NEW id \in BountyId, Moves(id), ~Begins(id),
         Mode(id) = "None",
         NEW b, b = bounties[id], NEW c, c = bounties'[id]
  PROVE  /\ c.payment_at = b.payment_at
         /\ c.payment_confirmed_at = b.payment_confirmed_at
<1>1. b.terms.mode = "None"
  BY DEF Mode
<1>2. CASE start_competition(id)
  BY <1>1, <1>2, StartFacts
<1>3. CASE Cancels(id) \/ Accepts(id)
  BY <1>3, StatusEffect
<1>4. ASSUME NEW k \in ClaimKey, k[1] = id, Admits(k)
      PROVE  /\ c.payment_at = b.payment_at
             /\ c.payment_confirmed_at = b.payment_confirmed_at
  <2>1. PICK s : Admitted(k, s)
    BY <1>4, AdmitsFacts
  <2> QED BY <1>1, <1>4, <2>1, AdmitsEffect
<1>5. ASSUME NEW k \in ClaimKey, k[1] = id, Leaves(k)
      PROVE  FALSE
  <2>1. ClaimFits(k)
    BY DEF Course
  <2> QED BY <1>1, <1>5, <2>1 DEF Leaves, ClaimFits
<1>6. ASSUME NEW k \in ClaimKey, k[1] = id, Resets(k)
      PROVE  /\ c.payment_at = b.payment_at
             /\ c.payment_confirmed_at = b.payment_confirmed_at
  BY <1>1, <1>6, ResetsEffect
<1>7. ASSUME NEW k \in ClaimKey, k[1] = id, Pays(k)
      PROVE  /\ c.payment_at = b.payment_at
             /\ c.payment_confirmed_at = b.payment_confirmed_at
  BY <1>1, <1>7, PaysEffect
<1>8. ASSUME NEW k \in ClaimKey, k[1] = id, Withdraws(k)
      PROVE  FALSE
  BY <1>1, <1>8 DEF Withdraws
<1> QED BY <1>2, <1>3, <1>4, <1>5, <1>6, <1>7, <1>8 DEF Moves

(* The flags of the tasks, when a claim leaves its slot.                   *)
LEMMA FlagsFreed ==
  ASSUME Course, NEW k \in ClaimKey, NEW s \in Over, Closed(k, s),
         HasMode(k[1], "DifferentTasks"),
         NEW b, b = bounties[k[1]], NEW c, c = bounties'[k[1]],
         c.terms = b.terms, c.slots = Vacated(b.slots, claims[k].slot),
         \A q \in c.confirmed : q \in b.confirmed /\ q # claims[k].slot,
         NEW p \in UsedPlaces(c), p \in c.confirmed, c.slots[p] # Nil
  PROVE  /\ claims'[c.slots[p]].payment_at
         /\ claims'[c.slots[p]].payment_confirmed_at
<1>1. k[1] \in BountyId
  BY KeyType
<1>2. /\ b.slots \in [Places -> ClaimKey \cup {Nil}]
      /\ UsedPlaces(b) \subseteq Places /\ UsedPlaces(c) = UsedPlaces(b)
      /\ \A q \in UsedPlaces(b) : b.slots[q] # Nil => b.slots[q] \in ClaimKey
  BY <1>1, TaskFacts DEF UsedPlaces
<1>3. p # claims[k].slot /\ p \in b.confirmed
  OBVIOUS
<1>4. c.slots[p] = b.slots[p] /\ p \in UsedPlaces(b)
  BY <1>2, <1>3 DEF Vacated
<1>5. b.slots[p] # Nil
  BY <1>4
<1>6. /\ claims[b.slots[p]].payment_at
      /\ claims[b.slots[p]].payment_confirmed_at
  BY <1>1, <1>3, <1>4, <1>5 DEF Course, TasksPaid
<1>7. b.slots[p] \in ClaimKey
  BY <1>2, <1>4, <1>5
<1> QED BY <1>4, <1>6, <1>7 DEF Closed, OthersStay

(* What is noted of the payment for a task stays noted.                    *)
LEMMA FlagsKept ==
  ASSUME Course, Shape', NEW id \in BountyId,
         Spared(id) \/ CalmEvents(id) \/ Moves(id), ~Begins(id),
         HasMode(id, "DifferentTasks"),
         NEW b, b = bounties[id], NEW c, c = bounties'[id],
         NEW p \in UsedPlaces(c), p \in c.confirmed, c.slots[p] # Nil
  PROVE  /\ claims'[c.slots[p]].payment_at
         /\ claims'[c.slots[p]].payment_confirmed_at
<1>0. b.terms.mode = "DifferentTasks" /\ b.status # "Absent"
  BY DEF HasMode, Mode, Status
<1>1. /\ b.slots \in [Places -> ClaimKey \cup {Nil}]
      /\ UsedPlaces(b) \subseteq Places
      /\ b.terms.mode = "DifferentTasks" /\ b.status # "Absent"
      /\ \A q \in UsedPlaces(b) : b.slots[q] # Nil =>
           /\ b.slots[q] \in ClaimKey /\ b.slots[q][1] = id
           /\ claims[b.slots[q]].slot = q
           /\ claims[b.slots[q]].status \in Holding
      /\ \A k \in ClaimKey : k[1] = id /\ claims[k].status \in Holding =>
           /\ claims[k].slot \in UsedPlaces(b)
           /\ b.slots[claims[k].slot] = k
  BY TaskFacts DEF UsedPlaces
<1>2. \A q \in UsedPlaces(b) : q \in b.confirmed /\ b.slots[q] # Nil =>
        /\ claims[b.slots[q]].payment_at
        /\ claims[b.slots[q]].payment_confirmed_at
  BY DEF Course, TasksPaid
<1>3. CASE Spared(id) \/ CalmEvents(id)
  <2>1. Calm(id)
    BY <1>3, SparedCalm, CalmFacts
  <2>2. /\ UsedPlaces(c) = UsedPlaces(b) /\ c.slots = b.slots
    BY <2>1 DEF Calm, SameRun, SameTerms, UsedPlaces
  <2>3. /\ b.slots[p] \in ClaimKey /\ b.slots[p][1] = id
        /\ claims[b.slots[p]].status \in Holding
    BY <1>1, <2>2
  <2>4. CASE p \in b.confirmed
    <3>1. /\ claims[b.slots[p]].payment_at
          /\ claims[b.slots[p]].payment_confirmed_at
      BY <1>2, <2>2, <2>4
    <3> QED BY <2>1, <2>2, <2>3, <3>1, CalmStays
  <2>5. CASE p \notin b.confirmed
    <3>1. PICK k \in ClaimKey :
            /\ k[1] = id /\ claims[k].slot = p
            /\ claims[k].status \in {"Completed", "CompletedWithDispute"}
            /\ claims'[k].payment_at /\ claims'[k].payment_confirmed_at
      BY <1>3, <2>5, CalmConfirmed
    <3>2. p = claims[k].slot /\ claims[k].status \in Holding
      BY <3>1 DEF Holding, Occupying
    <3> QED BY <1>1, <2>2, <3>1, <3>2
  <2> QED BY <2>4, <2>5
<1>4. CASE start_competition(id)
  BY <1>1, <1>4, StartFacts
<1>5. CASE Cancels(id) \/ Accepts(id)
  <2>1. /\ UNCHANGED claims /\ c.slots = b.slots /\ c.confirmed = b.confirmed
        /\ c.terms = b.terms
    BY <1>5, StatusEffect
  <2> QED BY <1>2, <2>1 DEF UsedPlaces
<1>6. ASSUME NEW k \in ClaimKey, k[1] = id, Leaves(k) \/ Resets(k) \/ Withdraws(k)
      PROVE  /\ claims'[c.slots[p]].payment_at
             /\ claims'[c.slots[p]].payment_confirmed_at
  <2>1. PICK s \in Over : Closed(k, s)
    BY <1>6, LeavesFacts, ResetsFacts, WithdrawsFacts DEF Over
  <2>2. /\ c.terms = b.terms /\ c.slots = Vacated(b.slots, claims[k].slot)
        /\ \A q \in c.confirmed : q \in b.confirmed /\ q # claims[k].slot
    <3>1. CASE Leaves(k)
      BY <1>0, <1>6, <3>1, LeavesEffect, SMTT(30)
    <3>2. CASE Resets(k)
      BY <1>0, <1>6, <3>2, ResetsEffect, SMTT(30)
    <3>3. CASE Withdraws(k)
      BY <1>0, <1>6, <3>3, WithdrawsEffect, SMTT(30)
    <3> QED BY <1>6, <3>1, <3>2, <3>3
  <2> QED BY <1>6, <2>1, <2>2, FlagsFreed
<1>7. ASSUME NEW k \in ClaimKey, k[1] = id, Pays(k)
      PROVE  FALSE
  BY <1>1, <1>7 DEF Pays
<1>8. ASSUME NEW k \in ClaimKey, k[1] = id, Admits(k)
      PROVE  /\ claims'[c.slots[p]].payment_at
             /\ claims'[c.slots[p]].payment_confirmed_at
  <2>1. PICK s : Admitted(k, s)
    BY <1>8, AdmitsFacts
  <2>2. /\ c.terms = b.terms /\ c.slots = Taken(b.slots, s, k)
        /\ c.confirmed = b.confirmed \ {s}
    BY <1>1, <1>8, <2>1, AdmitsEffect, SMTT(30)
  <2>3. claims[k].status \notin Holding
    BY <2>1 DEF Admitted, Over, Holding, Occupying
  <2>4. p # s /\ p \in b.confirmed /\ UsedPlaces(c) = UsedPlaces(b)
    BY <2>2 DEF UsedPlaces
  <2>5. c.slots[p] = b.slots[p]
    BY <1>1, <2>2, <2>4 DEF Taken
  <2>6. PICK j \in ClaimKey : j = b.slots[p] /\ claims[j].status \in Holding
    BY <1>1, <2>4, <2>5
  <2>7. claims[j].payment_at /\ claims[j].payment_confirmed_at
    BY <1>2, <2>4, <2>5, <2>6
  <2>8. j # k
    BY <2>3, <2>6
  <2>9. /\ claims'[j].payment_at = claims[j].payment_at
        /\ claims'[j].payment_confirmed_at = claims[j].payment_confirmed_at
    BY <2>1, <2>8 DEF Admitted
  <2> QED BY <2>5, <2>6, <2>7, <2>9
<1> QED BY <1>3, <1>4, <1>5, <1>6, <1>7, <1>8 DEF Moves

(* Tasks that were accepted and not yet withdrawn were paid for.           *)
LEMMA CompletePaid ==
  ASSUME Course, Shape', NEW id \in BountyId,
         Spared(id) \/ CalmEvents(id) \/ Moves(id), ~Begins(id),
         HasMode(id, "DifferentTasks"),
         NEW b, b = bounties[id], NEW c, c = bounties'[id],
         b.terms.postpaid, ~b.terms.dao, c.status = "Completed",
         NEW k \in ClaimKey, k[1] = id,
         claims'[k].status \in {"Completed", "CompletedWithDispute"}
  PROVE  claims'[k].payment_at /\ claims'[k].payment_confirmed_at
<1>1. /\ b.terms.mode = "DifferentTasks" /\ b.status # "Absent"
      /\ \A j \in ClaimKey : j[1] = id /\ claims[j].status \in Holding =>
           /\ claims[j].slot \in UsedPlaces(b)
           /\ b.slots[claims[j].slot] = j
  BY TaskFacts DEF UsedPlaces
<1>2. /\ \A q \in UsedPlaces(b) : q \in b.confirmed /\ b.slots[q] # Nil =>
           /\ claims[b.slots[q]].payment_at
           /\ claims[b.slots[q]].payment_confirmed_at
      /\ b.status = "Completed" => \A j \in ClaimKey :
           /\ j[1] = id
           /\ claims[j].status \in {"Completed", "CompletedWithDispute"}
           => claims[j].payment_at /\ claims[j].payment_confirmed_at
  BY DEF Course, TasksPaid, ClaimsOf
<1>3. CASE Spared(id) \/ CalmEvents(id)
  <2>1. Calm(id)
    BY <1>3, SparedCalm, CalmFacts
  <2>2. b.status = "Completed" /\ b.status \notin Running
    BY <2>1 DEF Calm, SameRun, Running
  <2>3. claims[k].status \in {"Completed", "CompletedWithDispute"}
    BY <2>1, <2>2, CalmStays
  <2>4. claims[k].status \in Holding
    BY <2>3 DEF Holding, Occupying
  <2> QED BY <1>2, <2>1, <2>2, <2>3, <2>4, CalmStays
<1>4. CASE start_competition(id)
  BY <1>1, <1>4, StartFacts
<1>5. CASE Cancels(id)
  BY <1>5, StatusEffect
<1>6. CASE Accepts(id) /\ ~Cancels(id)
  <2>1. UNCHANGED claims
    BY <1>6, StatusEffect
  <2>2. UsedPlaces(b) \subseteq b.confirmed
    BY <1>6 DEF Accepts
  <2>3. claims[k].status \in Holding
    BY <2>1 DEF Holding, Occupying
  <2>4. claims[k].slot \in UsedPlaces(b) /\ b.slots[claims[k].slot] = k
    BY <1>1, <2>3
  <2> QED BY <1>2, <2>1, <2>2, <2>4, NilAssumption
<1>7. ASSUME NEW j \in ClaimKey, j[1] = id, Leaves(j) \/ Resets(j) \/ Withdraws(j)
      PROVE  claims'[k].payment_at /\ claims'[k].payment_confirmed_at
  <2>1. PICK s \in Over : Closed(j, s)
    BY <1>7, LeavesFacts, ResetsFacts, WithdrawsFacts DEF Over
  <2>2. b.status = "Completed"
    BY <1>1, <1>7, LeavesEffect, ResetsEffect, WithdrawsEffect
  <2>3. k # j
    BY <2>1 DEF Closed, Over
  <2>4. claims'[k] = claims[k]
    BY <2>1, <2>3 DEF Closed, OthersStay
  <2> QED BY <1>2, <2>2, <2>4
<1>8. ASSUME NEW j \in ClaimKey, j[1] = id, Pays(j)
      PROVE  FALSE
  BY <1>1, <1>8 DEF Pays
<1>9. ASSUME NEW j \in ClaimKey, j[1] = id, Admits(j)
      PROVE  FALSE
  <2>1. PICK s : Admitted(j, s)
    BY <1>9, AdmitsFacts
  <2>2. b.status \in {"New", "ManyClaimed"} /\ c.status = StatusOnApproval(b, j, s)
    BY <1>1, <1>9, <2>1, AdmitsEffect, Opened
  <2> QED BY <1>1, <2>2 DEF StatusOnApproval
<1> QED BY <1>3, <1>4, <1>5, <1>6, <1>7, <1>8, <1>9 DEF Moves

(* So the payments of the tasks stay in order.                             *)
LEMMA TasksPaidKept ==
  ASSUME Course, Shape', NEW id \in BountyId,
         Spared(id) \/ CalmEvents(id) \/ Moves(id)
  PROVE  TasksPaid(id)'
<1> PICK b : b = bounties[id]
  OBVIOUS
<1> PICK c : c = bounties'[id]
  OBVIOUS
<1>1. SUFFICES ASSUME HasMode(id, "DifferentTasks")'
      PROVE  /\ \A p \in UsedPlaces(c) : p \in c.confirmed /\ c.slots[p] # Nil =>
                  /\ claims'[c.slots[p]].payment_at
                  /\ claims'[c.slots[p]].payment_confirmed_at
             /\ c.terms.postpaid /\ ~c.terms.dao /\ c.status = "Completed" =>
                  \A k \in ClaimKey :
                     /\ k[1] = id
                     /\ claims'[k].status \in {"Completed", "CompletedWithDispute"}
                     => claims'[k].payment_at /\ claims'[k].payment_confirmed_at
  BY DEF TasksPaid, ClaimsOf
<1>2. CASE Begins(id)
  <2>1. c.status = "New" /\ c.confirmed = {}
    BY <1>2, BegunFields
  <2> QED BY <2>1
<1>3. CASE ~Begins(id)
  <2>1. Calm(id) \/ Moves(id)
    BY SparedCalm, CalmFacts
  <2>2. /\ HasMode(id, "DifferentTasks")
        /\ c.terms.postpaid = b.terms.postpaid /\ c.terms.dao = b.terms.dao
    BY <1>1, <1>3, <2>1, ModeBefore, MoveTerms DEF Calm, SameRun, SameTerms
  <2> QED BY <1>3, <2>2, FlagsKept, CompletePaid
<1> QED BY <1>2, <1>3

(* A payment for the one claimant is kept while the claimant is.           *)
LEMMA PaymentKeptStays ==
  ASSUME Course, Shape', NEW id \in BountyId,
         Spared(id) \/ CalmEvents(id) \/ Moves(id)
  PROVE  PaymentKept(id)'
<1> PICK b : b = bounties[id]
  OBVIOUS
<1> PICK c : c = bounties'[id]
  OBVIOUS
<1>1. SUFFICES ASSUME HasMode(id, "None")', c.payment_at, ~c.terms.dao
      PROVE  /\ c.terms.postpaid /\ c.status # "New"
             /\ \/ ClaimsOf(id, {"Completed"})' # {}
                \/ /\ ClaimsOf(id, {"Approved"})' # {}
                   /\ ClaimsOf(id, Active)' = {}
  BY DEF PaymentKept
<1>2. CASE Begins(id)
  BY <1>1, <1>2, BegunFields
<1>3. CASE ~Begins(id)
  <2>0. Calm(id) \/ Moves(id)
    BY SparedCalm, CalmFacts
  <2>1. HasMode(id, "None")
    BY <1>1, <1>3, <2>0, ModeBefore
  <2>2. /\ b.terms.mode = "None" /\ b.status # "Absent"
        /\ Mode(id) = "None" /\ ~Shared(id)
    BY <2>1 DEF HasMode, Mode, Status, Shared
  <2>3. c.terms.postpaid = b.terms.postpaid /\ c.terms.dao = b.terms.dao
    BY <1>3, <2>0, MoveTerms DEF Calm, SameRun, SameTerms
  <2>4. /\ \A k \in ClaimKey : k[1] = id =>
             /\ claims[k].status \notin {"Competes", "ReadyToStart",
                                         "CompletedWithDispute"}
             /\ claims[k].status \in {"Rejected", "Disputed"} =>
                  ~b.terms.postpaid
        /\ \A j, k \in ClaimsOf(id, Active) : j = k
    <3>1. \A k \in ClaimKey : k[1] = id => ClaimFits(k)
      BY DEF Course
    <3>2. Lone(id)
      BY <2>2 DEF Course, Work, Alone
    <3> QED BY <2>2, <3>1, <3>2 DEF ClaimFits, Lone
  <2>5. b.payment_at =>
          /\ b.terms.postpaid /\ b.status # "New"
          /\ \/ \E k \in ClaimKey : k[1] = id /\ claims[k].status = "Completed"
             \/ /\ \E k \in ClaimKey : k[1] = id /\ claims[k].status = "Approved"
                /\ \A k \in ClaimKey : k[1] = id => claims[k].status \notin Active
    BY <1>1, <2>1, <2>3 DEF Course, PaymentKept, ClaimsOf
  <2>6. SUFFICES
          /\ b.terms.postpaid /\ c.status # "New"
          /\ \/ \E k \in ClaimKey : k[1] = id /\ claims'[k].status = "Completed"
             \/ /\ \E k \in ClaimKey : k[1] = id /\ claims'[k].status = "Approved"
                /\ \A k \in ClaimKey : k[1] = id => claims'[k].status \notin Active
    BY <2>3 DEF ClaimsOf
  <2>7. CASE Spared(id) \/ CalmEvents(id)
    <3>1. Calm(id) /\ c.status = b.status
      BY <2>7, SparedCalm, CalmFacts DEF Calm, SameRun
    <3>2. CASE b.payment_at
      <4>1. ASSUME NEW k \in ClaimKey, k[1] = id, claims[k].status = "Completed"
            PROVE  claims'[k].status = "Completed"
        <5>1. CalmClaim(k)
          BY <3>1, <4>1 DEF Calm
        <5> QED BY <2>5, <3>2, <4>1, <5>1 DEF CalmClaim, Over
      <4>2. ASSUME NEW k \in ClaimKey, k[1] = id
            PROVE  /\ claims[k].status = "Approved" =>
                        claims'[k].status = "Approved"
                   /\ claims[k].status \notin Active =>
                        claims'[k].status \notin Active
        <5>1. CalmClaim(k)
          BY <3>1, <4>2 DEF Calm
        <5>2. b.status \notin OpenStatuses(b.terms.mode)
          BY <2>2, <2>5, <3>2, Opened
        <5> QED BY <2>4, <4>2, <5>1, <5>2 DEF CalmClaim, Active, Over
      <4> QED BY <2>5, <3>1, <3>2, <4>1, <4>2
    <3>3. CASE ~b.payment_at
      <4>1. ~(c.payment_at = b.payment_at)
        BY <1>1, <3>3
      <4>2. /\ b.status \in Running /\ b.terms.postpaid
            /\ \E k \in ClaimKey :
                 /\ k[1] = id
                 /\ claims[k].status \in {"Completed", "CompletedWithDispute"}
                 /\ claims'[k].status = claims[k].status
        BY <2>7, <4>1, CalmRecords
      <4> QED BY <2>4, <3>1, <4>2 DEF Running
    <3> QED BY <3>2, <3>3
  <2>8. CASE Moves(id)
    <3>1. b.payment_at
      BY <1>1, <1>3, <2>2, <2>8, MovePayments
    <3>2. CASE start_competition(id)
      BY <2>2, <3>2, StartFacts
    <3>3. CASE Cancels(id) \/ Accepts(id)
      <4>1. UNCHANGED claims /\ c.status # "New"
        BY <3>3, StatusEffect
      <4> QED BY <2>5, <3>1, <4>1
    <3>4. ASSUME NEW k \in ClaimKey, k[1] = id, Admits(k)
          PROVE  FALSE
      <4>1. PICK s : Admitted(k, s)
        BY <3>4, AdmitsFacts
      <4> QED BY <2>2, <2>5, <3>1, <3>4, <4>1, Opened DEF Admitted
    <3>5. ASSUME NEW k \in ClaimKey, k[1] = id, Leaves(k)
          PROVE  FALSE
      BY <2>2, <2>4, <3>5 DEF Leaves
    <3>6. ASSUME NEW k \in ClaimKey, k[1] = id, Resets(k)
          PROVE  FALSE
      <4>1. claims[k].status \in {"InProgress", "Competes", "Completed",
                                  "Rejected", "Disputed"}
        BY <3>6 DEF Resets
      <4>2. claims[k].status \in {"InProgress", "Completed"}
        BY <2>4, <2>5, <3>1, <3>6, <4>1
      <4>3. claims[k].status = "Completed"
        <5>1. k \in ClaimsOf(id, Active)
          BY <3>6, <4>2 DEF ClaimsOf, Active
        <5> QED BY <2>4, <2>5, <3>1, <3>6, <4>2, <5>1 DEF ClaimsOf, Active
      <4>4. ~PaymentMade(b, claims[k])
        BY <1>1, <2>3, <2>5, <3>1, <3>6, <4>3 DEF Resets
      <4> QED BY <2>2, <3>1, <4>4 DEF PaymentMade
    <3>7. ASSUME NEW k \in ClaimKey, k[1] = id, Pays(k)
          PROVE  /\ c.status # "New"
                 /\ claims'[k].status = "Approved"
                 /\ \A j \in ClaimKey : j[1] = id => claims'[j].status \notin Active
      <4>1. Closed(k, "Approved") /\ c.status = "Completed"
        BY <2>2, <3>7, PaysFacts, PaysEffect
      <4>2. claims[k].status \in Active
        BY <3>7 DEF Pays, Active
      <4>3. \A j \in ClaimKey : j[1] = id /\ j # k => claims[j].status \notin Active
        BY <2>4, <3>7, <4>2 DEF ClaimsOf
      <4> QED BY <4>1, <4>3 DEF Closed, OthersStay, Active
    <3>8. ASSUME NEW k \in ClaimKey, k[1] = id, Withdraws(k)
          PROVE  FALSE
      BY <2>2, <3>8 DEF Withdraws
    <3> QED BY <1>3, <2>5, <2>8, <3>1, <3>2, <3>3, <3>4, <3>5, <3>6, <3>7, <3>8
              DEF Moves
  <2> QED BY <2>7, <2>8
<1> QED BY <1>2, <1>3

(* A claim is accepted because it was, or it is paid or withdrawn now.     *)
LEMMA ApprovedFrom ==
  ASSUME Course, Shape', NEW k \in ClaimKey, Moves(k[1]),
         claims'[k].status = "Approved"
  PROVE  \/ claims[k].status = "Approved" /\ claims'[k] = claims[k]
         \/ Pays(k) /\ Closed(k, "Approved")
         \/ Withdraws(k) /\ Closed(k, "Approved")
<1>1. CASE Begins(k[1]) \/ start_competition(k[1]) \/ Cancels(k[1]) \/ Accepts(k[1])
  <2>1. UNCHANGED claims
    BY <1>1, StartFacts, KeyType DEF Begins, Cancels, Accepts
  <2> QED BY <2>1
<1>2. ASSUME NEW j \in ClaimKey, Leaves(j) \/ Resets(j)
      PROVE  claims[k].status = "Approved" /\ claims'[k] = claims[k]
  <2>1. PICK s \in Over : Closed(j, s) /\ s # "Approved"
    BY <1>2, LeavesFacts, ResetsFacts DEF Over
  <2> QED BY <2>1 DEF Closed, OthersStay
<1>3. ASSUME NEW j \in ClaimKey, Pays(j) \/ Withdraws(j), j # k
      PROVE  claims[k].status = "Approved" /\ claims'[k] = claims[k]
  <2>1. Closed(j, "Approved")
    BY <1>3, PaysFacts, WithdrawsFacts
  <2> QED BY <1>3, <2>1 DEF Closed, OthersStay
<1>4. Pays(k) \/ Withdraws(k) => Closed(k, "Approved")
  BY PaysFacts, WithdrawsFacts
<1>5. ASSUME NEW j \in ClaimKey, Admits(j)
      PROVE  claims[k].status = "Approved" /\ claims'[k] = claims[k]
  <2>1. PICK s : Admitted(j, s)
    BY <1>5, AdmitsFacts
  <2>2. k # j /\ k \notin Released(bounties[j[1]], j, s)
    BY <2>1 DEF Admitted, AdmittedStatus, ApprovedStatus
  <2> QED BY <2>1, <2>2 DEF Admitted
<1> QED BY <1>1, <1>2, <1>3, <1>4, <1>5 DEF Moves

(* A claim that was accepted with its payment keeps it.                    *)
LEMMA PaidFirstKept ==
  ASSUME Course, Shape', NEW k \in ClaimKey,
         Spared(k[1]) \/ CalmEvents(k[1]) \/ Moves(k[1])
  PROVE  PaidFirst(k)'
<1> PICK id \in BountyId : id = k[1]
  BY KeyType
<1> PICK b : b = bounties[id]
  OBVIOUS
<1> PICK c : c = bounties'[id]
  OBVIOUS
<1>1. SUFFICES ASSUME claims'[k].status = "Approved",
                      c.terms.postpaid, ~c.terms.dao
               PROVE  PaidFirst(k)'
  BY DEF PaidFirst
<1>2. PaidFirst(k)
  BY DEF Course
<1>3. CASE Begins(id)
  <2>1. ClaimsOf(id, {"Approved"})' = {}
    BY <1>3, BegunFields
  <2> QED BY <1>1, <2>1 DEF ClaimsOf
<1>4. CASE ~Begins(id)
  <2>1. Calm(id) \/ Moves(id)
    BY SparedCalm, CalmFacts
  <2>2. /\ c.terms.postpaid = b.terms.postpaid /\ c.terms.dao = b.terms.dao
        /\ c.terms.mode = b.terms.mode
    BY <1>4, <2>1, MoveTerms DEF Calm, SameRun, SameTerms
  <2>3. b.terms.mode = "None" =>
          /\ b.payment_at => c.payment_at
          /\ b.payment_confirmed_at => c.payment_confirmed_at
    BY <1>4, CalmRecords, MovePayments DEF Mode
  <2>4. ASSUME claims[k].status = "Approved",
               claims[k].payment_at => claims'[k].payment_at,
               claims[k].payment_confirmed_at => claims'[k].payment_confirmed_at
        PROVE  PaidFirst(k)'
    <3>1. /\ b.terms.mode = "None" => b.payment_at /\ b.payment_confirmed_at
          /\ b.terms.mode # "None" =>
               claims[k].payment_at /\ claims[k].payment_confirmed_at
      BY <1>1, <1>2, <2>2, <2>4 DEF PaidFirst, PaymentMade, PaymentConfirmed
    <3> QED BY <2>2, <2>3, <2>4, <3>1
            DEF PaidFirst, PaymentMade, PaymentConfirmed
  <2>5. CASE Calm(id)
    BY <1>1, <2>4, <2>5, CalmStays
  <2>6. ASSUME Pays(k), Closed(k, "Approved")
        PROVE  PaidFirst(k)'
    <3>1. PostpaidReady(k)
      BY <1>1, <2>2, <2>6 DEF Pays
    <3>2. /\ b.terms.mode = "None" => b.payment_at /\ b.payment_confirmed_at
          /\ b.terms.mode # "None" =>
               claims[k].payment_at /\ claims[k].payment_confirmed_at
      BY <1>1, <2>2, <3>1 DEF PostpaidReady, PaymentMade, PaymentConfirmed
    <3> QED BY <2>2, <2>3, <2>6, <3>2
            DEF Closed, PaidFirst, PaymentMade, PaymentConfirmed
  <2>7. ASSUME Withdraws(k), Closed(k, "Approved")
        PROVE  PaidFirst(k)'
    <3>1. /\ b.terms.mode = "DifferentTasks" /\ b.status = "Completed"
          /\ claims[k].status \in {"Completed", "CompletedWithDispute"}
      BY <1>1, <2>2, <2>7 DEF Withdraws
    <3>2. TasksPaid(id) /\ HasMode(id, "DifferentTasks")
      BY <3>1 DEF Course, HasMode, Mode, Status
    <3>3. claims[k].payment_at /\ claims[k].payment_confirmed_at
      BY <1>1, <2>2, <3>1, <3>2 DEF TasksPaid, ClaimsOf
    <3> QED BY <2>2, <2>7, <3>1, <3>3
            DEF Closed, PaidFirst, PaymentMade, PaymentConfirmed
  <2>8. CASE Moves(id)
    BY <1>1, <2>4, <2>6, <2>7, <2>8, ApprovedFrom
  <2> QED BY <2>1, <2>5, <2>8
<1> QED BY <1>3, <1>4

----------------------------------------------------------------------------
(* The reward that was agreed on.                                          *)

(* The reward of a bounty is what it was: its terms and, where it was      *)
(* deposited, its amount.                                                  *)
SameReward(b, c) ==
  /\ c.terms.mode = b.terms.mode /\ c.terms.postpaid = b.terms.postpaid
  /\ c.terms.slots = b.terms.slots /\ c.terms.shares = b.terms.shares
  /\ ~b.terms.postpaid => c.amount = b.amount
  /\ SameFees(b, c)

(* bounty_update does not touch shares and prizes.                         *)
LEMMA SharesStay ==
  ASSUME NEW t \in Terms, NEW u \in Update
  PROVE  UpdatedTerms(t, u).shares = t.shares
<1>1. CASE u.field = "approval"
  BY <1>1, Zenon DEF UpdatedTerms, Terms
<1>2. CASE u.field = "deadline"
  BY <1>2, Zenon DEF UpdatedTerms, Terms
<1>3. CASE u.field = "reviewers"
  BY <1>3, Zenon DEF UpdatedTerms, Terms
<1>4. CASE u.field = "amount"
  BY <1>4, Zenon DEF UpdatedTerms
<1> QED BY <1>1, <1>2, <1>3, <1>4 DEF Update

(* What the internal functions do to the amount, the fees and the winners. *)
SamePrize(b, c) ==
  c.amount = b.amount /\ c.winners = b.winners /\ SameFees(b, c)

LEMMA ResetSlotReward ==
  ASSUME NEW b \in Bounty, NEW s
  PROVE  SamePrize(b, ResetSlot(b, s))
BY Zenon DEF ResetSlot, Bounty, SamePrize, SameFees

LEMMA LeftReward ==
  ASSUME NEW b \in Bounty, NEW k \in ClaimKey, NEW c, c = Left(b, k)
  PROVE  SamePrize(b, c)
<1>1. \/ c = [b EXCEPT !.participants = b.participants - 1]
      \/ c = [b EXCEPT !.occupied_slots = b.occupied_slots - 1]
      \/ c = ResetSlot(b, claims[k].slot)
      \/ c = b
  <2>1. b.terms.mode \in Modes
    BY DEF Bounty, Terms
  <2> QED BY <2>1, Zenon DEF Left, Modes
<1>2. CASE c = [b EXCEPT !.participants = b.participants - 1]
  BY <1>2, Zenon DEF Bounty, SamePrize, SameFees
<1>3. CASE c = [b EXCEPT !.occupied_slots = b.occupied_slots - 1]
  BY <1>3, Zenon DEF Bounty, SamePrize, SameFees
<1>4. CASE c = ResetSlot(b, claims[k].slot)
  BY <1>4, ResetSlotReward
<1>5. CASE c = b
  BY <1>5 DEF SamePrize, SameFees
<1> QED BY <1>1, <1>2, <1>3, <1>4, <1>5

LEMMA ReopenedReward ==
  ASSUME NEW b \in Bounty, NEW k \in ClaimKey, NEW c, c = Reopened(b, k)
  PROVE  SamePrize(b, c)
<1>0. b.terms.mode \in Modes
  BY DEF Bounty, Terms
<1>1. CASE b.terms.mode = "None"
  <2>1. c = [b EXCEPT !.status = "New"]
    BY <1>1, Zenon DEF Reopened
  <2> QED BY <2>1, Zenon DEF Bounty, SamePrize, SameFees
<1>2. CASE b.terms.mode = "Contest"
  <2>1. \/ c = [b EXCEPT !.participants = 0, !.finished_at = now,
                         !.status = "New"]
        \/ c = [b EXCEPT !.participants = b.participants - 1]
    BY <1>2, Zenon DEF Reopened
  <2>2. CASE c = [b EXCEPT !.participants = 0, !.finished_at = now,
                           !.status = "New"]
    BY <2>2, Zenon DEF Bounty, SamePrize, SameFees
  <2>3. CASE c = [b EXCEPT !.participants = b.participants - 1]
    BY <2>3, Zenon DEF Bounty, SamePrize, SameFees
  <2> QED BY <2>1, <2>2, <2>3
<1>3. CASE b.terms.mode = "OneForAll"
  <2>1. PICK s : s = IF b.status = "ManyClaimed" /\ b.occupied_slots = 1
                     THEN IF b.paid_slots = 0 THEN "New" ELSE "AwaitingClaims"
                     ELSE b.status
    OBVIOUS
  <2>2. c = [b EXCEPT !.occupied_slots = @ - 1, !.status = s]
    BY <1>3, <2>1, Zenon DEF Reopened
  <2> QED BY <2>2, Zenon DEF Bounty, SamePrize, SameFees
<1>4. CASE b.terms.mode = "DifferentTasks"
  <2> DEFINE freed == ResetSlot(b, claims[k].slot)
             s == IF AllSlotsAvailable(freed) THEN "New" ELSE freed.status
  <2>1. c = [freed EXCEPT !.status = s]
    BY <1>4, Zenon DEF Reopened
  <2>2. freed \in Bounty
    BY ResetSlotLater DEF Later
  <2>3. SamePrize(b, freed)
    BY ResetSlotReward
  <2> HIDE DEF freed, s
  <2>4. SamePrize(freed, c)
    BY <2>1, <2>2, Zenon DEF Bounty, SamePrize, SameFees
  <2> QED BY <2>3, <2>4 DEF SamePrize, SameFees
<1> QED BY <1>0, <1>1, <1>2, <1>3, <1>4 DEF Modes

LEMMA ApprovalReward ==
  ASSUME NEW b \in Bounty, NEW k \in ClaimKey, NEW s,
         NEW c, c = BountyOnApproval(b, k, s)
  PROVE  SamePrize(b, c)
<1> DEFINE after == [b EXCEPT !.status = StatusOnApproval(b, k, s)]
<1>0. b.terms.mode \in Modes
  BY DEF Bounty, Terms
<1>1. /\ SamePrize(b, after)
      /\ after.started_at = b.started_at /\ after.finished_at = b.finished_at
  BY Zenon DEF Bounty, SamePrize, SameFees
<1>2. CASE b.terms.mode = "None"
  <2>1. c = after
    BY <1>2, Zenon DEF BountyOnApproval
  <2> HIDE DEF after
  <2> QED BY <1>1, <2>1 DEF SamePrize, SameFees
<1>3. CASE b.terms.mode = "Contest"
  <2>1. PICK f, g :
          /\ f = IF StartsWork(b, k, s) THEN now ELSE b.started_at
          /\ g = IF StartsWork(b, k, s) THEN Nil ELSE b.finished_at
    OBVIOUS
  <2>2. c = [after EXCEPT !.participants = @ + 1, !.started_at = f,
                          !.finished_at = g]
    BY <1>1, <1>3, <2>1, Zenon DEF BountyOnApproval
  <2>3. SamePrize(after, c)
    BY <2>2, Zenon DEF Bounty, SamePrize, SameFees
  <2> HIDE DEF after
  <2> QED BY <1>1, <2>3 DEF SamePrize, SameFees
<1>4. CASE b.terms.mode = "OneForAll"
  <2>1. c = [after EXCEPT !.occupied_slots = @ + 1]
    BY <1>4, Zenon DEF BountyOnApproval
  <2>2. SamePrize(after, c)
    BY <2>1, Zenon DEF Bounty, SamePrize, SameFees
  <2> HIDE DEF after
  <2> QED BY <1>1, <2>2 DEF SamePrize, SameFees
<1>5. CASE b.terms.mode = "DifferentTasks"
  <2>1. PICK d : c = [after EXCEPT !.slots[s] = k, !.confirmed = @ \ {s},
                                   !.completed = d]
    BY <1>5, Zenon DEF BountyOnApproval
  <2>2. SamePrize(after, c)
    BY <2>1, Zenon DEF Bounty, SamePrize, SameFees
  <2> HIDE DEF after
  <2> QED BY <1>1, <2>2 DEF SamePrize, SameFees
<1> QED BY <1>0, <1>2, <1>3, <1>4, <1>5 DEF Modes

(* A prize that was deposited goes to the claim, and nothing else changes. *)
LEMMA PaidReward ==
  ASSUME NEW b \in Bounty, NEW k, NEW place,
         NEW c, c = PaidBounty(b, k, place)
  PROVE  /\ c.amount = b.amount /\ SameFees(b, c)
         /\ c.winners = IF b.terms.mode = "Contest" /\ ~b.terms.postpaid
                        THEN Taken(b.winners, place, k) ELSE b.winners
<1>1. CASE b.terms.mode = "Contest"
  <2>1. PICK w : w = IF b.terms.postpaid THEN b.winners
                     ELSE [b.winners EXCEPT ![place] = k]
    OBVIOUS
  <2> DEFINE won == [b EXCEPT !.participants = @ - 1, !.winners = w]
  <2>2. \/ c = [won EXCEPT !.finished_at = now, !.status = "Completed"]
        \/ c = won
    BY <1>1, <2>1, Zenon DEF PaidBounty
  <2>3. won.amount = b.amount /\ won.winners = w /\ SameFees(b, won)
    BY Zenon DEF Bounty, SameFees
  <2>4. LET over == [won EXCEPT !.finished_at = now, !.status = "Completed"] IN
        SamePrize(won, over)
    BY Zenon DEF Bounty, SamePrize, SameFees
  <2>5. SamePrize(won, c)
    BY <2>2, <2>4, Zenon DEF SamePrize, SameFees
  <2> HIDE DEF won
  <2> QED BY <1>1, <2>1, <2>3, <2>5 DEF Taken, SamePrize, SameFees
<1>2. CASE b.terms.mode = "OneForAll"
  <2>1. PICK s : s = IF b.occupied_slots # 1 THEN b.status
                     ELSE IF b.paid_slots + 1 = b.terms.slots
                     THEN "Completed" ELSE "AwaitingClaims"
    OBVIOUS
  <2>2. c = [b EXCEPT !.occupied_slots = @ - 1, !.paid_slots = @ + 1,
                      !.status = s]
    BY <1>2, <2>1, Zenon DEF PaidBounty
  <2>3. SamePrize(b, c)
    BY <2>2, Zenon DEF Bounty, SamePrize, SameFees
  <2> QED BY <1>2, <2>3 DEF SamePrize
<1>3. CASE b.terms.mode \notin {"Contest", "OneForAll"}
  <2>1. c = [b EXCEPT !.status = "Completed"]
    BY <1>3 DEF PaidBounty
  <2> QED BY <1>3, <2>1 DEF Bounty, SameFees
<1> QED BY <1>1, <1>2, <1>3

(* bounty_update changes the amount of postpaid bounties only.             *)
LEMMA ChangesReward ==
  ASSUME Course, NEW id \in BountyId, Changes(id)
  PROVE  /\ SameReward(bounties[id], bounties'[id])
         /\ bounties'[id].winners = bounties[id].winners
<1> DEFINE b == bounties[id]
<1>1. PICK u \in Updates : bounty_update(id, u)
  BY DEF Changes
<1>2. /\ bounties \in [BountyId -> Bounty] /\ b \in Bounty
      /\ b.terms \in Terms /\ u \in Update
  BY BountiesAssumption DEF Course, Work, Shape, TypeOK, Bounty
<1>3. PICK t, a :
        /\ t = UpdatedTerms(b.terms, u)
        /\ a = IF u.field = "amount" THEN u.amount ELSE b.amount
        /\ bounties' = [bounties EXCEPT ![id] =
                          [b EXCEPT !.terms = t, !.amount = a]]
  BY <1>1, Zenon DEF bounty_update
<1>4. u.field = "amount" => b.terms.postpaid
  <2>1. UpdateAllowed(id, u)
    BY <1>1, Zenon DEF bounty_update
  <2> QED BY <2>1 DEF UpdateAllowed
<1>5. SameTerms(b.terms, t) /\ t.shares = b.terms.shares
  BY <1>2, <1>3, TermsStay, SharesStay DEF SameTerms
<1> DEFINE c == [b EXCEPT !.terms = t, !.amount = a]
<1>6. c.terms = t /\ c.amount = a /\ c.winners = b.winners /\ SameFees(b, c)
  BY <1>2, Zenon DEF Bounty, SameFees
<1>7. bounties'[id] = c
  BY <1>2, <1>3
<1> HIDE DEF b, c
<1> QED BY <1>3, <1>4, <1>5, <1>6, <1>7 DEF SameReward, SameTerms, b

(* A step keeps the reward of a bounty, and the prizes that are won,       *)
(* except that it may pay one.                                             *)
LEMMA RewardStays ==
  ASSUME Course, NEW id \in BountyId, Status(id) # "Absent",
         Spared(id) \/ CalmEvents(id) \/ Moves(id)
  PROVE  /\ SameReward(bounties[id], bounties'[id])
         /\ \/ bounties[id].terms.postpaid
            \/ bounties'[id].winners = bounties[id].winners
            \/ \E k \in ClaimKey : k[1] = id /\ Pays(k)
<1> DEFINE b == bounties[id]
           c == bounties'[id]
<1>0. /\ bounties \in [BountyId -> Bounty] /\ b \in Bounty
      /\ SameReward(b, b)
  BY DEF Course, Work, Shape, TypeOK, SameReward, SameFees
<1>1. CASE Spared(id)
  BY <1>0, <1>1 DEF Spared
<1>2. CASE Changes(id)
  BY <1>2, ChangesReward
<1>3. ASSUME NEW k \in ClaimKey, k[1] = id,
             \/ Applies(k) \/ Declines(k) \/ Rejects(k) \/ Argues(k)
             \/ \E deadline \in Deadlines : extend_claim_deadline(k, deadline)
      PROVE  SameReward(b, c) /\ c.winners = b.winners
  <2>1. UNCHANGED bounties
    BY <1>3 DEF Applies, Declines, Rejects, Argues, extend_claim_deadline
  <2> QED BY <1>0, <2>1
<1>4. ASSUME NEW k \in ClaimKey, k[1] = id, Finishes(k)
      PROVE  SameReward(b, c) /\ c.winners = b.winners
  BY <1>4, FinishesFacts DEF SameReward, SameRun
<1>5. ASSUME NEW k \in ClaimKey, k[1] = id,
             \/ \E place \in UsedPlaces(bounties[k[1]]) : mark_as_paid(k, place)
             \/ confirm_payment(k)
      PROVE  SameReward(b, c) /\ b.terms.postpaid
  <2>1. c.terms = b.terms /\ b.terms.postpaid /\ SameFees(b, c)
    BY <1>5, PaymentFacts DEF SameRun
  <2> QED BY <2>1 DEF SameReward
<1>6. CASE CalmEvents(id)
  BY <1>2, <1>3, <1>4, <1>5, <1>6 DEF CalmEvents, Notes
<1>7. CASE Moves(id)
  <2>0. ~Begins(id)
    BY DEF Begins
  <2>1. c.terms = b.terms
    BY <1>7, <2>0, MoveTerms
  <2>2. CASE start_competition(id)
    <3>1. LET d == [b EXCEPT !.started_at = now, !.finished_at = Nil,
                             !.status = "ManyClaimed"] IN
          /\ bounties' = [bounties EXCEPT ![id] = d]
          /\ SamePrize(b, d)
      BY <1>0, <2>2, Zenon DEF start_competition, Bounty, SamePrize, SameFees
    <3> QED BY <1>0, <2>1, <3>1 DEF SameReward, SamePrize, SameFees
  <2>3. CASE Cancels(id) \/ Accepts(id)
    <3>1. PICK s : c = [b EXCEPT !.status = s]
      BY <2>3, StatusMoves
    <3>2. SamePrize(b, c)
      BY <1>0, <3>1, Zenon DEF Bounty, SamePrize, SameFees
    <3> QED BY <2>1, <3>2 DEF SameReward, SamePrize
  <2>4. ASSUME NEW k \in ClaimKey, k[1] = id, ~Pays(k),
               \/ Admits(k) \/ Leaves(k) \/ Resets(k) \/ Withdraws(k)
        PROVE  SamePrize(b, c)
    <3>1. CASE Admits(k)
      BY <1>0, <2>4, <3>1, AdmitsFacts, ApprovalReward DEF Admitted
    <3>2. CASE Leaves(k)
      BY <1>0, <2>4, <3>2, LeavesFacts, LeftReward
    <3>3. CASE Resets(k)
      BY <1>0, <2>4, <3>3, ResetsFacts, ReopenedReward
    <3>4. CASE Withdraws(k)
      BY <1>0, <2>4, <3>4, WithdrawsFacts, ResetSlotReward
    <3> QED BY <2>4, <3>1, <3>2, <3>3, <3>4
  <2>5. ASSUME NEW k \in ClaimKey, k[1] = id, Pays(k)
        PROVE  c.amount = b.amount /\ SameFees(b, c)
    BY <1>0, <2>5, PaysFacts, PaidReward
  <2> QED BY <1>7, <2>0, <2>1, <2>2, <2>3, <2>4, <2>5 DEF Moves, SameReward, SamePrize
<1> QED BY <1>1, <1>6, <1>7
(* What was deposited is paid at the price it was deposited for.           *)
LEMMA PriceStays ==
  ASSUME NEW b, NEW c, SameReward(b, c), ~b.terms.postpaid, NEW place
  PROVE  Price(c, place) = Price(b, place)
BY DEF SameReward, Price, TaskPart

(* The shares of the subtasks are checked when the bounty is created.      *)
LEMMA SharesKept ==
  ASSUME Course, Shape', NEW id \in BountyId,
         Spared(id) \/ CalmEvents(id) \/ Moves(id)
  PROVE  SharesWhole(id)'
<1>1. CASE Status(id) # "Absent"
  <2>1. SameReward(bounties[id], bounties'[id]) /\ SharesWhole(id)
    BY <1>1, RewardStays DEF Course
  <2> QED BY <1>1, <2>1 DEF SharesWhole, SharesFit, SameReward, HasMode, Status, Mode
<1>2. CASE Begins(id)
  <2>1. PICK t \in Terms : /\ ValidTerms(t, NewBounty(t, config).amount, now)
                           /\ bounties'[id] = NewBounty(t, config)
    BY <1>2, BeginsFacts
  <2>2. bounties'[id].terms = t
    BY <2>1, NewFields
  <2>3. t.mode = "DifferentTasks" => TotalShare(t) = Whole
    BY <2>1 DEF ValidTerms
  <2> QED BY <2>2, <2>3, ShareTotal DEF SharesWhole, SharesFit, HasMode, Mode
<1>3. CASE Status(id) = "Absent" /\ ~Begins(id)
  <2>1. Calm(id) \/ Moves(id)
    BY SparedCalm, CalmFacts
  <2>2. ~HasMode(id, "DifferentTasks")'
    BY <1>3, <2>1, ModeBefore DEF HasMode
  <2> QED BY <2>2 DEF SharesWhole
<1> QED BY <1>1, <1>2, <1>3

----------------------------------------------------------------------------
(* Time, and the promises that stay out.                                   *)

(* The calls about a bounty take no time, and pay nobody.                  *)
LEMMA OnBountyTime ==
  ASSUME NEW id, OnBounty(id)
  PROVE  UNCHANGED now /\ UNCHANGED paid
<1>1. ASSUME NEW t, ft_on_transfer(id, t) \/ bounty_create(id, t)
      PROVE  UNCHANGED now /\ UNCHANGED paid
  BY <1>1 DEF ft_on_transfer, bounty_create, AddBounty, tokens
<1>2. CASE bounty_cancel(id) \/ start_competition(id)
  BY <1>2 DEF bounty_cancel, start_competition, tokens
<1>3. ASSUME NEW u, bounty_update(id, u)
      PROVE  UNCHANGED now /\ UNCHANGED paid
  BY <1>3 DEF bounty_update, tokens
<1>4. ASSUME NEW who, NEW deadline, NEW slot,
             bounty_claim(who, id, deadline, slot)
      PROVE  UNCHANGED now /\ UNCHANGED paid
  BY <1>4 DEF bounty_claim, tokens
<1>5. ASSUME NEW sender, bounty_approve_of_several(sender, id)
      PROVE  UNCHANGED now /\ UNCHANGED paid
  BY <1>5 DEF bounty_approve_of_several, tokens
<1>6. CASE bounty_finalize_all(id) \/ return_proposal_bond(id)
  BY <1>6 DEF bounty_finalize_all, return_proposal_bond, tokens
<1> QED BY <1>1, <1>2, <1>3, <1>4, <1>5, <1>6 DEF OnBounty

(* Neither do the calls about a claim.                                     *)
LEMMA OnClaimTime ==
  ASSUME NEW k, OnClaim(k)
  PROVE  UNCHANGED now /\ UNCHANGED paid
<1>1. CASE bounty_done(k) \/ bounty_give_up(k) \/ withdraw(k) \/ open_dispute(k)
  BY <1>1 DEF bounty_done, bounty_give_up, withdraw, open_dispute,
              tokens
<1>2. ASSUME NEW deadline, extend_claim_deadline(k, deadline)
      PROVE  UNCHANGED now /\ UNCHANGED paid
  BY <1>2 DEF extend_claim_deadline, tokens
<1>3. ASSUME NEW place, mark_as_paid(k, place)
      PROVE  UNCHANGED now /\ UNCHANGED paid
  BY <1>3 DEF mark_as_paid, tokens
<1>4. CASE confirm_payment(k) \/ bounty_finalize(k)
  BY <1>4 DEF confirm_payment, bounty_finalize, tokens
<1>5. ASSUME NEW sender, NEW delayed, accept_claimant(sender, k, delayed)
      PROVE  UNCHANGED now /\ UNCHANGED paid
  BY <1>5 DEF accept_claimant, tokens
<1>6. ASSUME NEW sender, decline_claimant(sender, k) \/ bounty_reject(sender, k)
      PROVE  UNCHANGED now /\ UNCHANGED paid
  BY <1>6 DEF decline_claimant, bounty_reject, tokens
<1>7. ASSUME NEW sender, NEW place, bounty_approve(sender, k, place)
      PROVE  UNCHANGED now /\ UNCHANGED paid
  BY <1>7 DEF bounty_approve, tokens
<1>8. ASSUME NEW success, dispute_result(k, success)
      PROVE  UNCHANGED now /\ UNCHANGED paid
  BY <1>8 DEF dispute_result, tokens
<1> QED BY <1>1, <1>2, <1>3, <1>4, <1>5, <1>6, <1>7, <1>8 DEF OnClaim, ClaimCall

(* Nor do the callbacks take time; only those of a transfer pay somebody.   *)
LEMMA AnswerTime ==
  ASSUME NEW i, Answer(i)
  PROVE  /\ UNCHANGED now
         /\ UNCHANGED paid \/ after_ft_transfer(i) \/ after_bounty_withdraw(i)
<1>1. CASE after_ft_transfer(i) \/ after_bounty_withdraw(i)
  BY <1>1 DEF after_ft_transfer, after_bounty_withdraw
<1>2. CASE Drop(i) \/ after_refund_bounty_amount(i) \/ after_fees_payout(i)
  BY <1>2 DEF Drop, after_refund_bounty_amount, after_fees_payout, tokens
<1>3. CASE after_check_if_whitelisted(i) \/ after_add_proposal(i)
           \/ on_added_proposal_callback(i) \/ after_create_dispute(i)
  BY <1>3 DEF after_check_if_whitelisted, after_add_proposal,
              on_added_proposal_callback, after_create_dispute, tokens
<1>4. ASSUME NEW approved,
             \/ after_check_approve_claimant_proposal(i, approved)
             \/ after_check_bounty_payout_proposal(i, approved)
             \/ after_get_dispute(i, approved)
      PROVE  UNCHANGED now /\ UNCHANGED paid
  BY <1>4 DEF after_check_approve_claimant_proposal,
              after_check_bounty_payout_proposal, after_get_dispute, tokens
<1> QED BY <1>1, <1>2, <1>3, <1>4 DEF Answer

(* Time does not run backwards.                                            *)
LEMMA TimePasses ==
  ASSUME now \in Nat, [Next]_vars
  PROVE  now' >= now
<1>1. CASE Tick
  BY <1>1 DEF Tick
<1>2. CASE \/ change_config \/ withdraw_platform_fee
           \/ withdraw_validators_dao_fee \/ withdraw_non_refunded_bonds
  BY <1>2 DEF change_config, withdraw_platform_fee,
              withdraw_validators_dao_fee, withdraw_non_refunded_bonds, SendFees
<1>3. CASE UNCHANGED vars
  BY <1>3 DEF vars
<1> QED BY <1>1, <1>2, <1>3, OnBountyTime, OnClaimTime, AnswerTime DEF Next

(* The claims on a bounty of several tasks that is over keep their slots.  *)
LEMMA SlotStays ==
  ASSUME Course, NEW id \in BountyId, Calm(id) \/ Moves(id),
         HasMode(id, "DifferentTasks"), Status(id) \in {"Completed", "Canceled"},
         NEW k \in ClaimKey, k[1] = id
  PROVE  claims'[k].slot = claims[k].slot
<1>1. Status(id) \notin OpenStatuses(Mode(id))
  BY Opened DEF HasMode
<1>2. CASE Calm(id)
  <2>1. CalmClaim(k)
    BY <1>2 DEF Calm
  <2> QED BY <1>1, <2>1 DEF CalmClaim, Status, Mode
<1>3. CASE Moves(id)
  <2>1. CASE UNCHANGED claims
    BY <2>1
  <2>2. ASSUME NEW j \in ClaimKey, MovedClaims(id, j), ~UNCHANGED claims
        PROVE  claims'[k].slot = claims[k].slot
    <3>1. CASE \E s \in {"Canceled", "Expired", "NotCompleted", "Approved"} :
                 Closed(j, s)
      BY <3>1 DEF Closed, OthersStay
    <3>2. CASE j[1] = id /\ \E s \in Places \cup {Nil} : Admitted(j, s)
      BY <1>1, <3>2 DEF Admitted, Status, Mode
    <3> QED BY <2>2, <3>1, <3>2 DEF MovedClaims
  <2> QED BY <1>3, <2>1, <2>2, MoveClaims
<1> QED BY <1>2, <1>3

(* What a bounty has been agreed on stays so while it is there.            *)
LEMMA DealStays ==
  ASSUME Course, NEW id \in BountyId, Calm(id) \/ Moves(id), Status(id) # "Absent",
         NEW b, b = bounties[id], NEW c, c = bounties'[id]
  PROVE  /\ c.terms.mode = b.terms.mode /\ c.terms.flow = b.terms.flow
         /\ c.terms.dao = b.terms.dao /\ c.terms.postpaid = b.terms.postpaid
         /\ c.terms.kyc = b.terms.kyc
<1>1. CASE Calm(id)
  BY <1>1 DEF Calm, SameRun, SameTerms
<1>2. CASE Moves(id)
  <2>1. ~Begins(id)
    BY DEF Begins
  <2> QED BY <1>2, <2>1, MoveTerms
<1> QED BY <1>1, <1>2

(* So a promise that is fit stays fit, whatever happens meanwhile.         *)
LEMMA FitKept ==
  ASSUME Course, Shape', BountiesMove,
         \A id \in BountyId : Spared(id) \/ CalmEvents(id) \/ Moves(id),
         NEW call \in Calls, Fit(call)
  PROVE  Fit(call)'
<1>0. \A id \in BountyId : Calm(id) \/ Moves(id)
  BY SparedCalm, CalmFacts
<1>1. ASSUME NEW id \in BountyId, Status(id) # "Absent"
      PROVE  /\ Status(id)' # "Absent" /\ Mode(id)' = Mode(id)
             /\ bounties'[id].terms.flow = bounties[id].terms.flow
             /\ bounties'[id].terms.dao = bounties[id].terms.dao
             /\ bounties'[id].terms.postpaid = bounties[id].terms.postpaid
             /\ bounties'[id].terms.kyc = bounties[id].terms.kyc
             /\ SameReward(bounties[id], bounties'[id])
  <2>1. SameReward(bounties[id], bounties'[id])
    BY <1>1, RewardStays
  <2> QED BY <1>0, <1>1, <2>1, DealStays DEF BountiesMove, Later, Status, Mode
<1>2. /\ call.kind \in {"payout", "checkPayoutProposal"} => call.id \in BountyId
      /\ call.kind \in {"withdraw", "kyc", "addClaimantProposal",
                       "checkClaimantProposal", "addPayoutProposal"} =>
           call.claim \in ClaimKey /\ call.claim[1] \in BountyId
  BY CallFacts, KeyType
<1>3. CASE call.kind = "payout"
  <2>1. Price(bounties'[call.id], call.place) = Price(bounties[call.id], call.place)
    BY <1>1, <1>2, <1>3, PriceStays DEF Fit
  <2> QED BY <1>1, <1>2, <1>3, <2>1 DEF Fit
<1>7. CASE call.kind = "checkPayoutProposal"
  BY <1>1, <1>2, <1>7 DEF Fit
<1>4. CASE call.kind = "withdraw"
  <2>1. /\ Status(call.claim[1]) # "Absent"
        /\ Mode(call.claim[1]) = "DifferentTasks"
        /\ ~bounties[call.claim[1]].terms.postpaid
        /\ Finished(call.claim[1]) /\ claims[call.claim].slot = call.slot
        /\ call.amount \in Nat
        /\ call.amount >= Price(bounties[call.claim[1]], call.slot)
    BY <1>4 DEF Fit
  <2>2. Finished(call.claim[1])'
    BY <1>0, <1>2, <1>4, <2>1, FinishedStays
  <2>3. HasMode(call.claim[1], "DifferentTasks")
        /\ Status(call.claim[1]) \in {"Completed", "Canceled"}
    BY <2>1 DEF HasMode, Finished
  <2>4. claims'[call.claim].slot = claims[call.claim].slot
    BY <1>0, <1>2, <1>4, <2>3, SlotStays
  <2>5. Price(bounties'[call.claim[1]], call.slot)
          = Price(bounties[call.claim[1]], call.slot)
    BY <1>1, <1>2, <1>4, <2>1, PriceStays
  <2> QED BY <1>1, <1>2, <1>4, <2>1, <2>2, <2>4, <2>5 DEF Fit
<1>5. CASE call.kind \in {"kyc", "addClaimantProposal",
                         "checkClaimantProposal", "addPayoutProposal"}
  BY <1>1, <1>2, <1>5 DEF Fit
<1>6. CASE call.kind = "refund"
  BY <1>6 DEF Fit
<1> QED BY <1>3, <1>4, <1>5, <1>6, <1>7 DEF Fit

----------------------------------------------------------------------------
(* The invariant.                                                          *)

(* Every step keeps the course of every bounty and of every promise.       *)
LEMMA NextCourse == Course /\ [Next]_vars => Course'
<1> SUFFICES ASSUME Course, [Next]_vars PROVE Course'
  OBVIOUS
<1>1. /\ ClaimsStep /\ FitSeq(calls')
      /\ Work' /\ Shape' /\ BountiesMove
  BY Events
<1>2. now' >= now
  BY TimePasses DEF Course, Work, Shape, TypeOK
<1>3. ASSUME NEW id \in BountyId
      PROVE  /\ Spared(id) \/ CalmEvents(id) \/ Moves(id)
             /\ Calm(id) \/ Moves(id)
  BY <1>1, EventKinds, SparedCalm, CalmFacts
<1>4. ASSUME NEW id \in BountyId
      PROVE  /\ StatusFits(id)' /\ SlotsRun(id)' /\ ContestRun(id)'
             /\ TasksRun(id)'
  BY <1>1, <1>2, <1>3, StatusFitsKept, SlotsRunKept, ContestRunKept, TasksRunKept
<1>5. ASSUME NEW id \in BountyId
      PROVE  TasksPaid(id)' /\ PaymentKept(id)' /\ SharesWhole(id)'
  BY <1>1, <1>3, TasksPaidKept, PaymentKeptStays, SharesKept
<1>6. ASSUME NEW id \in BountyId
      PROVE  Numbered(id)' /\ IsFiniteSet(Made(id)')
  BY <1>1, NumberedKept
<1>7. ASSUME NEW k \in ClaimKey
      PROVE  ClaimFits(k)' /\ PaidFirst(k)'
  <2>1. k[1] \in BountyId
    BY KeyType
  <2> QED BY <1>1, <1>3, <2>1, ClaimFitsKept, PaidFirstKept
<1>8. FitSeq(calls)'
  <2>1. calls' \in Seq(Calls) /\ \A j \in 1 .. Len(calls') : Fit(calls'[j])
    BY <1>1 DEF FitSeq
  <2>2. ASSUME NEW j \in 1 .. Len(calls')
        PROVE  Fit(calls[j])'
    <3>1. PICK c \in Calls : c = calls'[j] /\ Fit(c)
      BY <2>1
    <3>2. Fit(c)'
      BY <1>1, <1>3, <3>1, FitKept
    <3> QED BY <3>1, <3>2
  <2> QED BY <2>1, <2>2 DEF FitSeq
<1> QED BY <1>1, <1>4, <1>5, <1>6, <1>7, <1>8 DEF Course

(* Nothing is out of order at the start.                                   *)
LEMMA InitCourse == Init => Course
<1> SUFFICES ASSUME Init PROVE Course
  OBVIOUS
<1>1. Work
  BY InitWork
<1>2. /\ \A id \in BountyId : Status(id) = "Absent"
      /\ \A k \in ClaimKey : claims[k].status = "Absent"
  BY DEF Init, NoBounty, NoClaim, Status
<1>3. FitSeq(calls)
  BY DEF Init, FitSeq
<1>4. ASSUME NEW id \in BountyId
      PROVE  /\ StatusFits(id) /\ Numbered(id) /\ IsFiniteSet(Made(id))
             /\ SlotsRun(id) /\ ContestRun(id)
             /\ TasksRun(id) /\ TasksPaid(id) /\ PaymentKept(id)
             /\ SharesWhole(id)
  <2>1. Made(id) = {}
    BY <1>2 DEF Made
  <2>2. IsFiniteSet(Made(id))
    BY <2>1, FS_EmptySet
  <2>3. StatusFits(id) /\ Numbered(id)
    BY <1>2 DEF StatusFits, Numbered, Status
  <2> QED BY <1>2, <2>2, <2>3
          DEF HasMode, SlotsRun, ContestRun, TasksRun, TasksPaid, PaymentKept,
              SharesWhole
<1>5. ASSUME NEW k \in ClaimKey
      PROVE  ClaimFits(k) /\ PaidFirst(k)
  BY <1>2 DEF ClaimFits, PaidFirst
<1> QED BY <1>1, <1>3, <1>4, <1>5 DEF Course

(* The bounties and the promises stay on course, for ever.                 *)
LEMMA AlwaysCourse == Spec => []Course
BY InitCourse, NextCourse, PTL DEF Spec

----------------------------------------------------------------------------
(* What it means for the counters, the slots and the payments.             *)

(* The occupied slots of a OneForAll bounty are the claims that occupy     *)
(* one, and there are never more claims than slots: the counter that       *)
(* internal.rs moves in nine places is never off.                          *)
THEOREM OccupiedSlotsAgreeAlways == Spec => []OccupiedSlotsAgree
<1>1. Course => OccupiedSlotsAgree
  BY DEF Course, SlotsRun, OccupiedSlotsAgree
<1> QED BY <1>1, AlwaysCourse, PTL

(* A bounty awaits claims only when some of its slots are paid and no      *)
(* claim is left, and one that runs has a claim at work.                   *)
THEOREM PauseAgreesAlways == Spec => []PauseAgrees
<1>1. ASSUME Course PROVE PauseAgrees
  <2>1. ASSUME NEW id \in BountyId,
               Status(id) \in {"AwaitingClaims", "PartiallyCompleted"}
        PROVE  HasMode(id, "OneForAll")
    BY <1>1, <2>1 DEF Course, StatusFits, HasMode, Mode, Status
  <2>2. ASSUME NEW id \in BountyId, HasMode(id, "OneForAll"),
               Status(id) = "ManyClaimed"
        PROVE  ClaimsOf(id, Active) # {}
    <3>1. /\ bounties[id].occupied_slots = Cardinality(ClaimsOf(id, Occupying))
          /\ bounties[id].occupied_slots # 0
          /\ ClaimsOf(id, {"ReadyToStart"}) = {}
      BY <1>1, <2>2 DEF Course, SlotsRun, Status
    <3>2. ClaimsOf(id, Occupying) # {}
      BY <3>1, FS_EmptySet
    <3> QED BY <3>1, <3>2 DEF ClaimsOf, Occupying, Active
  <2>3. \A id \in BountyId : SlotsRun(id)
    BY <1>1 DEF Course
  <2> QED BY <2>1, <2>2, <2>3 DEF PauseAgrees, SlotsRun, HasMode, Mode, Status
<1> QED BY <1>1, AlwaysCourse, PTL

(* The participants of a contest are the claims that take part in it.      *)
THEOREM ParticipantsAgreeAlways == Spec => []ParticipantsAgree
<1>1. Course => ParticipantsAgree
  BY DEF Course, ContestRun, ParticipantsAgree
<1> QED BY <1>1, AlwaysCourse, PTL

(* A contest that runs knows when it began, and one that does not run is   *)
(* not taken for begun: the unwraps of get_start_time and of the claim     *)
(* window never panic.                                                     *)
THEOREM StartKnownAlways == Spec => []StartKnown
<1>1. Course => StartKnown
  BY DEF Course, ContestRun, StartKnown, Status
<1> QED BY <1>1, AlwaysCourse, PTL

(* A subtask slot and the claim that holds it name each other.             *)
THEOREM SlotsHeldAlways == Spec => []SlotsHeld
<1>1. Course => SlotsHeld
  BY DEF Course, TasksRun, SlotNames, ClaimNames, SlotsHeld
<1> QED BY <1>1, AlwaysCourse, PTL

(* The work on several tasks is only accepted together: while one claim is *)
(* approved none is at work, waits, or argues.                             *)
THEOREM AcceptedTogetherAlways == Spec => []AcceptedTogether
<1>1. ASSUME Course PROVE AcceptedTogether
  <2>1. ASSUME NEW k \in ClaimKey, HasMode(k[1], "DifferentTasks"),
               claims[k].status = "Approved"
        PROVE  Finished(k[1])
    <3>1. k[1] \in BountyId /\ k \in ClaimsOf(k[1], {"Approved"})
      BY <2>1, KeyType DEF ClaimsOf
    <3> QED BY <1>1, <2>1, <3>1 DEF Course, TasksRun
  <2> QED BY <2>1 DEF AcceptedTogether, Finished, Unsettled
<1> QED BY <1>1, AlwaysCourse, PTL

(* Without a DAO, work that is paid for outside the contract is accepted   *)
(* only when its payment was made and confirmed.                           *)
THEOREM ConfirmedFirstAlways == Spec => []ConfirmedFirst
<1>1. Course => ConfirmedFirst
  BY DEF Course, PaidFirst, ConfirmedFirst
<1> QED BY <1>1, AlwaysCourse, PTL

(* The record of a payment never outlives the claim it was made for.       *)
THEOREM PaymentHasClaimAlways == Spec => []PaymentHasClaim
<1>1. Course => PaymentHasClaim
  BY DEF Course, PaymentKept, PaymentHasClaim, ClaimsOf
<1> QED BY <1>1, AlwaysCourse, PTL

----------------------------------------------------------------------------
(* What a step may never do.                                               *)

(* A claim that waited for the owner is approved only where the owner      *)
(* decides, so it is never complete at once.                               *)
LEMMA AdmitsFlow ==
  ASSUME Course, NEW k \in ClaimKey, Admits(k)
  PROVE  claims[k].status \in Over \/ bounties[k[1]].terms.flow = "AdvancedFlow"
BY FreshOver DEF Admits

(* From a status that is over only a new claim leads on.                   *)
LEMMA OverWays ==
  ASSUME NEW s \in Over
  PROVE  Successors(s) = {"New", "ReadyToStart", "InProgress", "Competes",
                          "Completed"}
<1>1. CASE s = "Absent"
  BY <1>1 DEF Successors, Over
<1>2. CASE s = "Approved"
  BY <1>2 DEF Successors, Over
<1>3. CASE s = "Canceled"
  BY <1>3 DEF Successors, Over
<1>4. CASE s = "Expired"
  BY <1>4 DEF Successors, Over
<1>5. CASE s = "NotCompleted"
  BY <1>5 DEF Successors, Over
<1>6. CASE s = "NotHired"
  BY <1>6 DEF Successors, Over
<1> QED BY <1>1, <1>2, <1>3, <1>4, <1>5, <1>6 DEF Over

(* internal_claimant_approval moves claims along the ways they have.       *)
LEMMA AdmitsLife ==
  ASSUME Course, NEW k \in ClaimKey, Admits(k), NEW j \in ClaimKey,
         claims'[j].status # claims[j].status
  PROVE  claims'[j].status \in Successors(claims[j].status)
<1> PICK b : b = bounties[k[1]]
  OBVIOUS
<1>1. PICK s : Admitted(k, s)
  BY AdmitsFacts
<1>2. CASE j = k
  <2>1. /\ claims[j].status \in Over \cup {"New"}
        /\ claims'[j].status = AdmittedStatus(b, k, s)
    BY <1>1, <1>2 DEF Admitted
  <2>2. claims'[j].status \in {"ReadyToStart", "InProgress", "Competes", "Completed"}
    BY <2>1 DEF AdmittedStatus, ApprovedStatus
  <2>3. claims[j].status = "New" => claims'[j].status # "Completed"
    BY <1>2, <2>1, AdmitsFlow DEF AdmittedStatus, ApprovedStatus, Over
  <2>4. CASE claims[j].status \in Over
    BY <2>2, <2>4, OverWays
  <2>5. CASE claims[j].status = "New"
    <3>1. Successors("New") = {"ReadyToStart", "InProgress", "Competes",
                               "NotHired", "Canceled"}
      BY DEF Successors, Over
    <3> QED BY <2>2, <2>3, <2>5, <3>1
  <2> QED BY <2>1, <2>4, <2>5
<1>3. CASE j # k
  <2>1. j \in Released(b, k, s)
    BY <1>1, <1>3 DEF Admitted
  <2>2. claims[j].status = "ReadyToStart" /\ b.terms.mode # "Contest"
    BY <2>1, ReleasedFacts
  <2>3. claims'[j].status \in {"InProgress", "Completed"}
    BY <1>1, <2>1, <2>2 DEF Admitted, ApprovedStatus
  <2>4. Successors("ReadyToStart") = {"InProgress", "Completed", "Canceled"}
    BY DEF Successors, Over
  <2> QED BY <2>2, <2>3, <2>4
<1> QED BY <1>2, <1>3

(* The ways that claims have.                                              *)
LEMMA Ways ==
  /\ \A s \in Over : "New" \in Successors(s)
  /\ {"NotHired", "Canceled"} \subseteq Successors("New")
  /\ "Canceled" \in Successors("ReadyToStart")
  /\ {"Completed", "Canceled", "Expired"} \subseteq Successors("InProgress")
  /\ {"Completed", "Canceled", "Expired", "NotCompleted"}
       \subseteq Successors("Competes")
  /\ {"Approved", "Rejected", "NotCompleted", "Canceled"}
       \subseteq Successors("Completed")
  /\ {"Disputed", "NotCompleted"} \subseteq Successors("Rejected")
  /\ {"Approved", "NotCompleted", "CompletedWithDispute"}
       \subseteq Successors("Disputed")
  /\ "Approved" \in Successors("CompletedWithDispute")
<1>1. \A s \in Over : "New" \in Successors(s)
  BY OverWays
<1>2. /\ {"NotHired", "Canceled"} \subseteq Successors("New")
      /\ "Canceled" \in Successors("ReadyToStart")
  BY DEF Successors, Over
<1>3. {"Completed", "Canceled", "Expired"} \subseteq Successors("InProgress")
  BY DEF Successors, Over
<1>4. {"Completed", "Canceled", "Expired", "NotCompleted"}
        \subseteq Successors("Competes")
  BY DEF Successors, Over
<1>5. {"Approved", "Rejected", "NotCompleted", "Canceled"}
        \subseteq Successors("Completed")
  BY DEF Successors, Over
<1>6. {"Disputed", "NotCompleted"} \subseteq Successors("Rejected")
  BY DEF Successors, Over
<1>7. {"Approved", "NotCompleted", "CompletedWithDispute"}
        \subseteq Successors("Disputed")
  BY DEF Successors, Over
<1>8. "Approved" \in Successors("CompletedWithDispute")
  BY DEF Successors, Over
<1> QED BY <1>1, <1>2, <1>3, <1>4, <1>5, <1>6, <1>7, <1>8

(* So do the other events that move a bounty.                              *)
LEMMA MovesLife ==
  ASSUME Course, NEW id \in BountyId, Moves(id), NEW j \in ClaimKey,
         claims'[j].status # claims[j].status
  PROVE  claims'[j].status \in Successors(claims[j].status)
<1>1. CASE Begins(id) \/ start_competition(id) \/ Cancels(id) \/ Accepts(id)
  BY <1>1, StartFacts DEF Begins, Cancels, Accepts
<1>2. ASSUME NEW k \in ClaimKey, NEW s, Closed(k, s),
             s \in Successors(claims[k].status)
      PROVE  claims'[j].status \in Successors(claims[j].status)
  BY <1>2 DEF Closed, OthersStay
<1>3. ASSUME NEW k \in ClaimKey, Leaves(k)
      PROVE  \E s : Closed(k, s) /\ s \in Successors(claims[k].status)
  <2>1. PICK s \in {"NotCompleted", "Canceled"} :
          /\ Closed(k, s)
          /\ \/ claims[k].status = "ReadyToStart" /\ s = "Canceled"
             \/ claims[k].status \in {"Competes", "Completed"}
    BY <1>3, LeavesFacts
  <2> QED BY <2>1, Ways
<1>4. ASSUME NEW k \in ClaimKey, Resets(k)
      PROVE  \E s : Closed(k, s) /\ s \in Successors(claims[k].status)
  <2>1. PICK s \in {"Expired", "Canceled", "NotCompleted"} :
          /\ Closes(k, s)
          /\ \/ /\ claims[k].status \in {"InProgress", "Competes"}
                /\ s # "NotCompleted"
             \/ /\ claims[k].status \in {"Completed", "Rejected", "Disputed"}
                /\ s = "NotCompleted"
    BY <1>4 DEF Resets
  <2>2. Closed(k, s)
    BY <2>1, ClosesFacts
  <2> QED BY <2>1, <2>2, Ways
<1>5. ASSUME NEW k \in ClaimKey, Pays(k) \/ Withdraws(k)
      PROVE  \E s : Closed(k, s) /\ s \in Successors(claims[k].status)
  <2>1. /\ Closed(k, "Approved")
        /\ claims[k].status \in {"Completed", "Disputed", "CompletedWithDispute"}
    BY <1>5, PaysFacts, WithdrawsFacts DEF Pays, Withdraws
  <2> QED BY <2>1, Ways
<1> QED BY <1>1, <1>2, <1>3, <1>4, <1>5, AdmitsLife DEF Moves

(* Each step moves a claim along the ways of the README.                   *)
LEMMA NextLife ==
  ASSUME Course, [Next]_vars, NEW k \in ClaimKey,
         claims'[k].status # claims[k].status
  PROVE  claims'[k].status \in Successors(claims[k].status)
<1>1. ClaimsStep /\ Shape'
  BY Events
<1>2. k[1] \in BountyId
  BY KeyType
<1>3. CASE Calm(k[1])
  <2>1. CalmClaim(k)
    BY <1>3 DEF Calm
  <2>2. \/ claims[k].status \in Over /\ claims'[k].status = "New"
        \/ /\ claims[k].status = "New"
           /\ claims'[k].status \in {"NotHired", "Canceled"}
        \/ /\ claims[k].status \in {"InProgress", "Competes"}
           /\ claims'[k].status = "Completed"
        \/ claims[k].status = "Completed" /\ claims'[k].status = "Rejected"
        \/ claims[k].status = "Rejected" /\ claims'[k].status = "Disputed"
        \/ /\ claims[k].status = "Disputed"
           /\ claims'[k].status = "CompletedWithDispute"
    BY <2>1 DEF CalmClaim
  <2> QED BY <2>2, Ways
<1>4. CASE Moves(k[1])
  BY <1>2, <1>4, MovesLife
<1> QED BY <1>1, <1>2, <1>3, <1>4, EventKinds, SparedCalm, CalmFacts

(* Claims follow the statuses of the README: no callback and no result     *)
(* that arrives late moves a claim along a way it does not have, whatever  *)
(* happened to it while the promise was out.                               *)
THEOREM ClaimLifecycleAlways == Spec => ClaimLifecycle
<1>1. Course /\ [Next]_vars =>
        [\A k \in ClaimKey :
           claims'[k].status # claims[k].status =>
             claims'[k].status \in Successors(claims[k].status)]_vars
  BY NextLife
<1> QED BY <1>1, AlwaysCourse, PTL DEF Spec, ClaimLifecycle

(* A bounty that is paid in full is left so by whatever moves its claims.  *)
LEMMA CompletedStays ==
  ASSUME Course, Shape', NEW id \in BountyId, Moves(id),
         Status(id) = "Completed", refunded'[id] = refunded[id],
         NEW b, b = bounties[id], NEW c, c = bounties'[id]
  PROVE  c.status = "Completed"
<1>1. b.status = "Completed" /\ b.status \notin Running
  BY DEF Status, Running
<1>2. CASE Begins(id) \/ start_competition(id) \/ Accepts(id)
  BY <1>1, <1>2, StartFacts DEF Begins, Accepts, Status
<1>3. CASE Cancels(id)
  BY <1>1, <1>3 DEF Cancels, Status
<1>4. ASSUME NEW k \in ClaimKey, k[1] = id, Leaves(k)
      PROVE  c.status = "Completed"
  BY <1>1, <1>4, LeavesEffect
<1>5. ASSUME NEW k \in ClaimKey, k[1] = id, Withdraws(k)
      PROVE  c.status = "Completed"
  BY <1>1, <1>5, WithdrawsEffect
<1>6. ASSUME NEW k \in ClaimKey, k[1] = id, Pays(k)
      PROVE  FALSE
  BY <1>1, <1>6 DEF Pays
<1>7. ASSUME NEW k \in ClaimKey, k[1] = id, Admits(k)
      PROVE  FALSE
  <2>1. PICK s : Admitted(k, s)
    BY <1>7, AdmitsFacts
  <2>2. b.status \in OpenStatuses(b.terms.mode) /\ b \in Bounty
    BY <1>7, <2>1, AdmitsEffect
  <2>3. b.terms.mode \in {"None", "Contest", "OneForAll", "DifferentTasks"}
    BY <2>2 DEF Bounty, Terms, Modes
  <2> QED BY <1>1, <2>2, <2>3, Opened
<1>8. ASSUME NEW k \in ClaimKey, k[1] = id, Resets(k)
      PROVE  c.status = "Completed"
  <2>0. b \in Bounty
    BY <1>8, ResetsEffect
  <2>1. claims[k].status \in {"InProgress", "Competes"}
    BY <1>1, <1>8 DEF Resets
  <2>2. ClaimFits(k)
    BY DEF Course
  <2>3. CASE b.terms.mode = "None"
    <3>1. Lone(id) /\ k \in ClaimsOf(id, Active)
      BY <1>8, <2>1, <2>2, <2>3
         DEF Course, Work, Alone, Shared, ClaimFits, ClaimsOf, Active, Mode, Status
    <3> QED BY <3>1 DEF Lone
  <2>4. CASE b.terms.mode \in {"Contest", "OneForAll"}
    BY <1>1, <1>8, <2>4, ResetsEffect DEF PausedStatus
  <2>5. CASE b.terms.mode = "DifferentTasks"
    <3>1. Finished(id)
      BY <1>1, <2>5, TaskFacts DEF HasMode, Mode, Status
    <3> QED BY <1>8, <2>1, <2>2, <2>5, <3>1
            DEF Finished, ClaimFits, ClaimsOf, Unsettled
  <2>6. b.terms.mode \in {"None", "Contest", "OneForAll", "DifferentTasks"}
    BY <2>0 DEF Bounty, Terms, Modes
  <2> QED BY <2>3, <2>4, <2>5, <2>6
<1> QED BY <1>2, <1>3, <1>4, <1>5, <1>6, <1>7, <1>8 DEF Moves

(* A bounty that was paid in full takes no more claims and is not brought  *)
(* back: not by a transfer, a vote, a KYC answer or a dispute result that  *)
(* comes late, nor by giving up or finalizing what is left of its claims.  *)
THEOREM OverIsOverAlways == Spec => OverIsOver
<1>1. ASSUME Course, [Next]_vars, NEW id \in BountyId,
             Status(id) = "Completed", refunded[id] = 0, refunded'[id] = 0
      PROVE  Status(id)' = "Completed"
  <2>1. ClaimsStep /\ Shape'
    BY <1>1, Events
  <2>2. CASE Calm(id)
    BY <1>1, <2>2 DEF Calm, SameRun, Status
  <2>3. CASE Moves(id)
    BY <1>1, <2>1, <2>3, CompletedStays DEF Status
  <2> QED BY <1>1, <2>1, <2>2, <2>3, EventKinds, SparedCalm, CalmFacts
<1>2. Course /\ [Next]_vars =>
        [\A id \in BountyId :
           Status(id) = "Completed" /\ refunded[id] = 0 /\ refunded'[id] = 0 =>
             Status(id)' = "Completed"]_vars
  BY <1>1
<1> QED BY <1>2, AlwaysCourse, PTL DEF Spec, OverIsOver

----------------------------------------------------------------------------
(* The time of those at work.                                              *)

(* What the internal functions make of the start of a competition: only an *)
(* approval that starts it sets it.                                        *)
LEMMA StartFields ==
  ASSUME NEW b \in Bounty, NEW k \in ClaimKey, NEW s, NEW place
  PROVE  /\ ResetSlot(b, s).started_at = b.started_at
         /\ Left(b, k).started_at = b.started_at
         /\ Reopened(b, k).started_at = b.started_at
         /\ PaidBounty(b, k, place).started_at = b.started_at
         /\ BountyOnApproval(b, k, s).started_at \in {b.started_at, now}
         /\ b.terms.mode # "Contest" =>
              BountyOnApproval(b, k, s).started_at = b.started_at
<1>1. \A p : ResetSlot(b, p).started_at = b.started_at
  BY Zenon DEF ResetSlot, Bounty
<1>2. \A p : ResetSlot(b, p) \in Bounty
  BY DEF ResetSlot, Bounty
<1>3. Left(b, k).started_at = b.started_at
  BY <1>1, Zenon DEF Left, Bounty
<1>4. Reopened(b, k).started_at = b.started_at
  <2>1. CASE b.terms.mode = "Contest"
    BY <2>1, ReopenedFields
  <2>2. CASE b.terms.mode = "DifferentTasks"
    <3> DEFINE freed == ResetSlot(b, claims[k].slot)
               t == IF AllSlotsAvailable(freed) THEN "New" ELSE freed.status
    <3>1. freed \in Bounty /\ freed.started_at = b.started_at
      BY <1>1, <1>2
    <3>2. Reopened(b, k) = [freed EXCEPT !.status = t]
      BY <2>2, Zenon DEF Reopened
    <3> HIDE DEF freed, t
    <3> QED BY <3>1, <3>2, Zenon DEF Bounty
  <2>3. CASE b.terms.mode = "OneForAll"
    <3>1. PICK t : Reopened(b, k) =
                     [b EXCEPT !.occupied_slots = @ - 1, !.status = t]
      BY <2>3, Zenon DEF Reopened
    <3> QED BY <3>1, Zenon DEF Bounty
  <2>4. CASE b.terms.mode = "None"
    BY <2>4, Zenon DEF Reopened, Bounty
  <2>5. b.terms.mode \in {"None", "Contest", "OneForAll", "DifferentTasks"}
    BY DEF Bounty, Terms, Modes
  <2> QED BY <2>1, <2>2, <2>3, <2>4, <2>5
<1>5. PaidBounty(b, k, place).started_at = b.started_at
  BY Zenon DEF PaidBounty, Bounty
<1>6. b.terms.mode = "Contest" =>
        BountyOnApproval(b, k, s).started_at \in {b.started_at, now}
  BY ApprovalFields
<1>7. b.terms.mode # "Contest" =>
        BountyOnApproval(b, k, s).started_at = b.started_at
  <2>1. CASE b.terms.mode = "None"
    BY <2>1, Zenon DEF BountyOnApproval, Bounty
  <2>2. CASE b.terms.mode = "OneForAll"
    BY <2>2, Zenon DEF BountyOnApproval, Bounty
  <2>3. CASE b.terms.mode = "DifferentTasks"
    BY <2>3, Zenon DEF BountyOnApproval, Bounty
  <2>4. b.terms.mode \in {"None", "Contest", "OneForAll", "DifferentTasks"}
    BY DEF Bounty, Terms, Modes
  <2> QED BY <2>1, <2>2, <2>3, <2>4
<1> QED BY <1>1, <1>3, <1>4, <1>5, <1>6, <1>7

(* The start of a competition stays, or it is now, whoever moves a bounty. *)
LEMMA StartMoves ==
  ASSUME Course, NEW id \in BountyId, Moves(id), ~Begins(id),
         NEW b, b = bounties[id], NEW c, c = bounties'[id]
  PROVE  \/ c.started_at = b.started_at
         \/ b.terms.mode = "Contest" /\ c.started_at = now
<1>1. CASE start_competition(id)
  BY <1>1, StartFacts
<1>2. CASE Cancels(id) \/ Accepts(id)
  BY <1>2, StatusEffect
<1>3. ASSUME NEW k \in ClaimKey, k[1] = id,
             Leaves(k) \/ Resets(k) \/ Pays(k) \/ Withdraws(k)
      PROVE  c.started_at = b.started_at
  <2>1. b \in Bounty
    BY <1>3, Stored
  <2>2. \/ c = Left(b, k) \/ c = Reopened(b, k)
        \/ c = ResetSlot(b, claims[k].slot)
        \/ \E place : c = PaidBounty(b, k, place)
    BY <1>3, LeavesFacts, ResetsFacts, PaysFacts, WithdrawsFacts
  <2> QED BY <2>1, <2>2, StartFields
<1>4. ASSUME NEW k \in ClaimKey, k[1] = id, Admits(k)
      PROVE  \/ c.started_at = b.started_at
             \/ b.terms.mode = "Contest" /\ c.started_at = now
  <2>1. PICK s : Admitted(k, s)
    BY <1>4, AdmitsFacts
  <2>2. b \in Bounty /\ c = BountyOnApproval(b, k, s)
    BY <1>4, <2>1, Stored DEF Admitted
  <2> QED BY <2>2, StartFields
<1> QED BY <1>1, <1>2, <1>3, <1>4 DEF Moves

(* No event stores a claim that is at work and stays so, but for a later   *)
(* deadline.                                                               *)
LEMMA AtWork ==
  ASSUME Course, NEW k \in ClaimKey, claims[k].status \in {"InProgress", "Competes"},
         claims'[k].status = claims[k].status,
         Spared(k[1]) \/ CalmEvents(k[1]) \/ Moves(k[1])
  PROVE  \/ claims'[k] = claims[k]
         \/ \E d \in Deadlines : extend_claim_deadline(k, d)
<1>0. k[1] \in BountyId
  BY KeyType
<1>1. CASE Spared(k[1])
  BY <1>1 DEF Spared
<1>2. CASE Changes(k[1])
  BY <1>0, <1>2, ChangesFacts DEF Changes
<1>3. ASSUME NEW j \in ClaimKey, NEW s, Closed(j, s), s # claims[j].status
      PROVE  claims'[k] = claims[k]
  BY <1>3 DEF Closed, OthersStay
<1>4. ASSUME NEW j \in ClaimKey, Notes(j)
      PROVE  \/ claims'[k] = claims[k]
             \/ \E d \in Deadlines : extend_claim_deadline(k, d)
  <2>1. CASE \E d \in Deadlines : extend_claim_deadline(j, d)
    <3>1. OthersStay(j)
      BY <2>1, ExtendFacts
    <3> QED BY <2>1, <3>1 DEF OthersStay
  <2>2. CASE \/ \E place \in UsedPlaces(bounties[j[1]]) : mark_as_paid(j, place)
             \/ confirm_payment(j)
    <3>1. OthersStay(j) /\ claims[j].status \in {"Completed", "CompletedWithDispute"}
      BY <2>2, PaymentFacts
    <3> QED BY <3>1 DEF OthersStay
  <2> QED BY <1>4, <2>1, <2>2 DEF Notes
<1>5. ASSUME NEW j \in ClaimKey, Applies(j)
      PROVE  claims'[k] = claims[k]
  <2>1. OthersStay(j) /\ claims[j].status \in Over
    BY <1>5, AppliesFacts
  <2> QED BY <2>1 DEF OthersStay, Over
<1>6. ASSUME NEW j \in ClaimKey,
             Finishes(j) \/ Declines(j) \/ Rejects(j) \/ Argues(j)
      PROVE  \E s : Closed(j, s) /\ s # claims[j].status
  <2>1. CASE Finishes(j)
    BY <2>1, FinishesFacts
  <2>2. CASE Declines(j)
    BY <2>2, ClosesFacts DEF Declines
  <2>3. CASE Rejects(j)
    <3>1. claims[j].status = "Completed"
      BY <2>3, Zenon DEF Rejects
    <3>2. Closed(j, "Rejected")
      BY <2>3, RejectsFacts
    <3> QED BY <3>1, <3>2
  <2>4. CASE Argues(j)
    BY <2>4, ClosesFacts DEF Argues
  <2> QED BY <1>6, <2>1, <2>2, <2>3, <2>4
<1>7. CASE CalmEvents(k[1])
  BY <1>2, <1>3, <1>4, <1>5, <1>6, <1>7 DEF CalmEvents
<1>8. CASE Moves(k[1])
  <2>1. ASSUME NEW j \in ClaimKey, NEW s, Admitted(j, s)
        PROVE  claims'[k] = claims[k]
    <3>1. k # j
      BY <2>1 DEF Admitted, Over
    <3>2. k \notin Released(bounties[j[1]], j, s)
      BY ReleasedFacts
    <3> QED BY <2>1, <3>1, <3>2 DEF Admitted
  <2>2. ASSUME NEW j \in ClaimKey,
               \E s \in {"Canceled", "Expired", "NotCompleted", "Approved"} :
                  Closed(j, s)
        PROVE  claims'[k] = claims[k]
    BY <2>2 DEF Closed, OthersStay
  <2> QED BY <1>0, <1>8, <2>1, <2>2, MoveClaims DEF MovedClaims
<1> QED BY <1>1, <1>7, <1>8

(* The terms of bounty c give no less time than those of b.                *)
LaterTerms(b, c) ==
  \/ c.terms.deadline_type = "WithoutDeadline"
  \/ /\ c.terms.deadline_type = b.terms.deadline_type
     /\ c.terms.deadline >= b.terms.deadline

(* The competition of c starts no earlier than that of b.                  *)
LaterStart(b, c) ==
  b.started_at # Nil => c.started_at \in Nat /\ c.started_at >= b.started_at

(* A claim with a deadline, a start and terms that are no earlier is not   *)
(* overdue at a time at which it was not.                                  *)
LEMMA LaterExpires ==
  ASSUME NEW c \in Claim, NEW d \in Claim, NEW b \in Bounty, NEW e \in Bounty,
         NEW time \in Nat,
         StartTime(c, b) # Nil, ~IsExpired(c, b, time),
         d.start_time = c.start_time, LaterStart(b, e), LaterTerms(b, e),
         \/ d.deadline = c.deadline
         \/ d.deadline \in Nat /\ c.deadline \in Nat /\ d.deadline > c.deadline
  PROVE  ~IsExpired(d, e, time)
<1>1. Nil \notin Nat
  BY NilAssumption
<1>2. PICK s : s = StartTime(c, b)
  OBVIOUS
<1>3. PICK r : r = StartTime(d, e)
  OBVIOUS
<1>4. s \in Nat /\ r \in Nat /\ r >= s
  <2>1. c.start_time \in Nat \cup {Nil} /\ b.started_at \in Nat \cup {Nil}
    BY DEF Claim, Bounty
  <2>2. CASE c.start_time = Nil
    BY <1>1, <1>2, <1>3, <2>1, <2>2 DEF StartTime, LaterStart
  <2>3. CASE c.start_time # Nil
    BY <1>1, <1>2, <1>3, <2>1, <2>3 DEF StartTime
  <2> QED BY <2>2, <2>3
<1>5. c.deadline \in Nat \cup {Nil} /\ d.deadline \in Nat \cup {Nil}
  BY DEF Claim
<1>6. b.terms.deadline \in Nat /\ e.terms.deadline \in Nat
  BY DEF Bounty, Terms
<1>7. CASE c.deadline = Nil
  <2>1. d.deadline = Nil
    BY <1>1, <1>7
  <2>2. /\ b.terms.deadline_type = "DueDate" => time <= b.terms.deadline
        /\ b.terms.deadline_type = "MaxDeadline" =>
             time <= s + b.terms.deadline
    BY <1>2, <1>4, <1>6, <1>7 DEF IsExpired
  <2>3. /\ e.terms.deadline_type = "DueDate" => time <= e.terms.deadline
        /\ e.terms.deadline_type = "MaxDeadline" =>
             time <= r + e.terms.deadline
    BY <1>4, <1>6, <2>2 DEF LaterTerms
  <2> QED BY <1>3, <1>4, <1>6, <2>1, <2>3 DEF IsExpired
<1>8. CASE c.deadline # Nil
  <2>1. c.deadline \in Nat /\ d.deadline \in Nat /\ d.deadline >= c.deadline
    BY <1>1, <1>5, <1>8
  <2>2. time <= s + c.deadline
    BY <1>2, <1>4, <1>8, <2>1 DEF IsExpired
  <2>3. d.deadline # Nil /\ time <= r + d.deadline
    BY <1>1, <1>4, <2>1, <2>2
  <2> QED BY <1>3, <1>4, <2>1, <2>3 DEF IsExpired
<1> QED BY <1>7, <1>8

(* As long as somebody is at work, an update of the bounty makes the       *)
(* deadline later, or takes it away.                                       *)
LEMMA UpdateLater ==
  ASSUME Course, NEW k \in ClaimKey,
         claims[k].status \in {"InProgress", "Competes"}, Changes(k[1])
  PROVE  LaterTerms(bounties[k[1]], bounties'[k[1]])
<1> DEFINE id == k[1]
<1>1. PICK u \in Updates : bounty_update(id, u)
  BY DEF Changes
<1>2. /\ id \in BountyId /\ bounties[id].terms \in Terms /\ u \in Update
      /\ bounties[id].terms.deadline \in Nat
  BY Stored, BountiesAssumption DEF Bounty, Terms
<1>3. bounties'[id].terms = UpdatedTerms(bounties[id].terms, u)
  BY <1>1, <1>2, ChangesFacts
<1>4. PICK t : t = bounties[id].terms
  OBVIOUS
<1>5. PICK w : w = bounties'[id].terms
  OBVIOUS
<1>6. /\ u.field # "deadline" =>
           w.deadline_type = t.deadline_type /\ w.deadline = t.deadline
      /\ u.field = "deadline" =>
           w.deadline_type = u.deadline_type /\ w.deadline = u.deadline
  BY <1>2, <1>3, <1>4, <1>5, TermsStay
<1>7. ASSUME u.field = "deadline"
      PROVE  \/ u.deadline_type = "WithoutDeadline"
             \/ /\ u.deadline_type = t.deadline_type
                /\ u.deadline > t.deadline
  <2>1. UpdateAllowed(id, u)
    BY <1>1 DEF bounty_update
  <2>2. DeadlineUpdatable(id, u)
    BY <1>7, <2>1, Zenon DEF UpdateAllowed
  <2>3. k \in ClaimsOf(id, AgreedStatuses(bounties[id]))
    BY DEF ClaimsOf, AgreedStatuses, HiredStatuses
  <2> QED BY <1>4, <2>2, <2>3 DEF DeadlineUpdatable, Bargained
<1>8. u.field = "deadline" => u.deadline \in Nat
  BY <1>2 DEF Update
<1> QED BY <1>2, <1>4, <1>5, <1>6, <1>7, <1>8 DEF LaterTerms

(* Whatever happens to the bounty of a claim that is at work, neither its  *)
(* terms nor its competition take time away.                               *)
LEMMA WorkKeepsTime ==
  ASSUME Course, NEW k \in ClaimKey,
         claims[k].status \in {"InProgress", "Competes"},
         Spared(k[1]) \/ CalmEvents(k[1]) \/ Moves(k[1]),
         NEW b, b = bounties[k[1]], NEW c, c = bounties'[k[1]]
  PROVE  LaterTerms(b, c) /\ LaterStart(b, c)
<1> DEFINE id == k[1]
<1>1. /\ id \in BountyId /\ b \in Bounty /\ b.terms.deadline \in Nat
      /\ b.started_at \in Nat \cup {Nil} /\ b.status # "Absent" /\ now \in Nat
  BY Stored DEF Bounty, Terms
<1>2. ASSUME c.terms = b.terms, c.started_at = b.started_at
      PROVE  LaterTerms(b, c) /\ LaterStart(b, c)
  BY <1>1, <1>2 DEF LaterTerms, LaterStart
<1>3. CASE Spared(id)
  BY <1>2, <1>3 DEF Spared
<1>4. CASE Changes(id)
  <2>1. LaterTerms(b, c)
    BY <1>4, UpdateLater
  <2>2. c.started_at = b.started_at
    BY <1>1, <1>4, ChangesFacts DEF Changes, SameRun
  <2> QED BY <1>1, <2>1, <2>2 DEF LaterStart
<1>5. ASSUME NEW j \in ClaimKey, j[1] = id,
             \/ Notes(j) \/ Applies(j) \/ Finishes(j) \/ Declines(j)
             \/ Rejects(j) \/ Argues(j)
      PROVE  c.terms = b.terms /\ c.started_at = b.started_at
  <2>1. CASE \E d \in Deadlines : extend_claim_deadline(j, d)
    BY <2>1, ExtendFacts
  <2>2. CASE \/ \E place \in UsedPlaces(bounties[j[1]]) : mark_as_paid(j, place)
             \/ confirm_payment(j)
    BY <1>5, <2>2, PaymentFacts DEF SameRun
  <2>3. CASE Applies(j)
    BY <2>3, AppliesFacts
  <2>4. CASE Finishes(j)
    BY <1>5, <2>4, FinishesFacts DEF SameRun
  <2>5. CASE Declines(j) \/ Rejects(j) \/ Argues(j)
    BY <2>5 DEF Declines, Rejects, Argues
  <2> QED BY <1>5, <2>1, <2>2, <2>3, <2>4, <2>5 DEF Notes
<1>6. CASE Moves(id)
  <2>1. ~Begins(id)
    BY <1>1 DEF Begins, Status
  <2>2. c.terms = b.terms
    BY <1>1, <1>6, <2>1, MoveTerms
  <2>3. \/ c.started_at = b.started_at
        \/ b.terms.mode = "Contest" /\ c.started_at = now
    BY <1>1, <1>6, <2>1, StartMoves
  <2>4. b.terms.mode = "Contest" /\ b.started_at # Nil => b.started_at <= now
    BY <1>1 DEF Course, Work, ContestRun, HasMode, Status, Mode
  <2> QED BY <1>1, <2>2, <2>3, <2>4 DEF LaterTerms, LaterStart
<1> QED BY <1>2, <1>3, <1>4, <1>5, <1>6 DEF CalmEvents

(* No step takes time from a claimant at work: what the owner may update,  *)
(* a longer deadline and the restart of a contest by start_competition or  *)
(* by the next approval only ever move the time at which a claim expires   *)
(* to a later one.                                                         *)
THEOREM TimeNotTakenAlways == Spec => TimeNotTaken
<1>1. ASSUME Course, [Next]_vars, NEW k \in ClaimKey,
             NEW time \in 0 .. MaxTime + 1,
             claims[k].status \in {"InProgress", "Competes"},
             claims'[k].status = claims[k].status,
             StartTime(claims[k], bounties[k[1]]) # Nil,
             ~IsExpired(claims[k], bounties[k[1]], time)
      PROVE  ~IsExpired(claims'[k], bounties'[k[1]], time)
  <2>1. ClaimsStep /\ Shape' /\ k[1] \in BountyId /\ time \in Nat
    BY <1>1, Events, KeyType, BountiesAssumption
  <2>2. Spared(k[1]) \/ CalmEvents(k[1]) \/ Moves(k[1])
    BY <1>1, <2>1, EventKinds
  <2>3. PICK b : b = bounties[k[1]]
    OBVIOUS
  <2>4. PICK e : e = bounties'[k[1]]
    OBVIOUS
  <2>5. PICK c : c = claims[k]
    OBVIOUS
  <2>6. PICK d : d = claims'[k]
    OBVIOUS
  <2>7. b \in Bounty /\ e \in Bounty /\ c \in Claim /\ d \in Claim
    BY <1>1, <2>1, <2>3, <2>4, <2>5, <2>6 DEF Course, Work, Shape, TypeOK
  <2>8. LaterTerms(b, e) /\ LaterStart(b, e)
    BY <1>1, <2>2, <2>3, <2>4, WorkKeepsTime
  <2>9. /\ d.start_time = c.start_time
        /\ \/ d.deadline = c.deadline
           \/ d.deadline \in Nat /\ c.deadline \in Nat /\ d.deadline > c.deadline
    <3>1. CASE claims'[k] = claims[k]
      BY <2>5, <2>6, <3>1
    <3>2. CASE \E x \in Deadlines : extend_claim_deadline(k, x)
      BY <1>1, <2>5, <2>6, <3>2, ExtendFacts
    <3> QED BY <1>1, <2>2, <3>1, <3>2, AtWork
  <2> QED BY <1>1, <2>1, <2>3, <2>4, <2>5, <2>6, <2>7, <2>8, <2>9, LaterExpires
<1>2. Course /\ [Next]_vars =>
        [\A k \in ClaimKey, time \in 0 .. MaxTime + 1 :
           /\ claims[k].status \in {"InProgress", "Competes"}
           /\ claims'[k].status = claims[k].status
           /\ StartTime(claims[k], bounties[k[1]]) # Nil
           /\ ~IsExpired(claims[k], bounties[k[1]], time)
           => ~IsExpired(claims'[k], bounties'[k[1]], time)]_vars
  BY <1>1
<1> QED BY <1>2, AlwaysCourse, PTL DEF Spec, TimeNotTaken

----------------------------------------------------------------------------
(* The bonds.                                                              *)

(* The claims that are not over, and the bonds they came with.             *)
OpenClaims == {k \in ClaimKey : claims[k].status \notin Over}
BondOf == [k \in ClaimKey |-> claims[k].bond]

(* The locked bonds are counted: what BondsLocked says, with the sum       *)
(* written so that one claim can be taken out of it or added to it.        *)
BondsCounted ==
  /\ IsFiniteSet(OpenClaims)
  /\ bonds.locked_amount = Total(BondOf, OpenClaims)

(* A claim that is open before and after a step, with the same bond, or    *)
(* not at all.                                                             *)
BondStays(k) ==
  /\ claims'[k].status \in Over <=> claims[k].status \in Over
  /\ claims'[k].bond = claims[k].bond

(* The sum of the model is the sum of this proof.                          *)
LEMMA LockedTotal ==
  ASSUME IsFiniteSet(OpenClaims)
  PROVE  MapThenSumSet(LAMBDA k : claims[k].bond,
                       {k \in ClaimKey : claims[k].status \notin Over})
           = Total(BondOf, OpenClaims)
<1> DEFINE Sums(g) == g = [T \in SUBSET OpenClaims |->
                             IF T = {} THEN 0
                             ELSE claims[Pick(T)].bond + g[T \ {Pick(T)}]]
           f == CHOOSE g : Sums(g)
<1>1. MapThenSumSet(LAMBDA k : claims[k].bond, OpenClaims) = f[OpenClaims]
  BY Zenon DEF MapThenSumSet, MapThenFoldSet, Pick
<1>2. ASSUME NEW g
      PROVE  Sums(g) <=> Summed(BondOf, g, OpenClaims)
  <2>1. ASSUME NEW T \in SUBSET OpenClaims, T # {}
        PROVE  BondOf[Pick(T)] = claims[Pick(T)].bond
    BY <2>1, PickIn DEF BondOf, OpenClaims
  <2>2. [T \in SUBSET OpenClaims |->
           IF T = {} THEN 0 ELSE claims[Pick(T)].bond + g[T \ {Pick(T)}]]
        = [T \in SUBSET OpenClaims |->
             IF T = {} THEN 0 ELSE BondOf[Pick(T)] + g[T \ {Pick(T)}]]
    BY <2>1
  <2> QED BY <2>2 DEF Summed
<1>3. \E g : Sums(g)
  BY <1>2, SummedExists
<1>4. Summed(BondOf, f, OpenClaims)
  <2>1. Sums(f)
    BY <1>3
  <2> QED BY <1>2, <2>1
<1> HIDE DEF f
<1>5. PICK h : /\ Summed(BondOf, h, OpenClaims)
               /\ \A T \in SUBSET OpenClaims : Total(BondOf, T) = h[T]
  BY TotalSummed
<1>6. f[OpenClaims] = h[OpenClaims]
  BY <1>4, <1>5, SummedOnce
<1> QED BY <1>1, <1>5, <1>6 DEF OpenClaims

(* A claim that is stored again as it was keeps its bond.                  *)
LEMMA RestBonds ==
  ASSUME NEW k \in ClaimKey, claims'[k] = claims[k]
  PROVE  BondStays(k)
BY DEF BondStays

(* A closed claim keeps its bond, locked or not.                           *)
LEMMA ClosesBonds ==
  ASSUME Course, NEW k \in ClaimKey, NEW s, Closes(k, s)
  PROVE  /\ claims'[k].status = s /\ claims'[k].bond = claims[k].bond
         /\ \A j \in ClaimKey : j # k => BondStays(j)
<1>1. claims \in [ClaimKey -> Claim] /\ claims[k] \in Claim
  BY Stored
<1>2. claims' = [claims EXCEPT ![k] = [claims[k] EXCEPT !.status = s]]
  BY Zenon DEF Closes
<1>3. /\ claims'[k] = [claims[k] EXCEPT !.status = s]
      /\ \A j \in ClaimKey : j # k => claims'[j] = claims[j]
  BY <1>1, <1>2
<1>4. claims'[k].status = s /\ claims'[k].bond = claims[k].bond
  BY <1>1, <1>3, Zenon DEF Claim
<1> QED BY <1>3, <1>4, RestBonds

(* Work, its payment and its disputes do not touch the bonds.              *)
LEMMA WorkKeepsBonds ==
  ASSUME Course, NEW k \in ClaimKey,
         Notes(k) \/ Finishes(k) \/ Rejects(k) \/ Argues(k)
  PROVE  \A j \in ClaimKey : BondStays(j)
<1>1. claims \in [ClaimKey -> Claim] /\ claims[k] \in Claim
  BY Stored
<1>2. CASE Notes(k)
  <2>1. \/ UNCHANGED claims
        \/ \E d : claims' = [claims EXCEPT ![k] =
                               [claims[k] EXCEPT !.deadline = d]]
        \/ claims' = [claims EXCEPT ![k] =
                        [claims[k] EXCEPT !.payment_at = TRUE]]
        \/ claims' = [claims EXCEPT ![k] =
                        [claims[k] EXCEPT !.payment_confirmed_at = TRUE]]
    BY <1>2, Zenon
       DEF Notes, extend_claim_deadline, mark_as_paid, confirm_payment
  <2> QED BY <1>1, <2>1 DEF BondStays, Claim
<1>3. CASE Finishes(k)
  <2>1. PICK p : claims' = [claims EXCEPT ![k] =
                   [claims[k] EXCEPT !.status = "Completed",
                                     !.payout_proposal = p]]
    BY <1>3, Zenon DEF Finishes, ClaimDone
  <2>2. claims[k].status \in {"InProgress", "Competes"}
    BY <1>3 DEF Finishes, ClaimDone
  <2> QED BY <1>1, <2>1, <2>2 DEF BondStays, Claim, Over
<1>4. CASE Rejects(k)
  <2>1. claims' = [claims EXCEPT ![k] =
          [claims[k] EXCEPT !.status = "Rejected", !.rejected_at = now]]
    BY <1>4, Zenon DEF Rejects
  <2>2. claims[k].status = "Completed"
    BY <1>4 DEF Rejects
  <2> QED BY <1>1, <2>1, <2>2 DEF BondStays, Claim, Over
<1>5. CASE Argues(k)
  <2>1. PICK s \in {"Disputed", "CompletedWithDispute"} :
          Closes(k, s) /\ claims[k].status \in {"Rejected", "Disputed"}
    BY <1>5 DEF Argues
  <2> QED BY <2>1, ClosesBonds DEF BondStays, Over
<1> QED BY <1>2, <1>3, <1>4, <1>5

(* A claim that ends was not over.                                         *)
LEMMA EndFreesBond ==
  ASSUME Course, NEW k \in ClaimKey,
         Declines(k) \/ Leaves(k) \/ Resets(k) \/ Pays(k) \/ Withdraws(k)
  PROVE  /\ claims[k].status \notin Over /\ claims'[k].status \in Over
         /\ claims'[k].bond = claims[k].bond
         /\ \A j \in ClaimKey : j # k => BondStays(j)
<1>1. PICK s \in Over : Closes(k, s) /\ claims[k].status \notin Over
  BY DEF Declines, Leaves, Resets, Pays, Withdraws, Over
<1> QED BY <1>1, ClosesBonds

(* A claim that has to be approved comes with its bond.                    *)
LEMMA ApplyLocksBond ==
  ASSUME Course, NEW k \in ClaimKey, Applies(k)
  PROVE  /\ claims[k].status \in Over /\ claims'[k].status \notin Over
         /\ LocksBond(claims'[k].bond)
         /\ \A j \in ClaimKey : j # k => BondStays(j)
<1>1. claims \in [ClaimKey -> Claim]
  BY Stored
<1>2. PICK c \in Claim : /\ c.status = "New" /\ Fresh(k, c.slot)
                         /\ claims' = [claims EXCEPT ![k] = c]
                         /\ LocksBond(c.bond)
  BY DEF Applies
<1>3. claims'[k] = c /\ \A j \in ClaimKey : j # k => claims'[j] = claims[j]
  BY <1>1, <1>2
<1> QED BY <1>2, <1>3, FreshOver, RestBonds DEF Over

(* A claim that is approved, when it is made or later, keeps the bond it   *)
(* came with, and so do the claims it releases.                            *)
LEMMA AdmitBonds ==
  ASSUME Course, NEW k \in ClaimKey, Admits(k)
  PROVE  /\ claims'[k].status \notin Over
         /\ \/ BondStays(k) /\ KeepsBonds
            \/ claims[k].status \in Over /\ LocksBond(claims'[k].bond)
         /\ \A j \in ClaimKey : j # k => BondStays(j)
<1>1. PICK c \in Claim, delayed \in Deferments \cup {Nil} :
         /\ c.status = "New"
         /\ ApproveClaimant(k, c, delayed)
         /\ \/ c = claims[k] /\ KeepsBonds
            \/ Fresh(k, c.slot) /\ LocksBond(c.bond)
  BY DEF Admits
<1> DEFINE b == bounties[k[1]]
           released == Released(b, k, c.slot)
<1>2. /\ claims'[k] = Approving(b, k, c, delayed)
      /\ claims'[k].status = AdmittedStatus(b, k, c.slot)
      /\ \A j \in ClaimKey :
           j # k /\ j \notin released => claims'[j] = claims[j]
      /\ \A j \in released :
           /\ claims'[j] = [claims[j] EXCEPT !.status = ApprovedStatus(b),
                                             !.start_time = now]
           /\ claims[j].status = "ReadyToStart"
  <2>1. claims'[k] = Approving(b, k, c, delayed)
    BY <1>1, Zenon DEF ApproveClaimant, Approving
  <2>2. claims'[k].status = AdmittedStatus(b, k, c.slot)
    BY <1>1, ApproveOwn
  <2>3. \A j \in ClaimKey :
          j # k /\ j \notin released => claims'[j] = claims[j]
    BY <1>1, ApproveStores
  <2>4. ASSUME NEW j \in released
        PROVE  claims'[j] = [claims[j] EXCEPT !.status = ApprovedStatus(b),
                                              !.start_time = now]
    BY <1>1, ApproveStores
  <2>5. \A j \in released : claims[j].status = "ReadyToStart"
    BY ReleasedFacts
  <2> HIDE DEF b, released
  <2> QED BY <2>1, <2>2, <2>3, <2>4, <2>5, Zenon
<1> HIDE DEF b, released
<1>3. claims'[k].status \notin Over
  <2>1. \/ claims'[k].status = "ReadyToStart"
        \/ claims'[k].status = ApprovedStatus(b)
    BY <1>2, Zenon DEF AdmittedStatus
  <2> QED BY <2>1 DEF ApprovedStatus, Over
<1>4. claims'[k].bond = c.bond
  <2>1. PICK d : d = ClaimOnApproval(b, k, c)
    OBVIOUS
  <2>2. PICK a : a = [d EXCEPT !.kyc_delayed = delayed]
    OBVIOUS
  <2>3. \/ d = [c EXCEPT !.status = "ReadyToStart"]
        \/ \E s, f : d = [c EXCEPT !.status = s, !.start_time = f]
    BY <2>1, Zenon DEF ClaimOnApproval
  <2>4. ASSUME d = [c EXCEPT !.status = "ReadyToStart"]
        PROVE  a.bond = c.bond
    BY <2>2, <2>4, Zenon DEF Claim
  <2>5. ASSUME NEW s, NEW f, d = [c EXCEPT !.status = s, !.start_time = f]
        PROVE  a.bond = c.bond
    BY <2>2, <2>5, Zenon DEF Claim
  <2>6. a.bond = c.bond
    BY <2>2, <2>3, <2>4, <2>5, Zenon DEF Claim
  <2> QED BY <1>2, <2>1, <2>2, <2>6, Zenon DEF Approving
<1>5. ASSUME NEW j \in ClaimKey, j # k
      PROVE  BondStays(j)
  <2>1. CASE j \in released
    <3>1. claims'[j] = [claims[j] EXCEPT !.status = ApprovedStatus(b),
                                         !.start_time = now]
      BY <1>2, <2>1, Zenon
    <3>2. /\ claims'[j].status = ApprovedStatus(b)
          /\ claims'[j].bond = claims[j].bond
      BY <3>1, Stored, Zenon DEF Claim
    <3>3. claims[j].status = "ReadyToStart"
      BY <1>2, <2>1, Zenon
    <3> QED BY <3>2, <3>3 DEF BondStays, ApprovedStatus, Over
  <2>2. CASE j \notin released
    <3>1. claims'[j] = claims[j]
      BY <1>2, <1>5, <2>2, Zenon
    <3> QED BY <3>1, RestBonds
  <2> QED BY <2>1, <2>2
<1>6. c = claims[k] => BondStays(k)
  BY <1>1, <1>3, <1>4 DEF BondStays, Over
<1> QED BY <1>1, <1>3, <1>4, <1>5, <1>6, FreshOver

(* The sum stays when no claim and no bond of an open claim changes.       *)
LEMMA CountedSame ==
  ASSUME BondsCounted, \A k \in ClaimKey : BondStays(k), KeepsBonds
  PROVE  BondsCounted'
<1>1. OpenClaims' = OpenClaims
  BY DEF OpenClaims, BondStays
<1>2. \A k \in OpenClaims : BondOf[k] = BondOf'[k]
  BY DEF OpenClaims, BondOf, BondStays
<1>3. Total(BondOf, OpenClaims) = Total(BondOf', OpenClaims)
  BY <1>2, TotalSame DEF BondsCounted
<1> QED BY <1>1, <1>3 DEF BondsCounted, KeepsBonds

(* It grows by the bond of a claim that is opened.                         *)
LEMMA CountedMore ==
  ASSUME Shape', BondsCounted, NEW k \in ClaimKey,
         claims[k].status \in Over, claims'[k].status \notin Over,
         LocksBond(claims'[k].bond),
         \A j \in ClaimKey : j # k => BondStays(j)
  PROVE  BondsCounted'
<1>1. /\ k \in OpenClaims' /\ k \notin OpenClaims
      /\ OpenClaims' \ {k} = OpenClaims
      /\ OpenClaims' = OpenClaims \cup {k}
  BY DEF OpenClaims, BondStays
<1>2. IsFiniteSet(OpenClaims')
  BY <1>1, FS_AddElement DEF BondsCounted
<1>3. Counts(BondOf', OpenClaims')
  BY DEF Counts, BondOf, OpenClaims, Shape, TypeOK, Claim
<1>4. Total(BondOf', OpenClaims') = BondOf'[k] + Total(BondOf', OpenClaims)
  BY <1>1, <1>2, <1>3, TotalWithout
<1>5. \A j \in OpenClaims : BondOf[j] = BondOf'[j]
  BY <1>1 DEF OpenClaims, BondOf, BondStays
<1>6. Total(BondOf, OpenClaims) = Total(BondOf', OpenClaims)
  BY <1>5, TotalSame DEF BondsCounted
<1>7. Counts(BondOf', OpenClaims)
  BY <1>1, <1>3 DEF Counts
<1>8. Total(BondOf', OpenClaims) \in Int /\ BondOf'[k] \in Int
  BY <1>1, <1>3, <1>7, TotalType DEF BondsCounted, Counts
<1>9. BondOf'[k] = claims'[k].bond
  BY DEF BondOf
<1>10. bonds'.locked_amount = Total(BondOf, OpenClaims) + claims'[k].bond
  BY DEF LocksBond, BondsCounted
<1>11. bonds'.locked_amount = Total(BondOf', OpenClaims')
  BY <1>4, <1>6, <1>8, <1>9, <1>10
<1> QED BY <1>2, <1>11 DEF BondsCounted

(* It falls by the bond of a claim that ends.                              *)
LEMMA CountedLess ==
  ASSUME Course, BondsCounted, NEW k \in ClaimKey,
         claims[k].status \notin Over, claims'[k].status \in Over,
         FreesBond(k),
         \A j \in ClaimKey : j # k => BondStays(j)
  PROVE  BondsCounted'
<1>1. k \in OpenClaims /\ OpenClaims' = OpenClaims \ {k}
  BY DEF OpenClaims, BondStays
<1>2. IsFiniteSet(OpenClaims')
  BY <1>1, FS_RemoveElement DEF BondsCounted
<1>3. Counts(BondOf, OpenClaims)
  BY DEF Counts, BondOf, OpenClaims, Course, Work, Shape, TypeOK, Claim
<1>4. Total(BondOf, OpenClaims) = BondOf[k] + Total(BondOf, OpenClaims')
  BY <1>1, <1>3, TotalWithout DEF BondsCounted
<1>5. \A j \in OpenClaims' : BondOf[j] = BondOf'[j]
  BY <1>1 DEF OpenClaims, BondOf, BondStays
<1>6. Total(BondOf, OpenClaims') = Total(BondOf', OpenClaims')
  BY <1>2, <1>5, TotalSame
<1>7. Counts(BondOf, OpenClaims')
  BY <1>1, <1>3 DEF Counts
<1>8. Total(BondOf, OpenClaims') \in Int /\ BondOf[k] \in Int
  BY <1>1, <1>2, <1>3, <1>7, TotalType DEF Counts
<1>9. BondOf[k] = claims[k].bond
  BY DEF BondOf
<1>10. bonds'.locked_amount = Total(BondOf, OpenClaims) - claims[k].bond
  BY DEF FreesBond, BondsCounted
<1>11. bonds'.locked_amount = Total(BondOf', OpenClaims')
  BY <1>4, <1>6, <1>8, <1>9, <1>10
<1> QED BY <1>2, <1>11 DEF BondsCounted

(* Every step keeps the count.                                             *)
LEMMA NextCounted == Course /\ BondsCounted /\ [Next]_vars => BondsCounted'
<1> SUFFICES ASSUME Course, BondsCounted, [Next]_vars
             PROVE  BondsCounted'
  OBVIOUS
<1>1. ClaimsStep /\ Shape'
  BY Events
<1>2. CASE UNCHANGED claims /\ KeepsBonds
  BY <1>2, CountedSame, RestBonds
<1>3. ASSUME NEW id \in BountyId, BountyEvent(id), KeepsBonds
      PROVE  BondsCounted'
  <2>1. UNCHANGED claims
    BY <1>3 DEF BountyEvent, Begins, Changes, bounty_update,
       start_competition, Cancels, Accepts
  <2> QED BY <1>2, <1>3, <2>1
<1>4. ASSUME NEW k \in ClaimKey, Applies(k)
      PROVE  BondsCounted'
  BY <1>1, <1>4, ApplyLocksBond, CountedMore
<1>5. ASSUME NEW k \in ClaimKey, Admits(k)
      PROVE  BondsCounted'
  <2>1. CASE BondStays(k) /\ KeepsBonds
    <3>1. \A j \in ClaimKey : BondStays(j)
      BY <1>5, <2>1, AdmitBonds
    <3> QED BY <2>1, <3>1, CountedSame
  <2>2. CASE claims[k].status \in Over /\ LocksBond(claims'[k].bond)
    BY <1>1, <1>5, <2>2, AdmitBonds, CountedMore
  <2> QED BY <1>5, <2>1, <2>2, AdmitBonds
<1>6. ASSUME NEW k \in ClaimKey, KeepsBonds,
             Notes(k) \/ Finishes(k) \/ Rejects(k) \/ Argues(k)
      PROVE  BondsCounted'
  BY <1>6, WorkKeepsBonds, CountedSame
<1>7. ASSUME NEW k \in ClaimKey, FreesBond(k),
             \/ Declines(k) \/ Leaves(k) \/ Resets(k) \/ Pays(k)
             \/ Withdraws(k)
      PROVE  BondsCounted'
  BY <1>7, EndFreesBond, CountedLess
<1> QED BY <1>1, <1>2, <1>3, <1>4, <1>5, <1>6, <1>7, Zenon
        DEF ClaimsStep, ClaimEvent, PlainEvent

LEMMA InitCounted == Init => BondsCounted
<1> SUFFICES ASSUME Init
             PROVE  BondsCounted
  OBVIOUS
<1>1. OpenClaims = {}
  BY DEF Init, OpenClaims, NoClaim, Over
<1>2. IsFiniteSet({}) /\ Total(BondOf, {}) = 0
  BY FS_EmptySet, TotalStep
<1> QED BY <1>1, <1>2 DEF Init, BondsCounted

(* The bonds that are locked are those of the claims that are not over,    *)
(* whatever ways the claims end: every bond is returned or withheld once,  *)
(* and none is locked for a claim that was not made.                       *)
THEOREM BondsLockedAlways == Spec => []BondsLocked
<1>1. Course /\ BondsCounted => BondsLocked
  BY LockedTotal DEF BondsCounted, BondsLocked
<1> QED BY <1>1, InitCounted, NextCounted, AlwaysCourse, PTL DEF Spec

----------------------------------------------------------------------------
(* The NEAR behind the bonds.  A claim that waits for a KYC answer or for  *)
(* the DAO has left its NEAR but locks no bond yet: what the contract      *)
(* holds, or has out with proposals, beyond its debts covers a bond, at    *)
(* the price of the moment, for each promise that will lock one.           *)

Slack ==
  bonds.near + bonds.proposals - bonds.locked_amount - bonds.unlocked_amount

(* The promise whose callback makes the claim.                             *)
Bonded(c) ==
  \/ c.kind = "addClaimantProposal"
  \/ c.kind = "kyc" /\ c.place = "CreatingClaim"

BondCalls(q) == {j \in 1 .. Len(q) : Bonded(q[j])}

Backed == Slack >= config.bond * Cardinality(BondCalls(calls))

(* The administrators do not raise the price of a bond while a claim is on *)
(* its way.                                                                *)
NotRaised == BondCalls(calls) # {} => config'.bond <= config.bond

(* What a step does, q being the promises that it leaves: it makes no      *)
(* claim and sends no promise to, or it makes one, or sends the promise    *)
(* to, with the NEAR that comes with it.                                   *)
SlackKept == Slack' = Slack

Plainly(q) == calls' = q \/ \E c : ~Bonded(c) /\ calls' = Append(q, c)

Settles(q) == SlackKept /\ Plainly(q)

Carries(q, attached) ==
  \/ Slack' = Slack + attached /\ \E c : calls' = Append(q, c)
  \/ Slack' = Slack + attached - config.bond /\ calls' = q

LEMMA BondTypes ==
  ASSUME Course
  PROVE  /\ bonds \in BondAccounts
         /\ bonds.locked_amount \in Int /\ bonds.unlocked_amount \in Int
         /\ bonds.near \in Int /\ bonds.proposals \in Nat /\ Slack \in Int
         /\ config \in Config /\ config.bond \in Nat
         /\ calls \in Seq(Calls)
         /\ \A k \in ClaimKey : claims[k].bond \in Nat
<1>1. /\ bonds \in BondAccounts
      /\ config \in Config /\ calls \in Seq(Calls)
      /\ claims \in [ClaimKey -> Claim]
  BY DEF Course, Work, Shape, TypeOK
<1>2. \A k \in ClaimKey : claims[k].bond \in Nat
  BY <1>1 DEF Claim
<1>3. /\ bonds.locked_amount \in Int /\ bonds.unlocked_amount \in Int
      /\ bonds.near \in Int /\ bonds.proposals \in Nat
  BY <1>1 DEF BondAccounts
<1>4. config.bond \in Nat
  BY <1>1 DEF Config
<1> QED BY <1>1, <1>2, <1>3, <1>4 DEF Slack

LEMMA SlackStays ==
  ASSUME UNCHANGED bonds
  PROVE  SlackKept
BY DEF SlackKept, Slack

(* A bond that is returned leaves with its NEAR, one that is withheld is   *)
(* owed to the administrator instead.                                      *)
LEMMA CloseSlack ==
  ASSUME Course, NEW k \in ClaimKey, NEW s, NEW returned,
         CloseClaim(k, s, returned)
  PROVE  SlackKept
<1> PICK bond, kept, back :
      /\ bond = claims[k].bond
      /\ kept = (IF returned THEN 0 ELSE bond)
      /\ back = (IF returned THEN bond ELSE 0)
  OBVIOUS
<1>1. bond \in Nat /\ kept \in Nat /\ back \in Nat /\ bond = kept + back
  BY BondTypes
<1>2. bonds' = [bonds EXCEPT
         !.locked_amount = bonds.locked_amount - bond,
         !.unlocked_amount = bonds.unlocked_amount + kept,
         !.near = bonds.near - back]
  BY Zenon DEF CloseClaim, BondSettled
<1>3. /\ bonds'.locked_amount = bonds.locked_amount - bond
      /\ bonds'.unlocked_amount = bonds.unlocked_amount + kept
      /\ bonds'.near = bonds.near - back
      /\ bonds'.proposals = bonds.proposals
  BY <1>2, BondTypes DEF BondAccounts
<1>4. PICK l \in Int, u \in Int, n \in Int, m \in Nat :
        /\ l = bonds.locked_amount /\ u = bonds.unlocked_amount
        /\ n = bonds.near /\ m = bonds.proposals
  BY BondTypes
<1>5. (n - back) + m - (l - bond) - (u + kept) = n + m - l - u
  BY <1>1, <1>4
<1> QED BY <1>3, <1>4, <1>5 DEF SlackKept, Slack

LEMMA ResetSlack ==
  ASSUME Course, NEW k \in ClaimKey, NEW s, NEW returned,
         ResetBounty(k, s, returned)
  PROVE  SlackKept
BY CloseSlack DEF ResetBounty

LEMMA RejectSlack ==
  ASSUME Course, NEW k \in ClaimKey, RejectClaim(k)
  PROVE  SlackKept
<1>1. CASE UNCHANGED bonds
  BY <1>1, SlackStays
<1>2. CASE ResetBounty(k, "NotCompleted", TRUE)
  BY <1>2, ResetSlack
<1> QED BY <1>1, <1>2 DEF RejectClaim

LEMMA CompleteSlack ==
  ASSUME Course, NEW id, NEW k \in ClaimKey \cup {Nil}, NEW amounts,
         NEW place, Complete(id, k, amounts, place)
  PROVE  SlackKept
<1>1. CASE k = Nil
  BY <1>1, SlackStays DEF Complete
<1>2. CASE k # Nil
  BY <1>2, CloseSlack DEF Complete
<1> QED BY <1>1, <1>2

LEMMA PayoutSettles ==
  ASSUME Course, NEW q, NEW id, NEW k \in ClaimKey \cup {Nil}, NEW place,
         Payout(q, id, k, place)
  PROVE  Settles(q)
<1> PICK amounts : amounts = AmountsForPayment(bounties[id], place)
  OBVIOUS
<1>1. \/ Complete(id, k, amounts, place) /\ calls' = q
      \/ \E c : c.kind = "payout" /\ calls' = Append(q, c) /\ UNCHANGED bonds
  BY DEF Payout, Send
<1> QED BY <1>1, CompleteSlack, SlackStays DEF Settles, Plainly, Bonded

LEMMA DisputeSettles ==
  ASSUME Course, NEW q, NEW k \in ClaimKey, NEW success,
         SettleDispute(q, k, success)
  PROVE  Settles(q)
<1>1. CASE ResetBounty(k, "NotCompleted", TRUE) /\ calls' = q
  BY <1>1, ResetSlack DEF Settles, Plainly
<1>2. CASE ReturnedAfterDispute(k) /\ calls' = q
  BY <1>2, SlackStays DEF ReturnedAfterDispute, Settles, Plainly
<1>3. CASE Payout(q, k[1], k, Nil)
  BY <1>3, PayoutSettles
<1> QED BY <1>1, <1>2, <1>3, Zenon DEF SettleDispute

LEMMA CreateSlack ==
  ASSUME Course, NEW k, NEW deadline, NEW slot, NEW proposal,
         NEW attached \in Nat,
         CreateClaim(k, deadline, slot, proposal, attached)
  PROVE  Slack' = Slack + attached - config.bond
<1>1. bonds' = [bonds EXCEPT
         !.locked_amount = bonds.locked_amount + config.bond,
         !.near = bonds.near + attached]
  BY Zenon DEF CreateClaim
<1>2. /\ bonds'.locked_amount = bonds.locked_amount + config.bond
      /\ bonds'.unlocked_amount = bonds.unlocked_amount
      /\ bonds'.near = bonds.near + attached
      /\ bonds'.proposals = bonds.proposals
  BY <1>1, BondTypes DEF BondAccounts
<1>3. /\ bonds.near \in Int /\ bonds.proposals \in Int
      /\ bonds.locked_amount \in Int /\ bonds.unlocked_amount \in Int
      /\ config.bond \in Int
  BY BondTypes
<1> QED BY <1>2, <1>3 DEF Slack

LEMMA NearSlack ==
  ASSUME Course, NEW attached \in Nat,
         bonds' = [bonds EXCEPT !.near = bonds.near + attached]
  PROVE  Slack' = Slack + attached
BY BondTypes DEF Slack, BondAccounts

(* What a proposal takes is out, and what comes back of it is not.         *)
LEMMA ProposalSlack ==
  ASSUME Course, NEW attached \in Nat, NEW cost \in Int,
         bonds' = [bonds EXCEPT !.near = bonds.near + attached - cost,
                                !.proposals = bonds.proposals + cost]
  PROVE  Slack' = Slack + attached
<1>1. /\ bonds'.locked_amount = bonds.locked_amount
      /\ bonds'.unlocked_amount = bonds.unlocked_amount
      /\ bonds'.near = bonds.near + attached - cost
      /\ bonds'.proposals = bonds.proposals + cost
  BY BondTypes DEF BondAccounts
<1>2. /\ bonds.near \in Int /\ bonds.proposals \in Int
      /\ bonds.locked_amount \in Int /\ bonds.unlocked_amount \in Int
  BY BondTypes
<1> QED BY <1>1, <1>2 DEF Slack

LEMMA CostType ==
  ASSUME Course, NEW id \in BountyId
  PROVE  bounties[id].terms.proposal_bond \in Nat
BY DEF Course, Work, Shape, TypeOK, Bounty, Terms

LEMMA ProposeSlack ==
  ASSUME Course, NEW q, NEW call, NEW k \in ClaimKey, call.claim = k,
         NEW attached \in Nat, Propose(q, call, attached)
  PROVE  Slack' = Slack + attached
<1> DEFINE cost == bounties[call.claim[1]].terms.proposal_bond
<1>1. cost \in Nat
  <2>1. k[1] \in BountyId
    BY KeyType
  <2> QED BY <2>1, CostType
<1>2. bonds' = [bonds EXCEPT !.near = bonds.near + attached - cost,
                             !.proposals = bonds.proposals + cost]
  BY Zenon DEF Propose
<1> HIDE DEF cost
<1>3. cost \in Int
  BY <1>1
<1> QED BY <1>2, <1>3, ProposalSlack

LEMMA ProposeCarries ==
  ASSUME Course, NEW q, NEW k \in ClaimKey, NEW deadline, NEW slot,
         NEW attached \in Nat,
         ProposeOrCreateClaim(q, k, deadline, slot, attached)
  PROVE  Carries(q, attached)
<1> PICK call : call = [kind |-> "addClaimantProposal", claim |-> k,
                        deadline |-> deadline, slot |-> slot]
  OBVIOUS
<1>1. \/ CreateClaim(k, deadline, slot, FALSE, attached) /\ calls' = q
      \/ Propose(q, call, attached)
  BY Zenon DEF ProposeOrCreateClaim
<1>2. CASE CreateClaim(k, deadline, slot, FALSE, attached) /\ calls' = q
  BY <1>2, CreateSlack DEF Carries
<1>3. CASE Propose(q, call, attached)
  <2>1. calls' = Append(q, call)
    BY <1>3, Zenon DEF Propose, Send
  <2>2. call.claim = k
    OBVIOUS
  <2>3. Slack' = Slack + attached
    BY <1>3, <2>2, ProposeSlack
  <2> QED BY <2>1, <2>3 DEF Carries
<1> QED BY <1>1, <1>2, <1>3

LEMMA FinishSettles ==
  ASSUME Course, NEW q, NEW k \in ClaimKey, ProposeOrFinish(q, k)
  PROVE  Settles(q)
<1> PICK c : c = [kind |-> "addPayoutProposal", claim |-> k]
  OBVIOUS
<1>1. ~Bonded(c) /\ c.claim = k
  BY DEF Bonded
<1>2. \/ calls' = q /\ UNCHANGED bonds
      \/ Propose(q, c, 0)
  BY Zenon DEF ProposeOrFinish
<1>3. CASE Propose(q, c, 0)
  <2>1. calls' = Append(q, c)
    BY <1>3, Zenon DEF Propose, Send
  <2>2. Slack' = Slack + 0
    BY <1>1, <1>3, ProposeSlack
  <2> QED BY <1>1, <2>1, <2>2, BondTypes DEF Settles, SlackKept, Plainly
<1> QED BY <1>2, <1>3, SlackStays DEF Settles, Plainly
(* What each operation does to the bonds.  A claim may lock one, ...       *)
LEMMA BountyCallBacks ==
  ASSUME Course, NEW id \in BountyId, OnBounty(id)
  PROVE  /\ UNCHANGED config
         /\ Settles(calls) \/ Carries(calls, config.bond)
<1>1. ASSUME NEW t \in Offers, ft_on_transfer(id, t) \/ bounty_create(id, t)
      PROVE  UNCHANGED <<config, bonds, calls>>
  BY <1>1, Zenon DEF ft_on_transfer, bounty_create, AddBounty
<1>2. ASSUME NEW u \in Updates, bounty_update(id, u)
      PROVE  UNCHANGED <<config, bonds, calls>>
  BY <1>2, Zenon DEF bounty_update
<1>3. CASE start_competition(id)
  BY <1>3, SlackStays DEF start_competition, Settles, Plainly
<1>4. CASE bounty_cancel(id)
  <2>1. UNCHANGED config /\ UNCHANGED bonds
    BY <1>4 DEF bounty_cancel
  <2>2. Plainly(calls)
    <3>1. \/ calls' = calls
          \/ \E c : c.kind = "refund" /\ calls' = Append(calls, c)
      BY <1>4 DEF bounty_cancel, Send
    <3> QED BY <3>1 DEF Plainly, Bonded
  <2> QED BY <2>1, <2>2, SlackStays DEF Settles
<1>5. CASE bounty_finalize_all(id)
  <2>1. UNCHANGED config /\ UNCHANGED bonds
    BY <1>5 DEF bounty_finalize_all, AskPayoutProposal
  <2>2. \E c : c.kind = "checkPayoutProposal" /\ calls' = Append(calls, c)
    BY <1>5 DEF bounty_finalize_all, AskPayoutProposal, Send
  <2> QED BY <2>1, <2>2, SlackStays DEF Settles, Plainly, Bonded
<1>6. ASSUME NEW who, NEW deadline, NEW slot,
             bounty_claim(who, id, deadline, slot)
      PROVE  UNCHANGED config /\ Carries(calls, config.bond)
  <2>1. UNCHANGED config
    BY <1>6 DEF bounty_claim
  <2>2. \/ /\ bonds' = [bonds EXCEPT !.near = bonds.near + config.bond]
           /\ \E c : calls' = Append(calls, c)
        \/ ProposeOrCreateClaim(calls, NextKey(id, who), deadline, slot,
                                config.bond)
    BY <1>6, Zenon DEF bounty_claim, Send
  <2>3. NextKey(id, who) \in ClaimKey
    BY <1>6 DEF bounty_claim, MayCreateClaim
  <2> QED BY <2>1, <2>2, <2>3, BondTypes, NearSlack, ProposeCarries DEF Carries
<1>7. ASSUME NEW sender, bounty_approve_of_several(sender, id)
      PROVE  UNCHANGED config /\ Settles(calls)
  BY <1>7, PayoutSettles DEF bounty_approve_of_several
<1>8. UNCHANGED <<config, bonds, calls>> => UNCHANGED config /\ Settles(calls)
  BY SlackStays DEF Settles, Plainly
<1>9. CASE \E t \in Offers : ft_on_transfer(id, t) \/ bounty_create(id, t)
  BY <1>1, <1>8, <1>9
<1>10. CASE \E u \in Updates : bounty_update(id, u)
  BY <1>2, <1>8, <1>10
<1>11. CASE start_competition(id) \/ bounty_cancel(id) \/ bounty_finalize_all(id)
  <2>1. start_competition(id) => UNCHANGED config
    BY DEF start_competition
  <2>2. bounty_cancel(id) => UNCHANGED config
    BY DEF bounty_cancel
  <2>3. bounty_finalize_all(id) => UNCHANGED config
    BY DEF bounty_finalize_all
  <2> QED BY <1>3, <1>4, <1>5, <1>11, <2>1, <2>2, <2>3
<1>12. CASE return_proposal_bond(id)
  <2> PICK cost : cost = bounties[id].terms.proposal_bond
    OBVIOUS
  <2>1. cost \in Nat /\ -cost \in Int
    BY CostType
  <2>2. /\ UNCHANGED config /\ UNCHANGED calls
        /\ bonds' = [bonds EXCEPT !.near = bonds.near + cost,
                                  !.proposals = bonds.proposals - cost]
    BY <1>12, Zenon DEF return_proposal_bond
  <2>3. /\ bonds.near + cost = bonds.near + 0 - (-cost)
        /\ bonds.proposals - cost = bonds.proposals + (-cost)
    BY <2>1, BondTypes
  <2>4. Slack' = Slack + 0
    BY <2>1, <2>2, <2>3, ProposalSlack
  <2> QED BY <2>2, <2>4, BondTypes DEF Settles, SlackKept, Plainly
<1> QED BY <1>6, <1>7, <1>9, <1>10, <1>11, <1>12, Zenon DEF OnBounty

(* ... the calls about a claim lock none, ...                              *)
LEMMA ClaimCallBacks ==
  ASSUME Course, NEW k \in ClaimKey, OnClaim(k)
  PROVE  UNCHANGED config /\ Settles(calls)
<1> DEFINE Sent(kinds) == \E c : c.kind \in kinds /\ calls' = Append(calls, c)
           Harmless == {"withdraw", "createDispute", "getDispute",
                        "checkClaimantProposal", "checkPayoutProposal"}
<1>1. UNCHANGED bonds /\ (UNCHANGED calls \/ Sent(Harmless)) => Settles(calls)
  BY SlackStays DEF Settles, Plainly, Bonded
<1>2. UNCHANGED bonds /\ Plainly(calls) => Settles(calls)
  BY SlackStays DEF Settles
<1>3. SlackKept /\ UNCHANGED calls => Settles(calls)
  BY DEF Settles, Plainly
<1>4. ASSUME NEW place, NEW delayed
      PROVE  place # "CreatingClaim" =>
               \A c : /\ c = [kind |-> "kyc", claim |-> k, place |-> place,
                             deadline |-> Nil, slot |-> Nil,
                             delayed |-> delayed]
                      /\ calls' = Append(calls, c)
                      => Plainly(calls)
  BY DEF Plainly, Bonded
<1>5. CASE bounty_finalize(k)
  <2> DEFINE Asks == UNCHANGED bonds /\ Sent(Harmless)
             Stops == /\ \E s, returned : CloseClaim(k, s, returned)
                      /\ UNCHANGED calls
  <2>1. Asks \/ Stops
    <3>1. ASSUME NEW j, AskPayoutProposal(k[1], j)
          PROVE  Asks
      <4>1. PICK c : c = [kind |-> "checkPayoutProposal", id |-> k[1],
                          claim |-> j]
        OBVIOUS
      <4>2. c.kind = "checkPayoutProposal"
        BY <4>1
      <4>3. calls' = Append(calls, c) /\ UNCHANGED bonds
        BY <3>1, <4>1, Zenon DEF AskPayoutProposal, Send
      <4> QED BY <4>2, <4>3
    <3>2. ASSUME NEW kind \in {"getDispute", "checkClaimantProposal"},
                 Send(calls, [kind |-> kind, claim |-> k]), UNCHANGED bonds
          PROVE  Asks
      <4>1. PICK c : c = [kind |-> kind, claim |-> k]
        OBVIOUS
      <4>2. c.kind = kind
        BY <4>1
      <4>3. calls' = Append(calls, c)
        BY <3>2, <4>1, Zenon DEF Send
      <4> QED BY <3>2, <4>2, <4>3
    <3>3. ASSUME NEW s, NEW returned, CloseClaim(k, s, returned),
                 UNCHANGED calls
          PROVE  Stops
      BY <3>3
    <3> HIDE DEF Asks, Stops
    <3>4. CASE FinalizeActive(k)
      <4>1. \/ ResetBounty(k, "Expired", FALSE) /\ UNCHANGED calls
            \/ \E j : AskPayoutProposal(k[1], j)
            \/ ResetBounty(k, "NotCompleted", TRUE) /\ UNCHANGED calls
            \/ /\ Send(calls, [kind |-> "getDispute", claim |-> k])
               /\ UNCHANGED bonds
        BY <3>4, Zenon DEF FinalizeActive
      <4> QED BY <3>1, <3>2, <3>3, <4>1 DEF ResetBounty
    <3>5. CASE FinalizeInactive(k)
      <4>1. \/ /\ Send(calls, [kind |-> "checkClaimantProposal", claim |-> k])
               /\ UNCHANGED bonds
            \/ CloseClaim(k, "Canceled", TRUE) /\ UNCHANGED calls
            \/ \E s : CloseClaim(k, s, TRUE) /\ UNCHANGED calls
        BY <3>5, Zenon DEF FinalizeInactive
      <4> QED BY <3>2, <3>3, <4>1
    <3> QED BY <1>5, <3>4, <3>5 DEF bounty_finalize
  <2>2. UNCHANGED config
    BY <1>5 DEF bounty_finalize
  <2> QED BY <1>1, <1>3, <2>1, <2>2, CloseSlack
<1>6. CASE bounty_done(k)
  <2>1. \/ (\E s, returned : CloseClaim(k, s, returned)) /\ UNCHANGED calls
        \/ /\ UNCHANGED bonds
           /\ calls' = Append(calls,
                [kind |-> "kyc", claim |-> k, place |-> "ClaimDone",
                 deadline |-> Nil, slot |-> Nil, delayed |-> Nil])
        \/ ProposeOrFinish(calls, k)
    BY <1>6, Zenon DEF bounty_done, ResetBounty, Send
  <2>2. UNCHANGED config
    BY <1>6 DEF bounty_done
  <2> QED BY <1>2, <1>3, <1>4, <2>1, <2>2, CloseSlack, FinishSettles
<1>7. CASE bounty_give_up(k)
  <2>1. (\E s, returned : CloseClaim(k, s, returned)) /\ UNCHANGED calls
        /\ UNCHANGED config
    BY <1>7 DEF bounty_give_up, ResetBounty
  <2> QED BY <1>3, <2>1, CloseSlack
<1>8. CASE withdraw(k)
  <2>1. UNCHANGED config
    BY <1>8 DEF withdraw
  <2>2. \/ SlotFinalize(k, claims[k].slot) /\ UNCHANGED calls
        \/ /\ UNCHANGED bonds
           /\ calls' = Append(calls,
                [kind |-> "withdraw", claim |-> k, slot |-> claims[k].slot,
                 amount |-> PartialAmount(k, claims[k].slot)])
    BY <1>8, Zenon DEF withdraw, Send
  <2>3. CASE SlotFinalize(k, claims[k].slot) /\ UNCHANGED calls
    BY <1>3, <2>1, <2>3, CloseSlack DEF SlotFinalize
  <2>4. ASSUME NEW c, c.kind = "withdraw", calls' = Append(calls, c),
               UNCHANGED bonds
        PROVE  Settles(calls)
    BY <2>4, SlackStays DEF Settles, Plainly, Bonded
  <2> QED BY <2>1, <2>2, <2>3, <2>4
<1>9. CASE open_dispute(k)
  <2>1. UNCHANGED bonds /\ Sent({"createDispute"}) /\ UNCHANGED config
    BY <1>9 DEF open_dispute, Send
  <2> QED BY <1>1, <2>1
<1>10. ASSUME NEW sender, NEW delayed, accept_claimant(sender, k, delayed)
       PROVE  UNCHANGED config /\ Settles(calls)
  <2>1. /\ UNCHANGED config /\ UNCHANGED bonds
        /\ \/ UNCHANGED calls
           \/ calls' = Append(calls,
                 [kind |-> "kyc", claim |-> k, place |-> "DecisionOnClaim",
                  deadline |-> Nil, slot |-> Nil, delayed |-> Nil])
    BY <1>10, Zenon DEF accept_claimant, Send
  <2> QED BY <1>1, <1>2, <1>4, <2>1
<1>11. ASSUME NEW sender, NEW place, bounty_approve(sender, k, place)
       PROVE  UNCHANGED config /\ Settles(calls)
  <2>1. /\ UNCHANGED config /\ Payout(calls, k[1], k, place)
    BY <1>11, Zenon DEF bounty_approve
  <2> QED BY <2>1, PayoutSettles
<1>12. ASSUME NEW sender, decline_claimant(sender, k) \/ bounty_reject(sender, k)
       PROVE  UNCHANGED config /\ Settles(calls)
  <2>1. /\ UNCHANGED config /\ UNCHANGED calls
        /\ CloseClaim(k, "NotHired", TRUE) \/ RejectClaim(k)
    BY <1>12, Zenon DEF decline_claimant, bounty_reject, DeclineClaimant
  <2> QED BY <1>3, <2>1, CloseSlack, RejectSlack
<1>13. ASSUME NEW place, mark_as_paid(k, place)
       PROVE  UNCHANGED config /\ Settles(calls)
  BY <1>1, <1>13 DEF mark_as_paid
<1>14. ASSUME NEW deadline, extend_claim_deadline(k, deadline)
       PROVE  UNCHANGED config /\ Settles(calls)
  BY <1>1, <1>14 DEF extend_claim_deadline
<1>15. CASE confirm_payment(k)
  BY <1>1, <1>15 DEF confirm_payment
<1>16. ASSUME NEW success, dispute_result(k, success)
       PROVE  UNCHANGED config /\ Settles(calls)
  BY <1>16, DisputeSettles DEF dispute_result
<1> QED BY <1>5, <1>6, <1>7, <1>8, <1>9, <1>10, <1>11, <1>12, <1>13, <1>14,
           <1>15, <1>16 DEF OnClaim, ClaimCall

(* ... and a callback answers for the claim that its promise was to make.  *)
LEMMA AnswerBacks ==
  ASSUME Course, NEW i \in 1 .. Len(calls), Answer(i)
  PROVE  /\ UNCHANGED config
         /\ \/ Settles(Answered(i))
            \/ Bonded(calls[i]) /\ Carries(Answered(i), 0)
<1> PICK q : q = Answered(i)
  OBVIOUS
<1>1. calls[i] \in Calls
  BY BondTypes
<1>2. UNCHANGED bonds /\ Plainly(q) => Settles(q)
  BY SlackStays DEF Settles
<1>3. SlackKept /\ calls' = q => Settles(q)
  BY DEF Settles, Plainly
<1>4. CASE Drop(i) \/ after_refund_bounty_amount(i) \/ after_fees_payout(i)
  <2>1. UNCHANGED config /\ UNCHANGED bonds /\ calls' = q
    BY <1>4, Zenon DEF Drop, after_refund_bounty_amount, after_fees_payout
  <2> QED BY <1>3, <2>1, SlackStays
<1>5. CASE on_added_proposal_callback(i) \/ after_create_dispute(i)
  <2>1. UNCHANGED config /\ UNCHANGED bonds /\ calls' = q
    BY <1>5, Zenon DEF on_added_proposal_callback, after_create_dispute
  <2> QED BY <1>3, <2>1, SlackStays
<1>6. CASE after_ft_transfer(i)
  <2>1. /\ UNCHANGED config /\ calls' = q
        /\ calls[i].kind = "payout"
        /\ \/ UNCHANGED bonds
           \/ Complete(calls[i].id, calls[i].claim, calls[i].amounts,
                       calls[i].place)
    BY <1>6, Zenon DEF after_ft_transfer
  <2>2. calls[i].claim \in ClaimKey \cup {Nil}
    BY <1>1, <2>1, CallFacts
  <2> QED BY <1>3, <2>1, <2>2, CompleteSlack, SlackStays
<1>7. CASE after_bounty_withdraw(i)
  <2>1. /\ UNCHANGED config /\ calls' = q
        /\ calls[i].kind = "withdraw"
        /\ UNCHANGED bonds \/ CloseClaim(calls[i].claim, "Approved", TRUE)
    BY <1>7, Zenon DEF after_bounty_withdraw, SlotFinalize
  <2>2. calls[i].claim \in ClaimKey
    BY <1>1, <2>1, CallFacts
  <2> QED BY <1>3, <2>1, <2>2, CloseSlack, SlackStays
<1>8. CASE after_check_if_whitelisted(i)
  <2>1. /\ UNCHANGED config /\ calls[i].kind = "kyc"
        /\ \/ /\ calls[i].place = "CreatingClaim"
              /\ \E k \in ClaimKey : \E deadline, slot :
                   ProposeOrCreateClaim(q, k, deadline, slot, 0)
           \/ calls' = q /\ UNCHANGED bonds
           \/ ProposeOrFinish(q, calls[i].claim)
    BY <1>8, Zenon DEF after_check_if_whitelisted
  <2>2. calls[i].claim \in ClaimKey
    BY <1>1, <2>1, CallFacts
  <2> QED BY <1>2, <1>3, <2>1, <2>2, ProposeCarries, FinishSettles, SlackStays
          DEF Bonded
<1>9. CASE after_add_proposal(i)
  <2>1. /\ UNCHANGED config /\ calls[i].kind = "addClaimantProposal"
        /\ calls' = q
        /\ \E k, deadline, slot : CreateClaim(k, deadline, slot, TRUE, 0)
    BY <1>9, Zenon DEF after_add_proposal
  <2>2. Slack' = Slack + 0 - config.bond
    BY <2>1, CreateSlack
  <2> QED BY <2>1, <2>2 DEF Bonded, Carries
<1>10. ASSUME NEW approved, after_check_approve_claimant_proposal(i, approved)
       PROVE  UNCHANGED config /\ Settles(q)
  <2>1. /\ UNCHANGED config /\ calls' = q
        /\ calls[i].kind = "checkClaimantProposal"
        /\ UNCHANGED bonds \/ CloseClaim(calls[i].claim, "NotHired", TRUE)
    BY <1>10, Zenon
       DEF after_check_approve_claimant_proposal, DeclineClaimant
  <2>2. calls[i].claim \in ClaimKey
    BY <1>1, <2>1, CallFacts
  <2> QED BY <1>3, <2>1, <2>2, CloseSlack, SlackStays
<1>11. ASSUME NEW approved \in BOOLEAN,
              after_check_bounty_payout_proposal(i, approved)
       PROVE  UNCHANGED config /\ Settles(q)
  <2>1. UNCHANGED config /\ calls[i].kind = "checkPayoutProposal"
    BY <1>11, Zenon DEF after_check_bounty_payout_proposal
  <2>2. \/ Payout(q, calls[i].id, calls[i].claim, Nil)
        \/ /\ claims[calls[i].claim].status = "Completed" \/ calls[i].claim # Nil
           /\ RejectClaim(calls[i].claim) /\ calls' = q
    BY <1>11 DEF after_check_bounty_payout_proposal
  <2>3. calls[i].claim \in ClaimKey \cup {Nil}
    BY <1>1, <2>1, CallFacts
  <2>4. ~approved => calls[i].claim # Nil
    BY <1>11 DEF after_check_bounty_payout_proposal
  <2>5. CASE approved
    <3>1. Payout(q, calls[i].id, calls[i].claim, Nil)
      BY <1>11, <2>5, Zenon DEF after_check_bounty_payout_proposal
    <3> QED BY <2>1, <2>3, <3>1, PayoutSettles
  <2>6. CASE ~approved
    <3>1. RejectClaim(calls[i].claim) /\ calls' = q
      BY <1>11, <2>6, Zenon DEF after_check_bounty_payout_proposal
    <3> QED BY <1>3, <2>1, <2>3, <2>4, <2>6, <3>1, RejectSlack
  <2> QED BY <2>5, <2>6
<1>12. ASSUME NEW success, after_get_dispute(i, success)
       PROVE  UNCHANGED config /\ Settles(q)
  <2>1. /\ UNCHANGED config /\ calls[i].kind = "getDispute"
        /\ SettleDispute(q, calls[i].claim, success)
    BY <1>12, Zenon DEF after_get_dispute
  <2>2. calls[i].claim \in ClaimKey
    BY <1>1, <2>1, CallFacts
  <2> QED BY <2>1, <2>2, DisputeSettles
<1> QED BY <1>4, <1>5, <1>6, <1>7, <1>8, <1>9, <1>10, <1>11, <1>12, Zenon
        DEF Answer

(* ... The others take what is owed to the administrator, at most.         *)
LEMMA OwnBacks ==
  ASSUME Course,
         \/ Tick \/ withdraw_platform_fee \/ withdraw_validators_dao_fee
         \/ withdraw_non_refunded_bonds \/ UNCHANGED vars
  PROVE  UNCHANGED config /\ Settles(calls)
<1>1. CASE Tick \/ UNCHANGED vars
  <2>1. UNCHANGED config /\ UNCHANGED bonds /\ UNCHANGED calls
    BY <1>1 DEF Tick, vars
  <2> QED BY <2>1, SlackStays DEF Settles, Plainly
<1>2. ASSUME NEW n, NEW platform, SendFees(n, platform)
      PROVE  UNCHANGED config /\ Settles(calls)
  <2>1. /\ UNCHANGED config /\ UNCHANGED bonds
        /\ \E c : c.kind = "fees" /\ calls' = Append(calls, c)
    BY <1>2 DEF SendFees, Send
  <2> QED BY <2>1, SlackStays DEF Settles, Plainly, Bonded
<1>3. CASE withdraw_non_refunded_bonds
  <2>1. /\ UNCHANGED config /\ UNCHANGED calls
        /\ bonds' = [bonds EXCEPT !.unlocked_amount = 0,
                        !.near = bonds.near - bonds.unlocked_amount]
    BY <1>3, Zenon DEF withdraw_non_refunded_bonds
  <2>2. /\ bonds'.locked_amount = bonds.locked_amount
        /\ bonds'.unlocked_amount = 0
        /\ bonds'.near = bonds.near - bonds.unlocked_amount
        /\ bonds'.proposals = bonds.proposals
    BY <2>1, BondTypes DEF BondAccounts
  <2>3. SlackKept
    BY <2>2, BondTypes DEF SlackKept, Slack
  <2> QED BY <2>1, <2>3 DEF Settles, Plainly
<1> QED BY <1>1, <1>2, <1>3 DEF withdraw_platform_fee,
        withdraw_validators_dao_fee

----------------------------------------------------------------------------
(* The count of the promises that will lock a bond.                        *)

LEMMA BondCallsFinite ==
  ASSUME NEW q \in Seq(Calls)
  PROVE  IsFiniteSet(BondCalls(q)) /\ Cardinality(BondCalls(q)) \in Nat
<1>1. IsFiniteSet(1 .. Len(q)) /\ BondCalls(q) \in SUBSET (1 .. Len(q))
  BY FS_Interval DEF BondCalls
<1> QED BY <1>1, FS_Subset, FS_CardinalityType

(* A promise that is sent adds at most one, ...                            *)
LEMMA BondCallsSent ==
  ASSUME NEW q \in Seq(Calls), NEW c
  PROVE  LET n == Cardinality(BondCalls(q))
             m == Cardinality(BondCalls(Append(q, c)))
         IN  /\ m \in Nat /\ m <= n + 1
             /\ ~Bonded(c) => m = n
<1>1. /\ Len(q) \in Nat /\ Len(Append(q, c)) = Len(q) + 1
      /\ Append(q, c)[Len(q) + 1] = c
      /\ \A j \in 1 .. Len(q) : Append(q, c)[j] = q[j]
  OBVIOUS
<1>2. BondCalls(Append(q, c)) =
        BondCalls(q) \cup (IF Bonded(c) THEN {Len(q) + 1} ELSE {})
  BY <1>1 DEF BondCalls
<1>3. IsFiniteSet(BondCalls(q)) /\ Cardinality(BondCalls(q)) \in Nat
  BY BondCallsFinite
<1>4. CASE Bonded(c)
  <2>1. BondCalls(Append(q, c)) = BondCalls(q) \cup {Len(q) + 1}
    BY <1>2, <1>4
  <2>2. Len(q) + 1 \notin BondCalls(q)
    BY <1>1 DEF BondCalls
  <2>3. Cardinality(BondCalls(Append(q, c))) = Cardinality(BondCalls(q)) + 1
    BY <1>3, <2>1, <2>2, FS_AddElement
  <2> QED BY <1>3, <1>4, <2>3
<1>5. CASE ~Bonded(c)
  <2>1. BondCalls(Append(q, c)) = BondCalls(q)
    BY <1>2, <1>5
  <2> QED BY <1>3, <2>1
<1> QED BY <1>4, <1>5

(* ... and one that is answered takes itself away.                         *)
LEMMA BondCallsLeft ==
  ASSUME calls \in Seq(Calls), NEW i \in 1 .. Len(calls)
  PROVE  LET n == Cardinality(BondCalls(calls))
             m == Cardinality(BondCalls(Answered(i)))
         IN  /\ Answered(i) \in Seq(Calls)
             /\ m \in Nat /\ m <= n
             /\ Bonded(calls[i]) => m <= n - 1
<1> DEFINE q == Answered(i)
           S == BondCalls(q)
           T == BondCalls(calls) \ {i}
           f == [j \in S |-> IF j < i THEN j ELSE j + 1]
<1>1. /\ Len(calls) \in Nat /\ q \in Seq(Calls) /\ Len(q) = Len(calls) - 1
      /\ \A j \in 1 .. Len(calls) - 1 : q[j] = calls[IF j < i THEN j ELSE j + 1]
  <2>1. /\ RemoveAt(calls, i) \in Seq(Calls)
        /\ Len(RemoveAt(calls, i)) = Len(calls) - 1
        /\ \A j \in 1 .. Len(calls) - 1 :
             RemoveAt(calls, i)[j] = calls[IF j < i THEN j ELSE j + 1]
    BY RemoveAtKeeps
  <2> QED BY <2>1 DEF Answered
<1>2. S \subseteq 1 .. Len(calls) - 1
  BY <1>1 DEF BondCalls
<1> HIDE DEF q
<1>3. ASSUME NEW j \in S
      PROVE  f[j] \in T
  <2>1. j \in 1 .. Len(calls) - 1 /\ Bonded(q[j])
    BY <1>2 DEF BondCalls
  <2>2. f[j] \in 1 .. Len(calls) /\ f[j] # i
    BY <1>1, <2>1
  <2>3. q[j] = calls[f[j]]
    BY <1>1, <2>1
  <2> QED BY <2>1, <2>2, <2>3 DEF BondCalls
<1>4. \A j, m \in S : f[j] = f[m] => j = m
  BY <1>1, <1>2
<1>5. IsFiniteSet(BondCalls(calls)) /\ Cardinality(BondCalls(calls)) \in Nat
  BY BondCallsFinite
<1>6. /\ IsFiniteSet(T)
      /\ Cardinality(T) = IF i \in BondCalls(calls)
                          THEN Cardinality(BondCalls(calls)) - 1
                          ELSE Cardinality(BondCalls(calls))
  BY <1>5, FS_RemoveElement
<1>7. f \in Injection(S, T)
  <2> HIDE DEF S, T
  <2>1. f \in [S -> T]
    BY <1>3
  <2> QED BY <1>4, <2>1 DEF Injection, IsInjective
<1>8. IsFiniteSet(S) /\ Cardinality(S) <= Cardinality(T)
  <2> HIDE DEF S, T, f
  <2> QED BY <1>6, <1>7, FS_Injection
<1>9. Cardinality(S) \in Nat
  BY <1>1, BondCallsFinite
<1>10. Bonded(calls[i]) <=> i \in BondCalls(calls)
  BY DEF BondCalls
<1> QED BY <1>1, <1>5, <1>6, <1>8, <1>9, <1>10 DEF q

----------------------------------------------------------------------------
LEMMA InitBacked == Init => Backed
<1> SUFFICES ASSUME Init PROVE Backed
  OBVIOUS
<1>1. BondCalls(calls) = {} /\ config.bond \in Nat
  BY BountiesAssumption DEF Init, BondCalls, Config
<1>2. Cardinality(BondCalls(calls)) = 0
  BY <1>1, FS_EmptySet
<1>3. Slack = 0
  BY DEF Init, Slack
<1> QED BY <1>1, <1>2, <1>3 DEF Backed

(* What covers n bonds of price p covers m, when enough is added for the   *)
(* bonds that are added.                                                   *)
LEMMA StillCovers ==
  ASSUME NEW p, NEW n, NEW m, NEW s, NEW d, NEW e,
         {p, n, m} \subseteq Nat, {s, d, e} \subseteq Int,
         s >= p * n, m <= n + e, d >= p * e
  PROVE  s + d >= p * m
<1>1. p \in Nat /\ n \in Nat /\ m \in Nat /\ s \in Int /\ d \in Int /\ e \in Int
  BY Zenon
<1>2. p * m <= p * (n + e) /\ p * (n + e) = p * n + p * e
  BY <1>1
<1>3. p * m \in Int /\ p * n \in Int /\ p * e \in Int
  BY <1>1
<1>4. p * m <= p * n + p * e
  BY <1>2, Zenon
<1>5. \A x, y, z \in Int : x <= y + z /\ s >= y /\ d >= z => s + d >= x
  BY <1>1
<1> QED BY <1>3, <1>4, <1>5, Zenon

LEMMA NextBacked ==
  Course /\ [Next]_vars /\ NotRaised /\ Backed => Backed'
<1> SUFFICES ASSUME Course, [Next]_vars, NotRaised, Backed
             PROVE  Backed'
  OBVIOUS
<1> PICK n, s, p : /\ n = Cardinality(BondCalls(calls)) /\ s = Slack
                   /\ p = config.bond
  OBVIOUS
<1>1. /\ n \in Nat /\ s \in Int /\ p \in Nat /\ s >= p * n
      /\ calls \in Seq(Calls)
  BY BondTypes, BondCallsFinite DEF Backed
<1>2. ASSUME config' = config, NEW m \in Nat,
             m = Cardinality(BondCalls(calls')),
             NEW d \in Int, Slack' = s + d, NEW e \in Int,
             m <= n + e, d >= p * e
      PROVE  Backed'
  <2>1. {p, n, m} \subseteq Nat /\ {s, d, e} \subseteq Int
    BY <1>1, Zenon
  <2>2. s + d >= p * m
    BY <1>1, <1>2, <2>1, StillCovers, Zenon
  <2> QED BY <1>1, <1>2, <2>2, Zenon DEF Backed
<1>3. ASSUME UNCHANGED config, NEW q \in Seq(Calls), Settles(q),
             Cardinality(BondCalls(q)) <= n
      PROVE  Backed'
  <2>1. PICK m \in Nat : m = Cardinality(BondCalls(calls')) /\ m <= n
    <3>1. CASE calls' = q
      BY <1>1, <1>3, <3>1, BondCallsFinite
    <3>2. CASE \E c : ~Bonded(c) /\ calls' = Append(q, c)
      BY <1>3, <3>2, BondCallsSent
    <3> QED BY <1>3, <3>1, <3>2 DEF Settles, Plainly
  <2>2. Slack' = s + 0 /\ m <= n + 0 /\ 0 >= p * 0
    BY <1>1, <1>3, <2>1 DEF Settles, SlackKept
  <2> QED BY <1>2, <1>3, <2>1, <2>2
<1>4. ASSUME UNCHANGED config, Carries(calls, p)
      PROVE  Backed'
  <2>1. CASE Slack' = s + p /\ \E c : calls' = Append(calls, c)
    <3>1. PICK m \in Nat : m = Cardinality(BondCalls(calls')) /\ m <= n + 1
      BY <1>1, <2>1, BondCallsSent
    <3>2. p >= p * 1
      BY <1>1
    <3> QED BY <1>1, <1>2, <1>4, <2>1, <3>1, <3>2
  <2>2. CASE Slack' = s + p - p /\ calls' = calls
    <3>1. Slack' = s + 0 /\ n <= n + 0 /\ 0 >= p * 0
      BY <1>1, <2>2
    <3> QED BY <1>1, <1>2, <1>4, <2>2, <3>1
  <2> QED BY <1>4, <2>1, <2>2 DEF Carries
<1>5. ASSUME UNCHANGED config, NEW i \in 1 .. Len(calls),
             Bonded(calls[i]), Carries(Answered(i), 0)
      PROVE  Backed'
  <2>1. PICK q, l : q = Answered(i) /\ l = Cardinality(BondCalls(q))
    OBVIOUS
  <2>2. q \in Seq(Calls) /\ l \in Nat /\ l <= n - 1
    BY <1>1, <1>5, <2>1, BondCallsLeft
  <2>3. CASE Slack' = s + 0 /\ \E c : calls' = Append(q, c)
    <3>1. PICK m \in Nat : m = Cardinality(BondCalls(calls')) /\ m <= l + 1
      BY <2>1, <2>2, <2>3, BondCallsSent
    <3>2. m <= n + 0 /\ 0 >= p * 0
      BY <1>1, <2>2, <3>1
    <3> QED BY <1>2, <1>5, <2>3, <3>1, <3>2
  <2>4. CASE Slack' = s + 0 - p /\ calls' = q
    <3>1. /\ -p \in Int /\ -1 \in Int /\ s + 0 - p = s + (-p)
          /\ -p >= p * (-1)
      BY <1>1
    <3>2. l <= n + (-1)
      BY <1>1, <2>2
    <3>3. Slack' = s + (-p) /\ l = Cardinality(BondCalls(calls'))
      BY <2>1, <2>4, <3>1, Zenon
    <3> QED BY <1>2, <1>5, <2>2, <3>1, <3>2, <3>3
  <2> QED BY <1>5, <2>1, <2>3, <2>4 DEF Carries
<1>6. ASSUME UNCHANGED config, NEW i \in 1 .. Len(calls),
             Settles(Answered(i))
      PROVE  Backed'
  BY <1>1, <1>3, <1>6, BondCallsLeft
<1>7. UNCHANGED config /\ Settles(calls) => Backed'
  BY <1>1, <1>3
<1>8. CASE change_config
  <2>1. Slack' = s /\ BondCalls(calls') = BondCalls(calls)
        /\ config' \in Config
    BY <1>8, BountiesAssumption DEF change_config, Slack
  <2>2. PICK r \in Nat : r = config'.bond
    BY <2>1 DEF Config
  <2>3. r * n <= p * n
    <3>1. CASE BondCalls(calls) = {}
      <4>1. n = 0
        BY <1>1, <3>1, FS_EmptySet
      <4> QED BY <1>1, <2>2, <4>1
    <3>2. CASE r <= p
      BY <1>1, <2>2, <3>2
    <3> QED BY <1>1, <2>2, <3>1, <3>2 DEF NotRaised
  <2> QED BY <1>1, <2>1, <2>2, <2>3 DEF Backed
<1>9. ASSUME NEW id \in BountyId, OnBounty(id)
      PROVE  Backed'
  BY <1>1, <1>4, <1>7, <1>9, BountyCallBacks
<1>10. ASSUME NEW k \in ClaimKey, OnClaim(k)
       PROVE  Backed'
  BY <1>7, <1>10, ClaimCallBacks
<1>11. ASSUME NEW i \in 1 .. Len(calls), Answer(i)
       PROVE  Backed'
  BY <1>5, <1>6, <1>11, AnswerBacks
<1>12. CASE \/ Tick \/ withdraw_platform_fee \/ withdraw_validators_dao_fee
            \/ withdraw_non_refunded_bonds \/ UNCHANGED vars
  BY <1>7, <1>12, OwnBacks
<1> QED BY <1>8, <1>9, <1>10, <1>11, <1>12, Zenon DEF Next

(* The NEAR of all bonds that the contract may have to return or to hand   *)
(* over is there or out with proposals to validators DAOs, as long as no   *)
(* administrator raises the price while a claim waits for the KYC contract *)
(* or for the DAO: a proposal (internal_add_proposal) and change_config at *)
(* such a moment are all that can take a bond from somebody else.          *)
THEOREM BondsBackedUnlessRaised ==
  Spec /\ [][NotRaised]_vars => []BondsBacked
<1>1. Course /\ Backed => BondsBacked
  <2> SUFFICES ASSUME Course, Backed
               PROVE  BondsBacked
    OBVIOUS
  <2> PICK n, p : n = Cardinality(BondCalls(calls)) /\ p = config.bond
    OBVIOUS
  <2>1. n \in Nat /\ p \in Nat
    BY BondTypes, BondCallsFinite
  <2>2. p * n >= 0
    BY <2>1
  <2>3. Slack >= p * n
    BY DEF Backed
  <2>4. PICK x, w, y, z \in Int :
          /\ x = bonds.near /\ w = bonds.proposals
          /\ y = bonds.locked_amount /\ z = bonds.unlocked_amount
    BY BondTypes
  <2>5. p * n \in Int /\ Slack = x + w - y - z
    BY <2>1, <2>4 DEF Slack
  <2>6. x + w >= y + z
    BY <2>2, <2>3, <2>5
  <2> QED BY <2>4, <2>6, Zenon DEF BondsBacked
<1>2. Course /\ [Next]_vars /\ [NotRaised]_vars /\ Backed => Backed'
  <2>1. CASE UNCHANGED vars
    BY <2>1 DEF vars, Backed, Slack, BondCalls, Bonded
  <2> QED BY <2>1, NextBacked
<1> QED BY <1>1, <1>2, InitBacked, AlwaysCourse, PTL DEF Spec

----------------------------------------------------------------------------
(* What an approved claim has been paid.                                   *)

(* A payment is never taken back.                                          *)
LEMMA PaidGrows ==
  ASSUME Course, [Next]_vars, NEW k \in ClaimKey
  PROVE  paid[k] \in Int /\ paid'[k] \in Int /\ paid'[k] >= paid[k]
<1>0. paid \in [ClaimKey -> Int]
  BY DEF Course, Work, Shape, TypeOK
<1>1. ASSUME NEW i \in 1 .. Len(calls),
             after_ft_transfer(i) \/ after_bounty_withdraw(i)
      PROVE  \E j : \E x \in Nat : paid' = [paid EXCEPT ![j] = paid[j] + x]
  <2>1. Fit(calls[i])
    BY FitLeft
  <2>2. CASE after_ft_transfer(i)
    <3>1. /\ calls[i].kind = "payout"
          /\ paid' = [paid EXCEPT ![calls[i].claim] =
                        paid[calls[i].claim] + calls[i].amounts.pay]
      BY <2>2, Zenon DEF after_ft_transfer
    <3> QED BY <2>1, <3>1 DEF Fit
  <2>3. CASE after_bounty_withdraw(i)
    <3>1. /\ calls[i].kind = "withdraw"
          /\ paid' = [paid EXCEPT ![calls[i].claim] =
                        paid[calls[i].claim] + calls[i].amount]
      BY <2>3, Zenon DEF after_bounty_withdraw
    <3> QED BY <2>1, <3>1 DEF Fit
  <2> QED BY <1>1, <2>2, <2>3
<1>2. CASE UNCHANGED paid
  BY <1>0, <1>2
<1>3. ASSUME NEW j, NEW x \in Nat, paid' = [paid EXCEPT ![j] = paid[j] + x]
      PROVE  paid[k] \in Int /\ paid'[k] \in Int /\ paid'[k] >= paid[k]
  BY <1>0, <1>3
<1>4. CASE Tick \/ change_config \/ withdraw_platform_fee
           \/ withdraw_validators_dao_fee \/ withdraw_non_refunded_bonds
           \/ UNCHANGED vars
  <2>1. UNCHANGED paid
    BY <1>4 DEF Tick, change_config, withdraw_platform_fee,
                withdraw_validators_dao_fee, withdraw_non_refunded_bonds,
                SendFees, vars, tokens
  <2> QED BY <1>2, <2>1
<1> QED BY <1>1, <1>2, <1>3, <1>4, OnBountyTime, OnClaimTime, AnswerTime DEF Next

(* What claim k was paid: the prizes it has won, the reward it was         *)
(* approved for.                                                           *)
Rewarded(k) ==
  LET b == bounties[k[1]] IN
  /\ paid[k] >= 0
  /\ ~b.terms.postpaid =>
       /\ HasMode(k[1], "Contest") =>
            paid[k] >= Total(b.terms.shares, Prizes(b, k))
       /\ claims[k].status = "Approved" /\ b.terms.mode # "Contest" =>
            paid[k] >= Price(b, claims[k].slot)

(* The prizes are finitely many, and each is an amount.                    *)
LEMMA PrizesFacts ==
  ASSUME NEW b \in Bounty, NEW k
  PROVE  /\ IsFiniteSet(Prizes(b, k)) /\ Prizes(b, k) \subseteq Places
         /\ UsedPlaces(b) \subseteq Places
         /\ \A p \in Places : b.terms.shares[p] \in Nat
<1>1. /\ b.terms.slots \in Places /\ b.terms.shares \in [Places -> Nat]
  BY DEF Bounty, Terms
<1>2. UsedPlaces(b) \subseteq Places /\ Prizes(b, k) \subseteq UsedPlaces(b)
  BY <1>1, TypesAssumption DEF UsedPlaces, Places, Prizes
<1>3. IsFiniteSet(UsedPlaces(b))
  BY PartTypes
<1>4. IsFiniteSet(Prizes(b, k))
  BY <1>2, <1>3, FS_Subset
<1> QED BY <1>1, <1>2, <1>4

(* A prize more.                                                           *)
LEMMA PrizeWon ==
  ASSUME NEW b \in Bounty, NEW c \in Bounty, NEW k \in ClaimKey,
         NEW j \in ClaimKey, NEW place \in Places,
         c.terms.shares = b.terms.shares, c.terms.slots = b.terms.slots,
         b.winners[place] = Nil, c.winners = Taken(b.winners, place, j)
  PROVE  /\ j # k => Prizes(c, k) = Prizes(b, k)
         /\ Total(c.terms.shares, Prizes(c, k))
              <= Total(b.terms.shares, Prizes(b, k)) + b.terms.shares[place]
<1> DEFINE h == b.terms.shares
<1>1. b.winners \in [Places -> ClaimKey \cup {Nil}] /\ UsedPlaces(c) = UsedPlaces(b)
  BY DEF Bounty, UsedPlaces
<1>2. \A p \in Places : c.winners[p] = IF p = place THEN j ELSE b.winners[p]
  BY <1>1 DEF Taken
<1>3. /\ UsedPlaces(b) \subseteq Places /\ \A p \in Places : h[p] \in Nat
      /\ IsFiniteSet(Prizes(b, k)) /\ IsFiniteSet(Prizes(c, k))
      /\ Prizes(b, k) \subseteq Places
  BY PrizesFacts
<1>4. j # k => Prizes(c, k) = Prizes(b, k)
  BY <1>1, <1>2, <1>3, NilAssumption DEF Prizes
<1>5. Total(h, Prizes(b, k)) \in Nat
  BY <1>3, TotalNat
<1>6. CASE Prizes(c, k) = Prizes(b, k)
  BY <1>3, <1>4, <1>5, <1>6
<1>7. CASE Prizes(c, k) # Prizes(b, k)
  <2>1. place \in Prizes(c, k) /\ Prizes(c, k) \ {place} = Prizes(b, k)
    BY <1>1, <1>2, <1>3, <1>4, <1>7, NilAssumption DEF Prizes
  <2>2. Counts(h, Prizes(c, k))
    BY <1>3, <2>1 DEF Counts
  <2>3. Total(h, Prizes(c, k)) = h[place] + Total(h, Prizes(b, k))
    BY <1>3, <2>1, <2>2, TotalWithout
  <2> QED BY <1>3, <1>4, <1>5, <2>3
<1> QED BY <1>6, <1>7

(* No prize is won when a bounty is created.                               *)
LEMMA NoPrizes ==
  ASSUME NEW t, NEW cfg, NEW b, b = NewBounty(t, cfg), b \in Bounty,
         NEW k \in ClaimKey
  PROVE  Total(b.terms.shares, Prizes(b, k)) = 0
<1>1. \A p \in Places : b.winners[p] = Nil
  BY Zenon DEF NewBounty, NoBounty
<1>2. Prizes(b, k) = {}
  BY <1>1, PrizesFacts, NilAssumption DEF Prizes
<1> QED BY <1>2, TotalStep, FS_EmptySet

(* The price of a claim in a mode without prizes and subtasks.             *)
LEMMA OnePrice ==
  ASSUME NEW b \in Bounty, b.terms.mode \notin {"Contest", "DifferentTasks"},
         NEW p, NEW q
  PROVE  Price(b, p) = Price(b, q)
<1>1. b.terms.mode \in Modes
  BY DEF Bounty, Terms
<1> QED BY <1>1 DEF Price, Modes

(* A price other than a prize is an amount.                                *)
LEMMA PriceType ==
  ASSUME NEW b \in Bounty, b.terms.mode # "Contest", NEW place,
         b.terms.mode = "DifferentTasks" => place \in Places
  PROVE  Price(b, place) \in Nat
<1>1. /\ b.amount \in Nat /\ b.terms.mode \in Modes
      /\ b.terms.slots \in Nat /\ b.terms.slots > 0
      /\ b.terms.shares \in [Places -> Nat]
  <2>1. b.terms \in Terms /\ b.amount \in Nat
    BY DEF Bounty
  <2> QED BY <2>1, TypesAssumption DEF Terms, Places
<1>2. CASE b.terms.mode = "None"
  BY <1>1, <1>2 DEF Price
<1>3. CASE b.terms.mode = "OneForAll"
  <2>1. b.amount \div b.terms.slots \in Nat
    BY <1>1, LastPart
  <2> QED BY <1>3, <2>1 DEF Price
<1>4. CASE b.terms.mode = "DifferentTasks"
  <2>1. PICK n \in Nat : n = Whole /\ n > 0
    BY DEF Whole
  <2>2. PICK y \in Nat : y = b.amount * b.terms.shares[place]
    BY <1>1, <1>4, Spread
  <2>3. y \div n \in Nat
    BY <2>1, Rounded
  <2>4. TaskPart(b, place) = y \div n
    BY <2>1, <2>2, Zenon DEF TaskPart
  <2> QED BY <1>4, <2>3, <2>4 DEF Price
<1> QED BY <1>1, <1>2, <1>3, <1>4 DEF Modes

(* What was won stays won, and what is won is paid.                        *)
LEMMA PrizesPaid ==
  ASSUME Course, Shape', [Next]_vars, NEW k \in ClaimKey, Rewarded(k),
         Spared(k[1]) \/ CalmEvents(k[1]) \/ Moves(k[1]),
         HasMode(k[1], "Contest"), ~bounties[k[1]].terms.postpaid,
         NEW c, c = bounties'[k[1]]
  PROVE  paid'[k] >= Total(c.terms.shares, Prizes(c, k)')
<1> DEFINE b == bounties[k[1]]
           before == Total(b.terms.shares, Prizes(b, k))
           after == Total(c.terms.shares, Prizes(c, k))
<1>1. /\ b \in Bounty /\ c \in Bounty /\ k[1] \in BountyId
      /\ Status(k[1]) # "Absent"
  BY Stored, KeyType DEF Shape, TypeOK, HasMode
<1>2. paid[k] \in Int /\ paid'[k] \in Int /\ paid'[k] >= paid[k]
  BY PaidGrows
<1>3. paid[k] >= before
  BY DEF Rewarded
<1>4. SameReward(b, c)
  BY <1>1, RewardStays
<1>5. before \in Nat /\ after \in Nat
  <2>1. \A d \in Bounty : Total(d.terms.shares, Prizes(d, k)) \in Nat
    <3> TAKE d \in Bounty
    <3>1. /\ IsFiniteSet(Prizes(d, k))
          /\ \A p \in Prizes(d, k) : d.terms.shares[p] \in Nat
      BY PrizesFacts
    <3> QED BY <3>1, TotalNat
  <2> QED BY <1>1, <2>1
<1>6. CASE c.winners = b.winners
  <2>1. Prizes(c, k) = Prizes(b, k)
    BY <1>4, <1>6 DEF Prizes, UsedPlaces, SameReward
  <2> QED BY <1>2, <1>3, <1>4, <1>5, <2>1 DEF SameReward
<1>7. ASSUME NEW j \in ClaimKey, j[1] = k[1], Pays(j)
      PROVE  paid'[k] >= after
  <2>1. PICK place \in Places \cup {Nil} :
          /\ c = PaidBounty(b, j, place)
          /\ Vacant(b, place) /\ PaidFor(j, Price(b, place))
    BY <1>1, <1>7, Stored DEF Pays
  <2>2. /\ place \in Places /\ b.winners[place] = Nil
        /\ Price(b, place) = b.terms.shares[place]
    BY <2>1 DEF Vacant, HasMode, Mode, Price
  <2>3. c.winners = Taken(b.winners, place, j)
    BY <1>1, <2>1, PaidReward DEF HasMode, Mode
  <2>4. /\ j # k => Prizes(c, k) = Prizes(b, k)
        /\ after <= before + b.terms.shares[place]
    BY <1>1, <1>4, <2>2, <2>3, PrizeWon DEF SameReward
  <2>5. CASE j # k
    BY <1>2, <1>3, <1>4, <1>5, <2>4, <2>5 DEF SameReward
  <2>6. CASE j = k
    <3>1. PICK x \in Nat : /\ x >= b.terms.shares[place]
                           /\ paid' = [paid EXCEPT ![k] = paid[k] + x]
      BY <2>1, <2>2, <2>6 DEF PaidFor
    <3>2. paid'[k] = paid[k] + x
      BY <3>1 DEF Course, Work, Shape, TypeOK
    <3>3. b.terms.shares[place] \in Nat
      BY <1>1, <2>2, PrizesFacts
    <3> HIDE DEF before, after
    <3> QED BY <1>2, <1>3, <1>5, <2>4, <3>1, <3>2, <3>3
  <2> QED BY <2>5, <2>6
<1> QED BY <1>1, <1>6, <1>7, RewardStays

(* A reward is paid when the claim is approved, and not taken back.        *)
LEMMA ApprovedPaid ==
  ASSUME Course, Shape', [Next]_vars, NEW k \in ClaimKey, Rewarded(k),
         Spared(k[1]) \/ CalmEvents(k[1]) \/ Moves(k[1]),
         ~bounties[k[1]].terms.postpaid, bounties[k[1]].terms.mode # "Contest",
         claims'[k].status = "Approved", Status(k[1]) # "Absent"
  PROVE  paid'[k] >= Price(bounties[k[1]], claims'[k].slot)
<1> DEFINE b == bounties[k[1]]
<1>1. b \in Bounty /\ k[1] \in BountyId
  BY Stored
<1>2. /\ paid[k] \in Int /\ paid'[k] \in Int /\ paid'[k] >= paid[k]
      /\ paid[k] >= 0 /\ paid \in [ClaimKey -> Int]
  BY PaidGrows DEF Rewarded, Course, Work, Shape, TypeOK
<1>3. \A p, q : Price(b, p) = Price(b, q) \/ b.terms.mode = "DifferentTasks"
  BY <1>1, OnePrice
<1>4. ASSUME NEW place, PaidFor(k, Price(b, place)), Price(b, place) \in Nat
      PROVE  paid'[k] >= Price(b, place)
  <2>1. PICK x \in Nat : /\ x >= Price(b, place)
                         /\ paid' = [paid EXCEPT ![k] = paid[k] + x]
    BY <1>4 DEF PaidFor
  <2>2. paid'[k] = paid[k] + x
    BY <1>2, <2>1
  <2> QED BY <1>2, <1>4, <2>1, <2>2
<1>9. /\ \A p : b.terms.mode # "DifferentTasks" => Price(b, p) \in Nat
      /\ claims[k].status # "Absent" => Price(b, claims[k].slot) \in Nat
  <2>1. /\ claims[k].status # "Absent" /\ b.terms.mode = "DifferentTasks" =>
             claims[k].slot \in Places
    BY <1>1, PrizesFacts DEF Course, Work, Shape, SlotsNamed, Mode
  <2> QED BY <1>1, <2>1, PriceType
<1>5. CASE claims[k].status = "Approved" /\ claims'[k].slot = claims[k].slot
  <2>1. paid[k] >= Price(b, claims[k].slot) /\ Price(b, claims[k].slot) \in Nat
    BY <1>5, <1>9 DEF Rewarded
  <2> QED BY <1>2, <1>5, <2>1
<1>6. CASE ~Moves(k[1])
  <2>1. CalmClaim(k)
    BY <1>1, <1>6, SparedCalm, CalmFacts DEF Calm
  <2>2. claims[k].status = "Approved" /\ claims'[k].slot = claims[k].slot
    BY <2>1 DEF CalmClaim
  <2> QED BY <1>5, <2>2
<1>7. CASE Pays(k)
  <2>1. PICK place : PaidFor(k, Price(b, place)) /\ b.terms.mode # "DifferentTasks"
    BY <1>7 DEF Pays
  <2>2. paid'[k] >= Price(b, place)
    BY <1>4, <1>9, <2>1
  <2>3. Price(b, place) = Price(b, claims'[k].slot)
    BY <1>3, <2>1
  <2> QED BY <2>2, <2>3
<1>8. CASE Withdraws(k) /\ Closed(k, "Approved")
  <2>1. PaidFor(k, Price(b, claims[k].slot)) /\ claims'[k].slot = claims[k].slot
    BY <1>8 DEF Withdraws, Closed
  <2>2. claims[k].status # "Absent"
    BY <1>8 DEF Withdraws
  <2> QED BY <1>4, <1>9, <2>1, <2>2
<1> QED BY <1>5, <1>6, <1>7, <1>8, ApprovedFrom

(* So everything that is owed for what was done is paid.                   *)
LEMMA NextRewarded ==
  ASSUME Course, [Next]_vars, NEW k \in ClaimKey, Rewarded(k)
  PROVE  Rewarded(k)'
<1> DEFINE id == k[1]
           b == bounties[id]
           c == bounties'[id]
<1>1. /\ Shape' /\ id \in BountyId /\ c \in Bounty
      /\ Spared(id) \/ CalmEvents(id) \/ Moves(id)
      /\ Calm(id) \/ Moves(id)
  BY Events, EventKinds, KeyType, SparedCalm, CalmFacts DEF Shape, TypeOK
<1>2. paid[k] >= 0 /\ paid'[k] >= 0 /\ paid'[k] \in Int
  BY PaidGrows DEF Rewarded
<1>3. CASE Status(id) # "Absent"
  <2>1. SameReward(b, c)
    BY <1>1, <1>3, RewardStays
  <2>2. ASSUME ~c.terms.postpaid, HasMode(id, "Contest")'
        PROVE  paid'[k] >= Total(c.terms.shares, Prizes(c, k))
    BY <1>1, <1>3, <2>1, <2>2, PrizesPaid DEF SameReward, HasMode, Mode
  <2>3. ASSUME ~c.terms.postpaid, claims'[k].status = "Approved",
               c.terms.mode # "Contest"
        PROVE  paid'[k] >= Price(c, claims'[k].slot)
    <3>1. Price(c, claims'[k].slot) = Price(b, claims'[k].slot)
      BY <2>1, <2>3, PriceStays DEF SameReward
    <3> QED BY <1>1, <1>3, <2>1, <2>3, <3>1, ApprovedPaid DEF SameReward
  <2> QED BY <1>2, <2>2, <2>3 DEF Rewarded
<1>4. CASE Begins(id)
  <2>1. PICK t \in Terms : c = NewBounty(t, config)
    BY <1>1, <1>4, BeginsFacts
  <2>2. Total(c.terms.shares, Prizes(c, k)) = 0
    BY <1>1, <2>1, NoPrizes
  <2>3. claims'[k].status = "Absent"
    BY <1>1, <1>4, BeginsFacts
  <2> QED BY <1>2, <2>2, <2>3 DEF Rewarded
<1>5. CASE Status(id) = "Absent" /\ ~Begins(id)
  <2>1. \A mode : ~HasMode(id, mode)'
    BY <1>1, <1>5, ModeBefore DEF HasMode
  <2>2. Status(id)' = "Absent"
    BY <2>1 DEF HasMode
  <2>3. claims'[k].status = "Absent"
    BY <1>1, <2>2 DEF Shape, Unborn, Status
  <2> QED BY <1>2, <2>1, <2>3 DEF Rewarded
<1> QED BY <1>3, <1>4, <1>5

(* A claim on a bounty that was paid for in advance is approved only when  *)
(* its reward has been transferred: the whole amount, a slot's part of it, *)
(* the share of its subtask or every prize it has won.  No promise that    *)
(* is out can have been made for less, whatever happened to the bounty     *)
(* since it was sent.                                                      *)
THEOREM ApprovedIsPaidAlways == Spec => []ApprovedIsPaid
<1> DEFINE All == \A k \in ClaimKey : Rewarded(k)
<1>1. Init => All
  <2> SUFFICES ASSUME Init, NEW k \in ClaimKey
               PROVE  Rewarded(k)
    OBVIOUS
  <2>1. /\ paid[k] = 0 /\ claims[k].status = "Absent"
        /\ Status(k[1]) = "Absent"
    BY KeyType DEF Init, NoBounty, NoClaim, Status
  <2> QED BY <2>1 DEF Rewarded, HasMode
<1>2. Course /\ All /\ [Next]_vars => All'
  BY NextRewarded
<1>3. Course /\ All => ApprovedIsPaid
  <2> SUFFICES ASSUME Course, All, NEW k \in ClaimKey,
                      claims[k].status = "Approved",
                      ~bounties[k[1]].terms.postpaid
               PROVE  paid[k] >= LeastReward(bounties[k[1]], k)
    BY DEF ApprovedIsPaid
  <2>1. bounties[k[1]] \in Bounty /\ Status(k[1]) # "Absent"
    BY Stored DEF Status
  <2> QED BY <2>1, RewardTotal DEF Rewarded, HasMode, Mode
<1> HIDE DEF All
<1> QED BY <1>1, <1>2, <1>3, AlwaysCourse, PTL DEF Spec

----------------------------------------------------------------------------
(* Who works on a bounty that is for the whitelist alone.                  *)

(* Nobody waits to be approved there, and who is hired is on the whitelist.*)
Listed(k) ==
  LET b == bounties[k[1]] IN
  b.terms.approval = "ApprovalByWhitelist" /\ Direct(b.terms) =>
    /\ claims[k].status # "New"
    /\ claims[k].status \in HiredStatuses(b) => k[2] \in b.terms.whitelist

(* A claim that stays what it is or is not worked on after the step.       *)
Fades(k) ==
  \/ claims'[k].status = claims[k].status
  \/ claims'[k].status \notin {"New", "InProgress", "Competes",
                               "ReadyToStart", "Completed"}

(* Only bounty_update changes the terms of a bounty that exists.           *)
LEMMA TermsMove ==
  ASSUME Course, Shape', ClaimsStep, NEW id \in BountyId,
         Status(id) # "Absent"
  PROVE  bounties'[id].terms = bounties[id].terms \/ Changes(id)
<1>1. CASE Spared(id)
  BY <1>1 DEF Spared
<1>2. CASE Moves(id)
  BY <1>2, MoveTerms DEF Begins
<1>3. ASSUME NEW k \in ClaimKey, k[1] = id, Notes(k)
      PROVE  bounties'[id].terms = bounties[id].terms
  <2>1. CASE \E deadline \in Deadlines : extend_claim_deadline(k, deadline)
    BY <2>1 DEF extend_claim_deadline
  <2> QED BY <1>3, <2>1, PaymentFacts DEF Notes
<1>4. ASSUME NEW k \in ClaimKey, k[1] = id,
             Applies(k) \/ Declines(k) \/ Rejects(k) \/ Argues(k)
      PROVE  bounties'[id].terms = bounties[id].terms
  BY <1>4 DEF Applies, Declines, Rejects, Argues
<1>5. ASSUME NEW k \in ClaimKey, k[1] = id, Finishes(k)
      PROVE  bounties'[id].terms = bounties[id].terms
  BY <1>5, FinishesFacts
<1> QED BY <1>1, <1>2, <1>3, <1>4, <1>5, EventKinds DEF CalmEvents

(* A contest that is open again has nobody at work or done.                *)
LEMMA ContestEmptied ==
  ASSUME Course, Shape', ClaimsStep, Course', NEW id \in BountyId,
         HasMode(id, "Contest"), Status(id) # "New", Status(id)' = "New"
  PROVE  ClaimsOf(id, {"Competes", "Completed"})' = {}
<1> PICK b, c : b = bounties[id] /\ c = bounties'[id]
  OBVIOUS
<1>1. /\ b.terms.mode = "Contest" /\ b.status \notin {"Absent", "New"}
      /\ c.status = "New"
  BY DEF HasMode, Mode, Status
<1>2. CASE Calm(id) \/ Spared(id)
  BY <1>1, <1>2 DEF Calm, Spared, SameRun
<1>3. CASE Moves(id)
  <2>1. ~Begins(id)
    BY <1>1 DEF Begins, Status
  <2>2. ~start_competition(id) /\ ~Accepts(id)
    BY <1>1 DEF start_competition, Accepts
  <2>3. ~Cancels(id)
    BY <1>1, StatusEffect
  <2>4. ASSUME NEW k \in ClaimKey, k[1] = id,
               Leaves(k) \/ Pays(k) \/ Withdraws(k)
        PROVE  FALSE
    BY <1>1, <2>4, LeavesEffect, PaysEffect, WithdrawsEffect
  <2>5. ASSUME NEW k \in ClaimKey, k[1] = id, Admits(k)
        PROVE  FALSE
    <3>1. PICK s : Admitted(k, s)
      BY <2>5, AdmitsFacts
    <3>2. c.status = StatusOnApproval(b, k, s)
      BY <2>5, <3>1, AdmitsEffect
    <3> QED BY <1>1, <3>2 DEF StatusOnApproval
  <2>6. ASSUME NEW k \in ClaimKey, k[1] = id, Resets(k)
        PROVE  c.participants = 0
    BY <1>1, <2>6, ResetsEffect
  <2>7. c.participants = 0 /\ c.terms = b.terms
    BY <1>3, <2>1, <2>2, <2>3, <2>4, <2>5, <2>6, MoveTerms DEF Moves
  <2>8. ContestRun(id)' /\ IsFiniteSet(Made(id)')
    BY DEF Course
  <2>9. IsFiniteSet(ClaimsOf(id, {"Competes", "Completed"})')
    <3>1. ClaimsOf(id, {"Competes", "Completed"})' \in SUBSET Made(id)'
      BY DEF ClaimsOf, Made
    <3> QED BY <2>8, <3>1, FS_Subset
  <2>10. Cardinality(ClaimsOf(id, {"Competes", "Completed"}))' = 0
    BY <1>1, <2>7, <2>8 DEF ContestRun, HasMode, Mode, Status
  <2> QED BY <2>9, <2>10, FS_EmptySet
<1> QED BY <1>2, <1>3, EventKinds, CalmFacts

(* The events without a check.                                             *)
LEMMA ClosesFades ==
  ASSUME Course, NEW k \in ClaimKey, NEW s, Closes(k, s),
         s \notin {"New", "InProgress", "Competes", "ReadyToStart", "Completed"},
         NEW j \in ClaimKey
  PROVE  Fades(j)
<1>1. Closed(k, s)
  BY ClosesFacts
<1> QED BY <1>1 DEF Closed, OthersStay, Fades

LEMMA PlainFades ==
  ASSUME Course, NEW k \in ClaimKey, PlainEvent(k), NEW j \in ClaimKey
  PROVE  Fades(j)
<1>1. claims \in [ClaimKey -> Claim] /\ claims[k] \in Claim
  BY Stored
<1>2. CASE Notes(k)
  <2>1. \/ UNCHANGED claims
        \/ \E d : claims' = [claims EXCEPT ![k].deadline = d]
        \/ claims' = [claims EXCEPT ![k].payment_at = TRUE]
        \/ claims' = [claims EXCEPT ![k].payment_confirmed_at = TRUE]
    BY <1>2 DEF Notes, extend_claim_deadline, mark_as_paid, confirm_payment
  <2> QED BY <1>1, <2>1 DEF Fades, Claim
<1>3. CASE Rejects(k)
  <2> DEFINE c == [claims[k] EXCEPT !.status = "Rejected", !.rejected_at = now]
  <2>1. c.status = "Rejected" /\ claims' = [claims EXCEPT ![k] = c]
    BY <1>1, <1>3, Zenon DEF Rejects, Claim
  <2> HIDE DEF c
  <2> QED BY <1>1, <2>1 DEF Fades
<1>4. ASSUME Argues(k) \/ Declines(k) \/ Leaves(k) \/ Resets(k)
      PROVE  Fades(j)
  <2>1. PICK s \in {"Disputed", "CompletedWithDispute", "NotHired", "Canceled",
                    "NotCompleted", "Expired"} : Closes(k, s)
    BY <1>4 DEF Argues, Declines, Leaves, Resets
  <2> QED BY <2>1, ClosesFades
<1>5. ASSUME Pays(k) \/ Withdraws(k)
      PROVE  Fades(j)
  <2>1. Closes(k, "Approved")
    BY <1>5 DEF Pays, Withdraws
  <2> QED BY <2>1, ClosesFades
<1> QED BY <1>2, <1>3, <1>4, <1>5 DEF PlainEvent

(* bounty_update keeps on the whitelist whoever is hired.                  *)
LEMMA UpdateListed ==
  ASSUME Course, NEW k \in ClaimKey, Changes(k[1]), Listed(k)
  PROVE  Listed(k)'
<1> DEFINE id == k[1]
<1> PICK b, c : b = bounties[id] /\ c = bounties'[id]
  OBVIOUS
<1>1. PICK u \in Updates : bounty_update(id, u)
  BY DEF Changes
<1>2. id \in BountyId /\ b \in Bounty /\ b.terms \in Terms /\ u \in Update
  BY <1>1, Stored, BountiesAssumption DEF Bounty
<1>3. /\ c.terms = UpdatedTerms(b.terms, u) /\ c.status = b.status
      /\ c.terms.mode = b.terms.mode
      /\ Direct(c.terms) <=> Direct(b.terms)
      /\ UNCHANGED claims
  BY <1>1, <1>2, ChangesFacts DEF SameRun, SameTerms, Direct
<1>4. HiredStatuses(c) = HiredStatuses(b)
  BY <1>3 DEF HiredStatuses
<1>5. CASE u.field # "approval"
  <2>1. /\ c.terms.approval = b.terms.approval
        /\ c.terms.whitelist = b.terms.whitelist
    BY <1>2, <1>3, <1>5 DEF UpdatedTerms, Terms, Update
  <2> QED BY <1>3, <1>4, <2>1 DEF Listed
<1>6. CASE u.field = "approval"
  <2>0. c.terms = [b.terms EXCEPT !.approval = u.approval,
                                  !.whitelist = u.whitelist]
    BY <1>3, <1>6, Zenon DEF UpdatedTerms
  <2>1. c.terms.approval = u.approval /\ c.terms.whitelist = u.whitelist
    BY <1>2, <2>0, Zenon DEF Terms
  <2>2. ApprovalUpdatable(id, u)
    BY <1>1, <1>6 DEF bounty_update, UpdateAllowed
  <2>3. claims[k].status \in HiredStatuses(b) => k \in ClaimsOf(id, HiredStatuses(b))
    BY DEF ClaimsOf
  <2>4. claims[k].status = "New" => k \in ClaimsOf(id, AgreedStatuses(b))
    BY DEF ClaimsOf, AgreedStatuses
  <2> QED BY <1>3, <1>4, <2>1, <2>2, <2>3, <2>4
          DEF Listed, ApprovalUpdatable, Bargained
<1> QED BY <1>5, <1>6

(* Where the terms stay, a claim that fades stays listed.                  *)
LEMMA FadesListed ==
  ASSUME Course, Shape', ClaimsStep, Course', NEW k \in ClaimKey,
         bounties'[k[1]].terms = bounties[k[1]].terms,
         Fades(k), Listed(k)
  PROVE  Listed(k)'
<1> PICK b, c, s, r : /\ b = bounties[k[1]] /\ c = bounties'[k[1]]
                      /\ s = claims[k].status /\ r = claims'[k].status
  OBVIOUS
<1>1. /\ k[1] \in BountyId /\ "Absent" \notin HiredStatuses(b)
      /\ s # "Absent" => b.status # "Absent"
  BY Stored DEF HiredStatuses
<1>2. CASE r # s
  <2>1. r # "New" /\ r \notin HiredStatuses(c)
    BY <1>2 DEF Fades, HiredStatuses
  <2> QED BY <2>1 DEF Listed
<1>3. CASE r = s /\ HiredStatuses(c) \subseteq HiredStatuses(b)
  BY <1>3 DEF Listed
<1>4. CASE /\ r = s /\ s = "Completed"
           /\ c.terms.mode = "Contest" /\ c.status = "New" /\ b.status # "New"
  <2>1. HasMode(k[1], "Contest") /\ Status(k[1]) # "New" /\ Status(k[1])' = "New"
    BY <1>1, <1>4 DEF HasMode, Mode, Status
  <2>2. k \notin ClaimsOf(k[1], {"Competes", "Completed"})'
    BY <1>1, <2>1, ContestEmptied
  <2> QED BY <1>4, <2>2 DEF ClaimsOf
<1>5. \/ HiredStatuses(c) \subseteq HiredStatuses(b)
      \/ c.terms.mode = "Contest" /\ c.status = "New" /\ b.status # "New"
  BY DEF HiredStatuses
<1>6. CASE /\ r = s /\ s # "Completed"
  BY <1>6 DEF Listed, HiredStatuses
<1> QED BY <1>2, <1>3, <1>4, <1>5, <1>6

(* So does any claim in a step without a check.                            *)
LEMMA PlainListed ==
  ASSUME Course, Shape', PlainStep, Course', NEW k \in ClaimKey, Listed(k)
  PROVE  Listed(k)'
<1>1. ClaimsStep /\ k[1] \in BountyId
  BY KeyType DEF PlainStep, ClaimsStep, ClaimEvent
<1>2. ASSUME NEW id \in BountyId, BountyEvent(id)
      PROVE  UNCHANGED claims
  BY <1>2, StartFacts, ChangesFacts
     DEF BountyEvent, Begins, Changes, Cancels, Accepts
<1>3. UNCHANGED claims => Fades(k)
  BY DEF Fades
<1>4. ASSUME NEW j \in ClaimKey, PlainEvent(j)
      PROVE  Fades(k)
  BY <1>4, PlainFades
<1>5. Fades(k)
  BY <1>2, <1>3, <1>4 DEF PlainStep
<1>6. CASE Status(k[1]) = "Absent"
  <2>1. claims[k].status = "Absent"
    BY <1>6, Stored DEF Status
  <2>2. claims'[k].status \notin {"New", "InProgress", "Competes",
                                  "ReadyToStart", "Completed"}
    BY <1>5, <2>1 DEF Fades
  <2> QED BY <2>2 DEF Listed, HiredStatuses
<1>7. CASE bounties'[k[1]].terms = bounties[k[1]].terms
  BY <1>1, <1>5, <1>7, FadesListed
<1>8. CASE Changes(k[1])
  BY <1>8, UpdateListed
<1> QED BY <1>1, <1>6, <1>7, <1>8, TermsMove

----------------------------------------------------------------------------
(* internal_claimant_approval hires one who is on the whitelist, if need   *)
(* be, and those that it releases were hired before.                       *)
LEMMA ApproveListed ==
  ASSUME Course, Shape', ClaimsStep, Course',
         NEW k \in ClaimKey, NEW c \in Claim,
         NEW delayed \in Deferments \cup {Nil},
         ApproveClaimant(k, c, delayed), Status(k[1]) # "Absent",
         NEW t, t = bounties[k[1]].terms,
         t.approval = "ApprovalByWhitelist" /\ Direct(t) => k[2] \in t.whitelist,
         NEW j \in ClaimKey, Listed(j)
  PROVE  Listed(j)'
<1> DEFINE b == bounties[k[1]]
<1>1. /\ k[1] \in BountyId /\ j[1] \in BountyId /\ claims[j] \in Claim
      /\ b \in Bounty /\ b.status # "Absent" /\ t = b.terms
  BY Stored DEF Status
<1>2. /\ bounties'[k[1]] = BountyOnApproval(b, k, c.slot)
      /\ \A id \in BountyId : id # k[1] => bounties'[id] = bounties[id]
      /\ claims'[k] = Approving(b, k, c, delayed)
      /\ \A i \in ClaimKey :
           i # k /\ i \notin Released(b, k, c.slot) => claims'[i] = claims[i]
      /\ \A i \in Released(b, k, c.slot) :
           claims'[i] = [claims[i] EXCEPT !.status = ApprovedStatus(b),
                                          !.start_time = now]
  BY ApproveStores, Zenon
<1>3. bounties'[j[1]].terms = bounties[j[1]].terms
  <2>1. CASE j[1] = k[1]
    <3>1. bounties'[j[1]] = BountyOnApproval(b, k, c.slot)
      BY <1>2, <2>1
    <3> QED BY <1>1, <2>1, <3>1, ApprovalFields
  <2>2. CASE j[1] # k[1]
    BY <1>1, <1>2, <2>2
  <2> QED BY <2>1, <2>2
<1> HIDE DEF b
<1>4. CASE j = k
  <2>1. claims'[k].status = AdmittedStatus(b, k, c.slot)
    <3> PICK d : d = Approving(b, k, c, delayed)
      OBVIOUS
    <3>1. d.status = AdmittedStatus(b, k, c.slot)
      BY ApprovedFields
    <3> QED BY <1>2, <3>1
  <2>2. AdmittedStatus(b, k, c.slot) # "New"
    BY DEF AdmittedStatus, ApprovedStatus
  <2> QED BY <1>1, <1>3, <1>4, <2>1, <2>2 DEF Listed
<1>5. CASE j \in Released(b, k, c.slot)
  <2>1. j[1] = k[1] /\ claims[j].status = "ReadyToStart"
    BY <1>5, ReleasedFacts
  <2>2. claims'[j].status = ApprovedStatus(b)
    BY <1>1, <1>2, <1>5, Zenon DEF Claim
  <2>3. ApprovedStatus(b) # "New" /\ "ReadyToStart" \in HiredStatuses(bounties[j[1]])
    BY DEF ApprovedStatus, HiredStatuses
  <2> QED BY <1>3, <2>1, <2>2, <2>3 DEF Listed
<1>6. CASE j # k /\ j \notin Released(b, k, c.slot)
  <2>1. Fades(j)
    BY <1>2, <1>6 DEF Fades
  <2> QED BY <1>3, <2>1, FadesListed
<1> QED BY <1>4, <1>5, <1>6

(* internal_create_claim                                                   *)
LEMMA CreateListed ==
  ASSUME Course, Shape', ClaimsStep, Course',
         NEW k \in ClaimKey, NEW deadline \in Nat \cup {Nil},
         NEW slot \in Places \cup {Nil}, NEW proposal \in BOOLEAN,
         NEW attached, CreateClaim(k, deadline, slot, proposal, attached),
         Status(k[1]) # "Absent", Vouched(k),
         NEW j \in ClaimKey, Listed(j)
  PROVE  Listed(j)'
<1> PICK t : t = bounties[k[1]].terms
  OBVIOUS
<1> DEFINE c == [NoClaim EXCEPT !.status = "New", !.deadline = deadline,
                                !.slot = slot, !.bond = config.bond,
                                !.approve_proposal = proposal]
<1>1. NoClaim \in Claim /\ "New" \in ClaimStatus /\ config.bond \in Nat
  BY DEF NoClaim, Claim, ClaimStatus, Course, Work, Shape, TypeOK, Config
<1>2. c \in Claim
  BY <1>1, Zenon DEF Claim
<1>3. \/ ~ApprovalRequired(k[2], t) /\ ApproveClaimant(k, c, Nil)
      \/ /\ ApprovalRequired(k[2], t)
         /\ claims' = [claims EXCEPT ![k] = c] /\ UNCHANGED bounties
  BY Zenon DEF CreateClaim
<1>4. t.approval = "ApprovalByWhitelist" /\ Direct(t) =>
        k[2] \in t.whitelist /\ ~ApprovalRequired(k[2], t)
  BY DEF Vouched, MayClaim, ApprovalRequired
<1> HIDE DEF c
<1>5. CASE ~ApprovalRequired(k[2], t) /\ ApproveClaimant(k, c, Nil)
  BY <1>2, <1>4, <1>5, ApproveListed
<1>6. CASE /\ ApprovalRequired(k[2], t)
           /\ claims' = [claims EXCEPT ![k] = c] /\ UNCHANGED bounties
  <2>1. claims \in [ClaimKey -> Claim]
    BY Stored
  <2>2. CASE j[1] = k[1]
    BY <1>4, <1>6, <2>2 DEF Listed
  <2>3. CASE j[1] # k[1]
    BY <1>6, <2>1, <2>3 DEF Listed
  <2> QED BY <2>2, <2>3
<1> QED BY <1>3, <1>5, <1>6

(* internal_claim_done                                                     *)
LEMMA FinishListed ==
  ASSUME Course, Shape', ClaimsStep, Course',
         NEW k \in ClaimKey, NEW proposal \in BOOLEAN, ClaimDone(k, proposal),
         NEW j \in ClaimKey, Listed(j)
  PROVE  Listed(j)'
<1>1. /\ claims \in [ClaimKey -> Claim] /\ claims[k] \in Claim
      /\ k[1] \in BountyId /\ j[1] \in BountyId
      /\ claims[k].status # "Absent" => bounties[k[1]].status # "Absent"
  BY Stored
<1>2. claims[k].status \in {"InProgress", "Competes"}
  BY DEF ClaimDone
<1>3. PICK p : claims' = [claims EXCEPT ![k].status = "Completed",
                                        ![k].payout_proposal = p]
  BY Zenon DEF ClaimDone
<1>4. /\ claims'[k].status = "Completed"
      /\ j # k => claims'[j] = claims[j]
  BY <1>1, <1>3 DEF Claim
<1>5. bounties'[j[1]].terms = bounties[j[1]].terms
  <2>1. \/ UNCHANGED bounties
        \/ \E s, q : bounties' = [bounties EXCEPT ![k[1]].completed = s,
                                                  ![k[1]].proposal_id = q]
    BY Zenon DEF ClaimDone
  <2>2. CASE UNCHANGED bounties
    BY <2>2
  <2>3. ASSUME NEW s, NEW q,
               bounties' = [bounties EXCEPT ![k[1]].completed = s,
                                            ![k[1]].proposal_id = q]
        PROVE  bounties'[j[1]].terms = bounties[j[1]].terms
    <3>0. bounties \in [BountyId -> Bounty]
      BY Stored
    <3>1. \A b \in Bounty :
            [b EXCEPT !.completed = s, !.proposal_id = q].terms = b.terms
      BY Zenon DEF Bounty
    <3>2. bounties' = [bounties EXCEPT ![k[1]] =
             [bounties[k[1]] EXCEPT !.completed = s, !.proposal_id = q]]
      BY <2>3, Zenon
    <3> QED BY <1>1, <3>0, <3>1, <3>2
  <2> QED BY <2>1, <2>2, <2>3
<1>6. CASE j = k
  BY <1>2, <1>4, <1>5, <1>6 DEF Listed, HiredStatuses
<1>7. CASE j # k
  BY <1>4, <1>5, <1>7, FadesListed DEF Fades
<1> QED BY <1>6, <1>7

(* A step that a check may come before.                                    *)
LEMMA CheckedListed ==
  ASSUME Course, Shape', ClaimsStep, Course',
         NEW q, NEW k \in ClaimKey, NEW asked, Checked(q, k, asked),
         \A i \in ClaimKey : Listed(i), NEW j \in ClaimKey
  PROVE  Listed(j)'
<1>1. UNCHANGED <<bounties, claims>> => Listed(j)'
  BY DEF Listed
<1>2. Status(k[1]) # "Absent" /\ FALSE \in BOOLEAN /\ TRUE \in BOOLEAN
      /\ claims[k] \in Claim
  BY Stored DEF Checked
<1>3. CASE Makes(q, k)
  <2>1. PICK deadline \in Nat \cup {Nil}, slot \in Places \cup {Nil} :
          \/ \E attached \in {0, config.bond} :
               ProposeOrCreateClaim(q, k, deadline, slot, attached)
          \/ CreateClaim(k, deadline, slot, TRUE, 0)
    BY <1>3 DEF Makes
  <2>2. \/ UNCHANGED <<bounties, claims>>
        \/ \E proposal \in BOOLEAN : \E attached :
             CreateClaim(k, deadline, slot, proposal, attached)
    BY <1>2, <2>1, Zenon DEF ProposeOrCreateClaim
  <2>3. Vouched(k)
    BY <1>3 DEF Makes
  <2> QED BY <1>1, <1>2, <2>2, <2>3, CreateListed
<1>4. ASSUME NEW delayed \in Deferments \cup {Nil}, Engages(q, k, delayed)
      PROVE  Listed(j)'
  <2>1. ApproveClaimant(k, claims[k], delayed) /\ claims[k].status = "New"
    BY <1>4 DEF Engages, MayDecide
  <2>2. LET t == bounties[k[1]].terms IN
        ~(t.approval = "ApprovalByWhitelist" /\ Direct(t))
    BY <2>1 DEF Listed
  <2> QED BY <1>2, <2>1, <2>2, ApproveListed
<1>5. CASE HandsIn(q, k)
  <2>1. \/ UNCHANGED <<bounties, claims>>
        \/ \E proposal \in BOOLEAN : ClaimDone(k, proposal)
    BY <1>2, <1>5, Zenon DEF HandsIn, ProposeOrFinish
  <2> QED BY <1>1, <2>1, FinishListed
<1> QED BY <1>3, <1>4, <1>5, Zenon DEF Checked

(* Every step keeps who is hired on the whitelist.                         *)
LEMMA NextListed ==
  Course /\ (\A k \in ClaimKey : Listed(k)) /\ [Next]_vars
    => (\A k \in ClaimKey : Listed(k))'
<1> SUFFICES ASSUME Course, \A k \in ClaimKey : Listed(k), [Next]_vars,
                    NEW k \in ClaimKey
             PROVE  Listed(k)'
  OBVIOUS
<1>1. CASE UNCHANGED vars
  BY <1>1 DEF vars, Listed
<1>2. CASE Next
  <2>1. PICK asked : CheckedStep(asked)
    BY <1>2, EventsChecked
  <2>2. ClaimsStep /\ Shape' /\ Course'
    BY <1>2, Events, NextCourse
  <2>3. CASE PlainStep
    BY <2>2, <2>3, PlainListed
  <2>4. ASSUME NEW j \in ClaimKey, NEW q, Checked(q, j, asked)
        PROVE  Listed(k)'
    BY <2>2, <2>4, CheckedListed
  <2> QED BY <2>1, <2>3, <2>4 DEF CheckedStep
<1> QED BY <1>1, <1>2

(* Nobody works on a bounty that is for the whitelist alone, and whose     *)
(* claims are made in the call itself, without being on the whitelist:     *)
(* bounty_claim takes nobody else, an update keeps those who are hired, and*)
(* a contest that opens again has none of the old results.                 *)
THEOREM HiredOnWhitelistAlways == Spec => []HiredOnWhitelist
<1>1. Init => \A k \in ClaimKey : Listed(k)
  BY DEF Init, NoClaim, Listed, HiredStatuses
<1>2. Course /\ (\A k \in ClaimKey : Listed(k)) => HiredOnWhitelist
  BY DEF Listed, HiredOnWhitelist, ClaimsOf, Direct
<1> QED BY <1>1, <1>2, InitCourse, NextCourse, NextListed, PTL DEF Spec

=============================================================================
