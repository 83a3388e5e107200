---------------------------- MODULE EscrowProofs ----------------------------
(***************************************************************************)
(* The escrow of the bounties contract, for every value of the constants:  *)
(* when no call comes between a promise and its answer (OneAtATime), the   *)
(* tokens held cover all that is owed and the fees (EscrowCovers), and the *)
(* fees that are locked cover what the bounties have yet to unlock or to   *)
(* return (FeesCover).  The hazard is in the division: a reward and its    *)
(* fees are split over slots, prizes and subtasks, in handlers that do not *)
(* see each other, and what one of them rounds another has to pay.         *)
(*                                                                         *)
(* Neither property is inductive.  Due says what is set aside for a bounty *)
(* (Owed, with what the division of the subtasks leaves over); a bounty    *)
(* Lowers what is due by no less than is paid for it.  The invariant Kept  *)
(* adds to Course of ClaimsProofs                                          *)
(*   - that a bounty is in order (Steady: nobody works on one that may be  *)
(*     cancelled, the shares of a contest make up its deposit, ...),       *)
(*   - that at most one promise is out and that it is for what the state   *)
(*     says (InTurn, Exact): the promise carries the amount, and only the  *)
(*     answer takes it off the books,                                      *)
(*   - that the fees locked are there (Reserved), and that nothing was     *)
(*     returned for a bounty that is not there (Refunds).                  *)
(* The proof finds six kinds of steps (TurnCases): one that moves nothing  *)
(* and promises nothing, one that promises tokens, a deposit, the          *)
(* acceptance of all subtasks, a cancellation that returns nothing, and    *)
(* the answers tokens move with; lemmas ...Money show of each that Covers  *)
(* and Locks, the two sums over the bounties, stay.                        *)
(***************************************************************************)
EXTENDS ClaimsProofs

----------------------------------------------------------------------------
(* What is due for a bounty.                                               *)

(* What is left of x when m of its n equal parts are taken.                *)
PartsLeft(x, n, m) == x - m * (x \div n)

(* What is left is a number of tokens, ...                                 *)
LEMMA PartsLeftNat ==
  ASSUME NEW x \in Nat, NEW n \in Nat, n > 0, NEW m \in Nat, m <= n
  PROVE  PartsLeft(x, n, m) \in Nat
<1>1. PICK q \in Nat : q = x \div n
  BY Rounded
<1>2. q * n <= x
  BY <1>1, Rounded
<1>3. PICK d \in Nat : n = m + d
  <2>1. n - m \in Nat /\ n = m + (n - m)
    OBVIOUS
  <2> QED BY <2>1
<1>4. q * n = q * m + q * d /\ q * m \in Nat /\ q * d \in Nat
  BY <1>3
<1>5. m * q = q * m
  OBVIOUS
<1> QED BY <1>1, <1>2, <1>4, <1>5 DEF PartsLeft

(* ... falls by one part for each part that is taken, and never below      *)
(* those still to be taken.                                                *)
LEMMA PartsLeftSteps ==
  ASSUME NEW x \in Nat, NEW n \in Nat, n > 0, NEW m \in Nat, m <= n
  PROVE  /\ PartsLeft(x, n, 0) = x
         /\ PartsLeft(x, n, m + 1) = PartsLeft(x, n, m) - (x \div n)
         /\ PartsLeft(x, n, n - 1) = x - (x \div n) * (n - 1)
         /\ (x \div n) * (n - m) <= PartsLeft(x, n, m)
         /\ x \div n \in Nat
<1>1. PICK q \in Nat : q = x \div n
  BY Rounded
<1>2. q * n <= x
  BY <1>1, Rounded
<1>3. m * q = q * m /\ q * m \in Nat /\ q * n \in Nat
  OBVIOUS
<1>4. (m + 1) * q = q * m + q
  BY <1>3
<1>5. (n - 1) * q = q * (n - 1)
  OBVIOUS
<1>6. q * (n - m) = q * n - q * m
  OBVIOUS
<1> QED BY <1>1, <1>2, <1>3, <1>4, <1>5, <1>6 DEF PartsLeft

(* The less, the more parts are taken.                                     *)
LEMMA PartsLeftFalls ==
  ASSUME NEW x \in Nat, NEW n \in Nat, n > 0,
         NEW m \in Nat, NEW k \in Nat, m <= k
  PROVE  PartsLeft(x, n, k) <= PartsLeft(x, n, m)
<1>1. PICK q \in Nat : q = x \div n
  BY Rounded
<1>2. PICK d \in Nat : k = m + d
  <2>1. k - m \in Nat /\ k = m + (k - m)
    OBVIOUS
  <2> QED BY <2>1
<1>3. k * q = m * q + d * q /\ m * q \in Nat /\ d * q \in Nat
  BY <1>2
<1> QED BY <1>1, <1>3 DEF PartsLeft

(* A bounty that has not ended, ...                                        *)
Live(b) == b.status \in {"New", "AwaitingClaims"} \cup Running

(* ... the prizes nobody has won, and the slots nobody holds.              *)
FreePrizes(b) == {p \in UsedPlaces(b) : b.winners[p] = Nil}
FreeSlots(b) == {s \in UsedPlaces(b) : b.slots[s] = Nil}

(* The part of a deposit x that is still there for a bounty that is live,  *)
(* and what is left for the subtasks that were accepted.                   *)
RewardLeft(b) ==
  CASE b.terms.mode = "OneForAll" ->
         PartsLeft(b.amount, b.terms.slots, b.paid_slots)
    [] b.terms.mode = "Contest" -> Total(b.terms.shares, FreePrizes(b))
    [] OTHER -> b.amount
TasksLeft(b) ==
  IF FreeSlots(b) = UsedPlaces(b) THEN 0
  ELSE b.amount - Total(PartOf(b), FreeSlots(b))

(* What is set aside for the rewards of a bounty.  Owed says less only of  *)
(* subtasks: the last to be withdrawn takes what the division left over.   *)
Due(b) ==
  IF b.terms.postpaid THEN 0
  ELSE IF Live(b) THEN RewardLeft(b)
  ELSE IF b.status = "Completed" /\ b.terms.mode = "DifferentTasks"
  THEN TasksLeft(b) ELSE 0

(* The parts of a bounty's record that the sums depend on fit together.    *)
Sane(b) ==
  /\ b \in Bounty
  /\ b.status # "Absent" =>
       /\ b.terms.mode = "OneForAll" => b.paid_slots <= b.terms.slots
       /\ b.terms.mode = "DifferentTasks" => SharesFit(b)
       /\ b.terms.postpaid => b.platform_fee = 0 /\ b.dao_fee = 0

(* The numbers of a bounty are numbers.                                    *)
LEMMA BountyTypes ==
  ASSUME NEW b \in Bounty
  PROVE  /\ b.amount \in Nat /\ b.platform_fee \in Nat /\ b.dao_fee \in Nat
         /\ b.terms \in Terms /\ b.terms.mode \in Modes
         /\ b.terms.slots \in Nat /\ b.terms.slots > 0
         /\ b.paid_slots \in Nat /\ b.occupied_slots \in Int
         /\ b.status \in BountyStatus
         /\ UsedPlaces(b) \subseteq Places /\ UsedPlaces(b) # {}
         /\ IsFiniteSet(UsedPlaces(b))
         /\ \A p \in UsedPlaces(b) : b.terms.shares[p] \in Nat
         /\ b.winners \in [Places -> ClaimKey \cup {Nil}]
         /\ b.slots \in [Places -> ClaimKey \cup {Nil}]
<1>1. /\ b.amount \in Nat /\ b.platform_fee \in Nat /\ b.dao_fee \in Nat
      /\ b.paid_slots \in Nat /\ b.occupied_slots \in Int
      /\ b.terms \in Terms /\ b.status \in BountyStatus
      /\ b.winners \in [Places -> ClaimKey \cup {Nil}]
      /\ b.slots \in [Places -> ClaimKey \cup {Nil}]
  BY DEF Bounty
<1>2. b.terms.mode \in Modes /\ b.terms.slots \in Places
  BY <1>1 DEF Terms
<1>3. /\ b.terms.slots \in Nat /\ b.terms.slots > 0
      /\ UsedPlaces(b) \subseteq Places /\ 1 \in UsedPlaces(b)
  BY <1>2, TypesAssumption DEF Places, UsedPlaces
<1> QED BY <1>1, <1>2, <1>3, PartTypes

(* Some subtasks are together paid no more than the whole.                 *)
LEMMA PartsWithin ==
  ASSUME NEW b \in Bounty, SharesFit(b), NEW S \in SUBSET UsedPlaces(b)
  PROVE  /\ Total(PartOf(b), S) \in Nat /\ Total(PartOf(b), S) <= b.amount
         /\ \A s \in S : PartOf(b)[s] \in Nat
<1> DEFINE R == UsedPlaces(b)
           f == PartOf(b)
           h == b.terms.shares
           a == b.amount
           n == Whole
<1>1. /\ IsFiniteSet(R) /\ a \in Nat
      /\ \A x \in R : h[x] \in Nat
  BY PartTypes
<1>2. n \in Nat /\ n > 0
  BY DEF Whole
<1>3. Total(h, R) = n
  BY Zenon DEF SharesFit, UsedPlaces
<1>4. ASSUME NEW x \in R
      PROVE  f[x] = (a * h[x]) \div n
  <2>1. f[x] = TaskPart(b, x)
    BY PartsAre
  <2>2. TaskPart(b, x) = (a * h[x]) \div n
    BY Zenon DEF TaskPart
  <2> QED BY Zenon, <2>1, <2>2
<1> HIDE DEF f, h, a, n, R
<1>5. Parts(f, h, a, n, R)
  BY <1>1, <1>4, Zenon DEF Parts
<1>6. S \in SUBSET R
  BY DEF R
<1>7. /\ Total(f, S) \in Nat /\ Total(f, S) * n <= a * Total(h, R)
      /\ \A x \in S : f[x] \in Nat
  BY <1>1, <1>2, <1>5, <1>6, PartsFit
<1> DEFINE t == Total(f, S)
<1>8. t \in Nat /\ t * n <= a * n
  BY <1>3, <1>7
<1> HIDE DEF t
<1>9. t * Whole <= a * Whole
  BY <1>8 DEF n
<1>10. t <= a
  BY <1>1, <1>8, <1>9, WholeCancels
<1> QED BY <1>7, <1>10 DEF t, f, a

(* The rest of a deposit, in the three ways it is divided.                 *)
LEMMA FeeDueIs ==
  ASSUME NEW b, NEW fee
  PROVE  /\ ~Live(b) => FeeDue(b, fee) = 0
         /\ Live(b) /\ b.terms.mode = "OneForAll" =>
              FeeDue(b, fee) = PartsLeft(fee, b.terms.slots, b.paid_slots)
         /\ Live(b) /\ b.terms.mode = "Contest" =>
              FeeDue(b, fee) = (fee \div b.terms.slots)
                                 * Cardinality(FreePrizes(b))
         /\ Live(b) /\ b.terms.mode \in {"None", "DifferentTasks"} =>
              FeeDue(b, fee) = fee
BY DEF FeeDue, Live, PartsLeft, FreePrizes

(* The fees of the prizes of a contest are equal parts of its fee.         *)
LEMMA ContestFee ==
  ASSUME NEW fee \in Nat, NEW n \in Nat, n > 0, NEW j \in Nat, NEW k \in Nat,
         j <= k
  PROVE  /\ (fee \div n) * j \in Nat /\ (fee \div n) * k \in Nat
         /\ (fee \div n) * j <= (fee \div n) * k
         /\ k <= n => (fee \div n) * k <= fee
         /\ k = j + 1 => (fee \div n) * k = (fee \div n) * j + (fee \div n)
         /\ fee \div n \in Nat
         /\ fee = 0 => (fee \div n) * k = 0
<1>1. PICK q \in Nat : q = fee \div n /\ q * n <= fee
  BY Rounded
<1>2. PICK d \in Nat : k = j + d
  <2>1. k - j \in Nat /\ k = j + (k - j)
    OBVIOUS
  <2> QED BY <2>1
<1>3. q * k = q * j + q * d /\ q * j \in Nat /\ q * d \in Nat
  BY <1>2
<1>4. k <= n => q * k <= fee
  <2>1. SUFFICES ASSUME k <= n PROVE q * k <= fee
    OBVIOUS
  <2>2. PICK e \in Nat : n = k + e
    <3>1. n - k \in Nat /\ n = k + (n - k)
      BY <2>1
    <3> QED BY <3>1
  <2>3. q * n = q * k + q * e /\ q * e \in Nat /\ q * k \in Nat
    BY <2>2
  <2> QED BY <1>1, <2>3
<1>5. k = j + 1 => q * k = q * j + q
  OBVIOUS
<1>6. fee = 0 => q * k = 0
  <2>1. fee = 0 => q = 0
    BY <1>1
  <2> QED BY <2>1
<1> QED BY <1>1, <1>3, <1>4, <1>5, <1>6

(* The free places are places in use.                                      *)
LEMMA FreeFacts ==
  ASSUME NEW b \in Bounty
  PROVE  /\ IsFiniteSet(FreePrizes(b)) /\ IsFiniteSet(FreeSlots(b))
         /\ FreePrizes(b) \in SUBSET UsedPlaces(b)
         /\ FreeSlots(b) \in SUBSET UsedPlaces(b)
         /\ Cardinality(FreePrizes(b)) \in Nat
         /\ Cardinality(FreePrizes(b)) <= b.terms.slots
<1>1. /\ FreePrizes(b) \in SUBSET UsedPlaces(b)
      /\ FreeSlots(b) \in SUBSET UsedPlaces(b)
  BY DEF FreePrizes, FreeSlots
<1>2. IsFiniteSet(UsedPlaces(b)) /\ b.terms.slots \in Nat /\ b.terms.slots > 0
  BY BountyTypes
<1>3. Cardinality(UsedPlaces(b)) = b.terms.slots
  BY <1>2, FS_Interval DEF UsedPlaces
<1>4. /\ IsFiniteSet(FreePrizes(b)) /\ IsFiniteSet(FreeSlots(b))
      /\ Cardinality(FreePrizes(b)) <= Cardinality(UsedPlaces(b))
  BY <1>1, <1>2, FS_Subset
<1> QED BY <1>1, <1>3, <1>4, FS_CardinalityType

(* What is due, and the rest of the fees, are amounts.                     *)
LEMMA DueNat ==
  ASSUME NEW b, Sane(b)
  PROVE  /\ Due(b) \in Nat
         /\ FeeDue(b, b.platform_fee) \in Nat /\ FeeDue(b, b.dao_fee) \in Nat
<1>1. b \in Bounty
  BY DEF Sane
<1>2. Live(b) \/ b.status = "Completed" => b.status # "Absent"
  BY DEF Live, Running
<1>3. ASSUME Live(b), b.terms.mode = "OneForAll", NEW x \in Nat
      PROVE  PartsLeft(x, b.terms.slots, b.paid_slots) \in Nat
  <2>1. /\ b.terms.slots \in Nat /\ b.terms.slots > 0 /\ b.paid_slots \in Nat
        /\ b.paid_slots <= b.terms.slots
    BY <1>1, <1>2, <1>3, BountyTypes DEF Sane
  <2> QED BY <2>1, PartsLeftNat
<1>4. Due(b) \in Nat
  <2>1. CASE Live(b) /\ b.terms.mode = "OneForAll"
    <3>1. Due(b) = 0 \/ Due(b) = PartsLeft(b.amount, b.terms.slots, b.paid_slots)
      BY <2>1 DEF Due, RewardLeft
    <3> QED BY <1>1, <1>3, <2>1, <3>1, BountyTypes
  <2>2. CASE Live(b) /\ b.terms.mode = "Contest"
    <3>1. Due(b) = 0 \/ Due(b) = Total(b.terms.shares, FreePrizes(b))
      BY <2>2 DEF Due, RewardLeft
    <3>2. /\ IsFiniteSet(FreePrizes(b))
          /\ \A p \in FreePrizes(b) : b.terms.shares[p] \in Nat
      BY <1>1, FreeFacts, BountyTypes
    <3> QED BY <3>1, <3>2, TotalNat
  <2>3. CASE Live(b) /\ b.terms.mode \notin {"OneForAll", "Contest"}
    <3>1. Due(b) = 0 \/ Due(b) = b.amount
      BY <2>3 DEF Due, RewardLeft
    <3> QED BY <1>1, <3>1, BountyTypes
  <2>4. CASE ~Live(b)
    <3>1. CASE b.status = "Completed" /\ b.terms.mode = "DifferentTasks"
      <4>1. SharesFit(b)
        BY <1>2, <3>1 DEF Sane
      <4>2. /\ Total(PartOf(b), FreeSlots(b)) \in Nat
            /\ Total(PartOf(b), FreeSlots(b)) <= b.amount
            /\ b.amount \in Nat
        BY <1>1, <4>1, FreeFacts, PartsWithin, BountyTypes
      <4>3. \/ Due(b) = 0
            \/ Due(b) = b.amount - Total(PartOf(b), FreeSlots(b))
        BY <2>4 DEF Due, TasksLeft
      <4> QED BY <4>2, <4>3
    <3>2. CASE ~(b.status = "Completed" /\ b.terms.mode = "DifferentTasks")
      <4>1. Due(b) = 0
        BY <2>4, <3>2 DEF Due
      <4> QED BY <4>1
    <3> QED BY <3>1, <3>2
  <2> QED BY <2>1, <2>2, <2>3, <2>4
<1>5. ASSUME NEW fee \in Nat
      PROVE  FeeDue(b, fee) \in Nat
  <2>1. CASE Live(b) /\ b.terms.mode = "OneForAll"
    BY <1>3, <2>1, FeeDueIs
  <2>2. CASE Live(b) /\ b.terms.mode = "Contest"
    <3>1. /\ Cardinality(FreePrizes(b)) \in Nat
          /\ b.terms.slots \in Nat /\ b.terms.slots > 0
      BY <1>1, FreeFacts, BountyTypes
    <3>2. (fee \div b.terms.slots) * Cardinality(FreePrizes(b)) \in Nat
      BY <3>1, ContestFee
    <3> QED BY <2>2, <3>2, FeeDueIs
  <2>3. b.terms.mode \in Modes
    BY <1>1, BountyTypes
  <2> QED BY <2>1, <2>2, <2>3, FeeDueIs DEF Modes
<1> QED BY <1>1, <1>4, <1>5, BountyTypes

(* Where nothing is set aside, no fee is either.                           *)
LEMMA PostpaidDue ==
  ASSUME NEW b, Sane(b), b.terms.postpaid
  PROVE  /\ Due(b) = 0
         /\ FeeDue(b, b.platform_fee) = 0 /\ FeeDue(b, b.dao_fee) = 0
<1>1. b \in Bounty /\ b.terms.mode \in Modes
  BY BountyTypes DEF Sane
<1>2. ASSUME Live(b)
      PROVE  FeeDue(b, 0) = 0
  <2>1. /\ Cardinality(FreePrizes(b)) \in Nat
        /\ b.terms.slots \in Nat /\ b.terms.slots > 0 /\ b.paid_slots \in Nat
    BY <1>1, FreeFacts, BountyTypes
  <2>2. (0 \div b.terms.slots) * Cardinality(FreePrizes(b)) = 0
    BY <2>1, ContestFee
  <2>3. PartsLeft(0, b.terms.slots, b.paid_slots) = 0
    <3>1. PICK q \in Nat : q = 0 \div b.terms.slots /\ q * b.terms.slots <= 0
      BY <2>1, Rounded
    <3>2. 0 \div b.terms.slots = 0
      BY <2>1
    <3>3. b.paid_slots * 0 = 0
      BY <2>1
    <3> QED BY <3>2, <3>3 DEF PartsLeft
  <2> QED BY <1>1, <1>2, <2>2, <2>3, FeeDueIs DEF Modes
<1>3. Live(b) => b.platform_fee = 0 /\ b.dao_fee = 0
  BY DEF Sane, Live, Running
<1> QED BY <1>2, <1>3, FeeDueIs DEF Due

(* What changes about a bounty in a step that pays nothing: it does not    *)
(* come to life, and slots and prizes are only taken.                      *)
Falls(b, c) ==
  /\ SameReward(b, c)
  /\ Live(c) => Live(b)
  /\ b.terms.postpaid \/ FreePrizes(c) \subseteq FreePrizes(b)
  /\ b.terms.mode = "OneForAll" => b.paid_slots <= c.paid_slots
  /\ b.terms.mode = "DifferentTasks" /\ c.status = "Completed" =>
       \/ Live(b)
       \/ b.status = "Completed" /\ FreeSlots(b) \subseteq FreeSlots(c)

(* Such a change adds nothing to what is due.                              *)
LEMMA DueFalls ==
  ASSUME NEW b, NEW c, Sane(b), Sane(c), Falls(b, c)
  PROVE  /\ Due(c) <= Due(b)
         /\ FeeDue(c, c.platform_fee) <= FeeDue(b, b.platform_fee)
         /\ FeeDue(c, c.dao_fee) <= FeeDue(b, b.dao_fee)
<1>1. /\ b \in Bounty /\ c \in Bounty
      /\ c.terms.mode = b.terms.mode /\ c.terms.postpaid = b.terms.postpaid
      /\ c.terms.slots = b.terms.slots /\ c.terms.shares = b.terms.shares
      /\ c.platform_fee = b.platform_fee /\ c.dao_fee = b.dao_fee
      /\ UsedPlaces(c) = UsedPlaces(b)
  BY DEF Sane, Falls, SameReward, SameFees, UsedPlaces
<1>2. /\ b.terms.mode \in Modes /\ b.terms.slots \in Nat /\ b.terms.slots > 0
      /\ b.amount \in Nat /\ b.platform_fee \in Nat /\ b.dao_fee \in Nat
      /\ b.paid_slots \in Nat /\ c.paid_slots \in Nat
      /\ \A p \in UsedPlaces(b) : b.terms.shares[p] \in Nat
  BY <1>1, BountyTypes
<1>3. /\ Due(b) \in Nat /\ Due(c) \in Nat
      /\ FeeDue(b, b.platform_fee) \in Nat /\ FeeDue(b, b.dao_fee) \in Nat
  BY DueNat
<1>4. CASE b.terms.postpaid
  <2>1. c.terms.postpaid
    BY <1>1, <1>4
  <2>2. /\ Due(c) = 0
        /\ FeeDue(c, c.platform_fee) = 0 /\ FeeDue(c, c.dao_fee) = 0
    BY <2>1, PostpaidDue
  <2> QED BY <1>3, <2>2
<1>5. CASE ~b.terms.postpaid /\ Live(c)
  <2>1. /\ Live(b) /\ c.amount = b.amount
        /\ FreePrizes(c) \subseteq FreePrizes(b)
        /\ b.terms.mode = "OneForAll" => b.paid_slots <= c.paid_slots
    BY <1>5 DEF Falls, SameReward
  <2>2. Due(b) = RewardLeft(b) /\ Due(c) = RewardLeft(c)
    BY <1>1, <1>5, <2>1 DEF Due
  <2>3. CASE b.terms.mode = "OneForAll"
    <3>1. ASSUME NEW x \in Nat
          PROVE  PartsLeft(x, b.terms.slots, c.paid_slots)
                   <= PartsLeft(x, b.terms.slots, b.paid_slots)
      BY <1>2, <2>1, <2>3, PartsLeftFalls
    <3>2. /\ Due(b) = PartsLeft(b.amount, b.terms.slots, b.paid_slots)
          /\ Due(c) = PartsLeft(b.amount, b.terms.slots, c.paid_slots)
      BY <1>1, <2>1, <2>2, <2>3 DEF RewardLeft
    <3>3. ASSUME NEW fee
          PROVE  /\ FeeDue(b, fee) = PartsLeft(fee, b.terms.slots, b.paid_slots)
                 /\ FeeDue(c, fee) = PartsLeft(fee, b.terms.slots, c.paid_slots)
      BY <1>1, <1>5, <2>1, <2>3, FeeDueIs
    <3> QED BY <1>1, <1>2, <3>1, <3>2, <3>3
  <2>4. CASE b.terms.mode = "Contest"
    <3>1. /\ IsFiniteSet(FreePrizes(b)) /\ IsFiniteSet(FreePrizes(c))
          /\ Cardinality(FreePrizes(b)) \in Nat
          /\ Cardinality(FreePrizes(c)) \in Nat
          /\ Cardinality(FreePrizes(c)) <= Cardinality(FreePrizes(b))
          /\ FreePrizes(b) \in SUBSET UsedPlaces(b)
      BY <1>1, <2>1, FreeFacts, FS_Subset
    <3>2. /\ Due(b) = Total(b.terms.shares, FreePrizes(b))
          /\ Due(c) = Total(b.terms.shares, FreePrizes(c))
      BY <1>1, <2>2, <2>4 DEF RewardLeft
    <3>3. Due(c) <= Due(b)
      <4>1. Counts(b.terms.shares, FreePrizes(b))
        BY <1>2, <3>1 DEF Counts
      <4>2. Due(b) = Due(c)
              + Total(b.terms.shares, FreePrizes(b) \ FreePrizes(c))
        BY <2>1, <3>1, <3>2, <4>1, TotalParted
      <4>3. Total(b.terms.shares, FreePrizes(b) \ FreePrizes(c)) \in Nat
        <5>1. /\ IsFiniteSet(FreePrizes(b) \ FreePrizes(c))
              /\ \A p \in FreePrizes(b) \ FreePrizes(c) :
                   b.terms.shares[p] \in Nat
          BY <1>2, <3>1, FS_Subset
        <5> QED BY <5>1, TotalNat
      <4> QED BY <1>3, <4>2, <4>3
    <3>4. ASSUME NEW fee \in Nat
          PROVE  FeeDue(c, fee) <= FeeDue(b, fee)
      <4>1. /\ FeeDue(b, fee) = (fee \div b.terms.slots)
                                  * Cardinality(FreePrizes(b))
            /\ FeeDue(c, fee) = (fee \div b.terms.slots)
                                  * Cardinality(FreePrizes(c))
        BY <1>1, <1>5, <2>1, <2>4, FeeDueIs
      <4> QED BY <1>2, <3>1, <4>1, ContestFee
    <3> QED BY <1>1, <1>2, <3>3, <3>4
  <2>5. CASE b.terms.mode \in {"None", "DifferentTasks"}
    <3>1. Due(b) = b.amount /\ Due(c) = b.amount
      BY <1>1, <2>1, <2>2, <2>5 DEF RewardLeft
    <3>2. ASSUME NEW fee \in Nat
          PROVE  FeeDue(b, fee) = fee /\ FeeDue(c, fee) = fee
      BY <1>1, <1>5, <2>1, <2>5, FeeDueIs
    <3> QED BY <1>1, <1>2, <3>1, <3>2
  <2> QED BY <1>2, <2>3, <2>4, <2>5 DEF Modes
<1>6. CASE ~b.terms.postpaid /\ ~Live(c)
  <2>1. FeeDue(c, c.platform_fee) = 0 /\ FeeDue(c, c.dao_fee) = 0
    BY <1>6, FeeDueIs
  <2>2. CASE c.status # "Completed" \/ b.terms.mode # "DifferentTasks"
    <3>1. Due(c) = 0
      BY <1>1, <1>6, <2>2 DEF Due
    <3> QED BY <1>3, <2>1, <3>1
  <2>3. CASE c.status = "Completed" /\ b.terms.mode = "DifferentTasks"
    <3>1. Due(c) = TasksLeft(c)
      BY <1>1, <1>6, <2>3 DEF Due
    <3>2. c.amount = b.amount /\ PartOf(c) = PartOf(b)
      <4>1. c.amount = b.amount
        BY <1>6 DEF Falls, SameReward
      <4> QED BY <1>1, <4>1, Zenon DEF PartOf, TaskPart
    <3>3. SharesFit(c)
      BY <1>1, <2>3 DEF Sane
    <3>4. /\ Total(PartOf(c), FreeSlots(c)) \in Nat
          /\ FreeSlots(c) \in SUBSET UsedPlaces(b)
          /\ IsFiniteSet(FreeSlots(c))
          /\ \A s \in FreeSlots(c) : PartOf(c)[s] \in Nat
      BY <1>1, <3>3, FreeFacts, PartsWithin
    <3>5. Due(c) = 0 \/ Due(c) = b.amount - Total(PartOf(b), FreeSlots(c))
      BY <3>1, <3>2 DEF TasksLeft
    <3>6. CASE Live(b)
      <4>1. Due(b) = b.amount
        BY <1>6, <2>3, <3>6 DEF Due, RewardLeft
      <4> QED BY <1>2, <1>3, <2>1, <3>2, <3>4, <3>5, <4>1
    <3>7. CASE ~Live(b) /\ b.status = "Completed"
               /\ FreeSlots(b) \subseteq FreeSlots(c)
      <4>1. CASE FreeSlots(c) = UsedPlaces(c)
        <5>1. Due(c) = 0
          BY <3>1, <4>1 DEF TasksLeft
        <5> QED BY <1>3, <2>1, <5>1
      <4>2. CASE FreeSlots(c) # UsedPlaces(c)
        <5>1. FreeSlots(b) # UsedPlaces(b)
          BY <1>1, <3>4, <3>7, <4>2
        <5>2. Due(b) = b.amount - Total(PartOf(b), FreeSlots(b))
          BY <1>6, <2>3, <3>7, <5>1 DEF Due, TasksLeft
        <5> DEFINE f == PartOf(b)
                   S == FreeSlots(c)
                   A == FreeSlots(b)
        <5>3. /\ Counts(f, S) /\ IsFiniteSet(S) /\ A \in SUBSET S
              /\ \A s \in S : f[s] \in Nat
          BY <3>2, <3>4, <3>7 DEF Counts
        <5> HIDE DEF f, S, A
        <5>4. Total(f, S) = Total(f, A) + Total(f, S \ A)
          BY <5>3, TotalParted
        <5>5. Total(f, S \ A) \in Nat /\ Total(f, A) \in Nat
          <6>1. /\ IsFiniteSet(S \ A) /\ IsFiniteSet(A)
                /\ \A s \in S \ A : f[s] \in Nat
                /\ \A s \in A : f[s] \in Nat
            BY <5>3, FS_Subset
          <6> QED BY <6>1, TotalNat
        <5> USE DEF f, S, A
        <5>6. Due(b) = b.amount - Total(f, A)
          BY <5>2
        <5> HIDE DEF f, S, A
        <5>7. Due(c) = 0 \/ Due(c) = b.amount - Total(f, S)
          BY <3>5 DEF f, S
        <5>8. Due(c) <= Due(b)
          BY <1>2, <1>3, <5>4, <5>5, <5>6, <5>7
        <5> QED BY <1>3, <2>1, <5>8
      <4> QED BY <4>1, <4>2
    <3> QED BY <2>3, <3>6, <3>7 DEF Falls
  <2> QED BY <2>2, <2>3
<1> QED BY <1>4, <1>5, <1>6

----------------------------------------------------------------------------
(* What the sums need to know of a bounty besides Course.                  *)

(* Nobody works on a bounty that may be cancelled, or was.                 *)
Idle(id) ==
  Mode(id) \in {"None", "DifferentTasks"} /\ Status(id) \in {"New", "Canceled"}
    => ClaimsOf(id, {"InProgress"}) = {}

(* No slot of a bounty is paid that is still new.                          *)
Unpaid(id) ==
  HasMode(id, "OneForAll") /\ Status(id) = "New" => bounties[id].paid_slots = 0

(* No fee is taken for a bounty that is paid for outside the contract.     *)
NoFees(id) ==
  Status(id) # "Absent" /\ bounties[id].terms.postpaid =>
    bounties[id].platform_fee = 0 /\ bounties[id].dao_fee = 0

(* A deposit is for a reward, and that of a contest is for its prizes.     *)
Funded(id) ==
  Status(id) # "Absent" /\ ~bounties[id].terms.postpaid =>
    /\ bounties[id].amount > 0
    /\ Mode(id) = "Contest" =>
         Total(bounties[id].terms.shares, UsedPlaces(bounties[id]))
           = bounties[id].amount

Steady(id) == Idle(id) /\ Unpaid(id) /\ NoFees(id) /\ Funded(id)

(* Course makes the record of a bounty sane, but for its fees.             *)
LEMMA SaneBounty ==
  ASSUME Course, NEW id \in BountyId, NoFees(id)
  PROVE  Sane(bounties[id])
<1> PICK b : b = bounties[id]
  OBVIOUS
<1>1. b \in Bounty
  BY DEF Course, Work, Shape, TypeOK
<1>2. ASSUME b.status # "Absent"
      PROVE  /\ b.terms.mode = "OneForAll" => b.paid_slots <= b.terms.slots
             /\ b.terms.mode = "DifferentTasks" => SharesFit(b)
  <2>1. b.terms.mode = "DifferentTasks" => SharesFit(b)
    BY <1>2 DEF Course, SharesWhole, HasMode, Status, Mode
  <2>2. ASSUME b.terms.mode = "OneForAll"
        PROVE  b.paid_slots <= b.terms.slots
    <3>1. /\ b.occupied_slots = Cardinality(ClaimsOf(id, Occupying))
          /\ b.occupied_slots + b.paid_slots <= b.terms.slots
      BY <1>2, <2>2 DEF Course, SlotsRun, HasMode, Status, Mode
    <3>2. Cardinality(ClaimsOf(id, Occupying)) \in Nat
      BY CountFacts DEF Occupying
    <3> QED BY <1>1, <3>1, <3>2, BountyTypes
  <2> QED BY <2>1, <2>2
<1> QED BY <1>1, <1>2 DEF Sane, NoFees, Status

(* A claim that comes to be worked on makes its bounty run.                *)
LEMMA WorkRuns ==
  ASSUME Course, Shape', ClaimsStep, NEW k \in ClaimKey,
         claims'[k].status = "InProgress", claims[k].status # "InProgress"
  PROVE  Status(k[1])' \in Running
<1> PICK id : id = k[1]
  OBVIOUS
<1>1. id \in BountyId
  BY DEF ClaimKey
<1>2. Spared(id) \/ CalmEvents(id) \/ Moves(id)
  BY <1>1, EventKinds
<1>3. CASE Spared(id)
  BY <1>3 DEF Spared
<1>4. CASE CalmEvents(id)
  <2>1. CalmClaim(k)
    BY <1>1, <1>4, CalmFacts DEF Calm
  <2> QED BY <2>1 DEF CalmClaim
<1>5. CASE Moves(id)
  <2>1. UNCHANGED claims \/ \E j \in ClaimKey : MovedClaims(id, j)
    BY <1>1, <1>5, MoveClaims
  <2>2. PICK j \in ClaimKey : MovedClaims(id, j) /\ ~UNCHANGED claims
    BY <2>1
  <2>3. ~\E s \in {"Canceled", "Expired", "NotCompleted", "Approved"} :
           Closed(j, s)
    BY DEF Closed, OthersStay
  <2>4. PICK s \in Places \cup {Nil} : j[1] = id /\ Admitted(j, s)
    BY <2>2, <2>3 DEF MovedClaims
  <2> PICK b : b = bounties[id]
    OBVIOUS
  <2>5. /\ b \in Bounty /\ bounties'[id].status = StatusOnApproval(b, j, s)
    BY <2>4, AdmitsEffect
  <2>6. b.terms.mode \in Modes
    BY <2>5, BountyTypes
  <2>7. CASE k = j
    <3>1. AdmittedStatus(b, j, s) = "InProgress"
      BY <2>4, <2>7 DEF Admitted
    <3>2. /\ b.terms.mode # "Contest"
          /\ b.terms.mode \in {"OneForAll", "DifferentTasks"} =>
               StatusOnApproval(b, j, s) = "ManyClaimed"
      BY <3>1 DEF AdmittedStatus, ApprovedStatus
    <3>3. b.terms.mode = "None" => StatusOnApproval(b, j, s) = "Claimed"
      BY DEF StatusOnApproval
    <3> QED BY <2>5, <2>6, <3>2, <3>3 DEF Modes, Status, Running
  <2>8. CASE k # j
    <3>1. k \in Released(b, j, s)
      BY <2>4, <2>8 DEF Admitted
    <3>2. StartsWork(b, j, s) /\ b.terms.mode \in {"OneForAll", "DifferentTasks"}
      BY <3>1, ReleasedFacts
    <3>3. StatusOnApproval(b, j, s) = "ManyClaimed"
      BY <3>2 DEF StatusOnApproval
    <3> QED BY <2>5, <3>3 DEF Status, Running
  <2> QED BY <2>7, <2>8
<1> QED BY <1>2, <1>3, <1>4, <1>5

(* No bounty is live again that was not, and none grows.                   *)
LEMMA EventFalls ==
  ASSUME Course, Course', ClaimsStep,
         NEW id \in BountyId, Steady(id), Status(id) # "Absent"
  PROVE  Falls(bounties[id], bounties'[id])
<1> PICK b, c : b = bounties[id] /\ c = bounties'[id]
  OBVIOUS
<1>0. /\ b \in Bounty /\ c \in Bounty /\ Shape' /\ b.status # "Absent"
      /\ b.terms.mode \in Modes /\ b.paid_slots \in Nat
  BY BountyTypes DEF Course, Work, Shape, TypeOK, Status
<1>1. Spared(id) \/ CalmEvents(id) \/ Moves(id)
  BY <1>0, EventKinds
<1>2. /\ SameReward(b, c)
      /\ \/ b.terms.postpaid
         \/ c.winners = b.winners
         \/ \E k \in ClaimKey : k[1] = id /\ Pays(k)
  BY <1>1, RewardStays
<1>3. UsedPlaces(c) = UsedPlaces(b) /\ c.terms.mode = b.terms.mode
  BY <1>2 DEF SameReward, UsedPlaces
<1>4. b.terms.postpaid \/ FreePrizes(c) \subseteq FreePrizes(b)
  <2>1. CASE c.winners = b.winners
    BY <1>3, <2>1 DEF FreePrizes
  <2>2. ASSUME NEW k \in ClaimKey, k[1] = id, Pays(k), ~b.terms.postpaid
        PROVE  FreePrizes(c) \subseteq FreePrizes(b)
    <3>1. PICK place \in Places \cup {Nil} :
            /\ bounties' = [bounties EXCEPT ![id] = PaidBounty(b, k, place)]
            /\ Vacant(b, place)
      BY <2>2 DEF Pays
    <3>2. c = PaidBounty(b, k, place)
      BY <3>1 DEF Course, Work, Shape, TypeOK
    <3>3. c.winners = b.winners \/ c.winners = Taken(b.winners, place, k)
      BY <1>0, <3>2, PaidReward
    <3>4. ASSUME NEW p \in UsedPlaces(b), c.winners[p] = Nil
          PROVE  b.winners[p] = Nil
      <4>1. CASE c.winners = b.winners
        BY <3>4, <4>1
      <4>2. CASE c.winners = Taken(b.winners, place, k)
        <5>1. k # Nil
          BY NilAssumption
        <5>2. b.winners \in [Places -> ClaimKey \cup {Nil}] /\ p \in Places
          BY <1>0, BountyTypes
        <5> QED BY <3>4, <4>2, <5>1, <5>2 DEF Taken
      <4> QED BY <3>3, <4>1, <4>2
    <3> QED BY <1>3, <3>4 DEF FreePrizes
  <2> QED BY <1>2, <2>1, <2>2
<1> DEFINE Goal == /\ Live(c) => Live(b)
                   /\ b.terms.mode = "OneForAll" => b.paid_slots <= c.paid_slots
                   /\ b.terms.mode = "DifferentTasks" /\ c.status = "Completed" =>
                        \/ Live(b)
                        \/ b.status = "Completed" /\ FreeSlots(b) \subseteq FreeSlots(c)
<1>5. ASSUME c.status = b.status, c.paid_slots = b.paid_slots,
             c.slots = b.slots
      PROVE  Goal
  <2>1. FreeSlots(c) = FreeSlots(b)
    BY <1>3, <1>5 DEF FreeSlots
  <2>2. Live(c) <=> Live(b)
    BY <1>5 DEF Live
  <2>3. b.paid_slots <= c.paid_slots
    BY <1>0, <1>5
  <2> QED BY <1>5, <2>1, <2>2, <2>3
<1>6. CASE Spared(id) \/ CalmEvents(id)
  <2>1. SameRun(b, c)
    BY <1>6, SparedCalm, CalmFacts DEF Calm
  <2> QED BY <1>2, <1>4, <1>5, <2>1 DEF SameRun, Falls
<1>7. ASSUME NEW s, c.slots = Vacated(b.slots, s)
      PROVE  FreeSlots(b) \subseteq FreeSlots(c)
  BY <1>0, <1>3, <1>7, BountyTypes DEF Vacated, FreeSlots
<1>8. CASE Moves(id)
  <2>1. CASE start_competition(id)
    <3>1. b.terms.mode = "Contest" /\ b.status = "New"
      BY <2>1, StartFacts
    <3> QED BY <1>2, <1>4, <3>1 DEF Falls, Live
  <2>2. CASE Cancels(id) \/ Accepts(id)
    <3>1. /\ c.status = IF ~Cancels(id) THEN "Completed"
                        ELSE IF b.status = "AwaitingClaims"
                        THEN "PartiallyCompleted" ELSE "Canceled"
          /\ c.paid_slots = b.paid_slots
      BY <2>2, StatusEffect
    <3>2. ~Live(c)
      BY <3>1 DEF Live, Running
    <3>3. c.status = "Completed" => Live(b)
      BY <2>2, <3>1 DEF Accepts, Live, Running
    <3> QED BY <1>0, <1>2, <1>4, <3>1, <3>2, <3>3 DEF Falls
  <2>3. CASE Begins(id)
    BY <1>0, <2>3 DEF Begins, Status
  <2>4. ASSUME NEW k \in ClaimKey, k[1] = id, Admits(k)
        PROVE  Falls(b, c)
    <3>1. PICK s \in Places \cup {Nil} : Admitted(k, s)
      BY <2>4, AdmitsFacts
    <3>2. /\ b.status \in OpenStatuses(b.terms.mode)
          /\ b.terms.mode = "OneForAll" => c.paid_slots = b.paid_slots
      BY <2>4, <3>1, AdmitsEffect
    <3>3. Live(b)
      BY <1>0, <3>2, Opened DEF Live, Running, Modes
    <3> QED BY <1>0, <1>2, <1>4, <3>2, <3>3 DEF Falls
  <2>5. ASSUME NEW k \in ClaimKey, k[1] = id, Leaves(k)
        PROVE  Falls(b, c)
    <3>1. /\ c.status = b.status
          /\ b.terms.mode = "OneForAll" => c.paid_slots = b.paid_slots
          /\ b.terms.mode = "DifferentTasks" =>
               c.slots = Vacated(b.slots, claims[k].slot)
      BY <2>5, LeavesEffect
    <3>2. Live(c) => Live(b)
      BY <3>1 DEF Live
    <3> QED BY <1>0, <1>2, <1>4, <1>7, <3>1, <3>2 DEF Falls
  <2>6. ASSUME NEW k \in ClaimKey, k[1] = id, Resets(k)
        PROVE  Falls(b, c)
    <3>1. /\ b.terms.mode = "None" => c.status = "New"
          /\ b.terms.mode = "Contest" =>
               c.status = b.status \/ b.status = "ManyClaimed"
          /\ b.terms.mode = "OneForAll" =>
               c.paid_slots = b.paid_slots /\ c.status = PausedStatus(b)
          /\ b.terms.mode = "DifferentTasks" =>
               /\ c.slots = Vacated(b.slots, claims[k].slot)
               /\ c.status = b.status \/ c.status = "New"
      BY <2>6, ResetsEffect
    <3>2. /\ claims[k].status \in {"InProgress", "Competes", "Completed",
                                   "Rejected", "Disputed"}
          /\ claims[k].status \notin {"InProgress", "Competes"} =>
               b.status \in Running
      BY <2>6, ResetsFacts
    <3>3. CASE b.status \in Running
      <4>1. Live(b)
        BY <3>3 DEF Live
      <4> QED BY <1>0, <1>2, <1>4, <3>1, <4>1 DEF Falls
    <3>4. CASE b.status \notin Running /\ b.terms.mode \in {"Contest", "OneForAll"}
      <4>1. c.status = b.status
        BY <3>1, <3>4 DEF PausedStatus, Running
      <4>2. Live(c) => Live(b)
        BY <4>1 DEF Live
      <4> QED BY <1>0, <1>2, <1>4, <3>1, <3>4, <4>2 DEF Falls
    <3>5. CASE b.status \notin Running /\ b.terms.mode \in {"None", "DifferentTasks"}
      <4>1. claims[k].status = "InProgress"
        <5>1. claims[k].status = "Competes" => b.terms.mode = "Contest"
          BY <2>6 DEF Course, ClaimFits
        <5> QED BY <3>2, <3>5, <5>1
      <4>2. k \in ClaimsOf(id, {"InProgress"})
        BY <2>6, <4>1 DEF ClaimsOf
      <4>3. b.status \notin {"New", "Canceled"}
        BY <3>5, <4>2 DEF Steady, Idle, Mode, Status
      <4>4. b.status = "Completed"
        <5>1. StatusFits(id)
          BY DEF Course
        <5>2. b.status \in BountyStatus
          BY <1>0, BountyTypes
        <5> QED BY <1>0, <3>5, <4>3, <5>1, <5>2
                DEF StatusFits, Running, BountyStatus
      <4>5. CASE b.terms.mode = "None"
        <5>1. ClaimedWhenActive
          BY WorkHires DEF Course
        <5>2. ClaimsOf(id, Active) # {}
          BY <2>6, <4>1 DEF ClaimsOf, Active
        <5> QED BY <1>0, <4>4, <4>5, <5>1, <5>2
                DEF ClaimedWhenActive, HasMode, Status, Mode
      <4>6. CASE b.terms.mode = "DifferentTasks"
        <5>1. Finished(id)
          BY <1>0, <4>4, <4>6 DEF Course, TasksRun, HasMode, Status, Mode
        <5>2. k \in ClaimsOf(id, Unsettled)
          BY <2>6, <4>1 DEF ClaimsOf, Unsettled
        <5> QED BY <5>1, <5>2 DEF Finished
      <4> QED BY <3>5, <4>5, <4>6
    <3> QED BY <1>0, <3>3, <3>4, <3>5 DEF Modes
  <2>7. ASSUME NEW k \in ClaimKey, k[1] = id, Pays(k)
        PROVE  Falls(b, c)
    <3>1. /\ b.status \in Running
          /\ b.terms.mode = "OneForAll" => c.paid_slots = b.paid_slots + 1
      BY <2>7, PaysEffect
    <3>2. Live(b)
      BY <3>1 DEF Live
    <3> QED BY <1>0, <1>2, <1>4, <3>1, <3>2 DEF Falls
  <2>8. ASSUME NEW k \in ClaimKey, k[1] = id, Withdraws(k)
        PROVE  Falls(b, c)
    <3>1. /\ b.terms.mode = "DifferentTasks"
          /\ b.status \in {"Completed", "Canceled"}
          /\ c.status = b.status /\ c.slots = Vacated(b.slots, claims[k].slot)
      BY <2>8, WithdrawsEffect
    <3>2. Live(c) => Live(b)
      BY <3>1 DEF Live
    <3> QED BY <1>2, <1>4, <1>7, <3>1, <3>2 DEF Falls
  <2> QED BY <1>8, <2>1, <2>2, <2>3, <2>4, <2>5, <2>6, <2>7, <2>8 DEF Moves
<1> QED BY <1>1, <1>6, <1>8

(* What is known of a bounty stays so, ...                                 *)
LEMMA NoFeesKept ==
  ASSUME Course, Course', ClaimsStep, NEW id \in BountyId, NoFees(id)
  PROVE  NoFees(id)'
<1> PICK b, c : b = bounties[id] /\ c = bounties'[id]
  OBVIOUS
<1>1. Spared(id) \/ CalmEvents(id) \/ Moves(id)
  BY EventKinds DEF Course, Work
<1>2. CASE Status(id) # "Absent"
  <2>1. SameReward(b, c)
    BY <1>1, <1>2, RewardStays
  <2> QED BY <1>2, <2>1 DEF NoFees, SameReward, SameFees
<1>3. CASE Begins(id)
  <2>1. PICK t \in Terms : c = NewBounty(t, config)
    BY <1>3, BeginsFacts
  <2>2. /\ c.terms = t
        /\ c.platform_fee = PlatformFee(t, config)
        /\ c.dao_fee = DaoFee(t, config)
    BY <2>1, Zenon DEF NewBounty, NoBounty
  <2>3. t.postpaid => PlatformFee(t, config) = 0 /\ DaoFee(t, config) = 0
    BY DEF PlatformFee, DaoFee
  <2> QED BY <2>2, <2>3 DEF NoFees
<1>4. CASE Status(id) = "Absent" /\ ~Begins(id)
  <2>1. Calm(id)
    BY <1>1, <1>4, MoveTerms, SparedCalm, CalmFacts
  <2>2. Status(id)' = "Absent"
    BY <1>4, <2>1 DEF Calm, SameRun, Status
  <2> QED BY <2>2 DEF NoFees
<1> QED BY <1>2, <1>3, <1>4

(* A deposit is made once, with the shares that make it up.                *)
LEMMA FundedKept ==
  ASSUME Course, Course', ClaimsStep, NEW id \in BountyId, Funded(id)
  PROVE  Funded(id)'
<1> PICK b, c : b = bounties[id] /\ c = bounties'[id]
  OBVIOUS
<1>1. Spared(id) \/ CalmEvents(id) \/ Moves(id)
  BY EventKinds DEF Course, Work
<1>2. CASE Status(id) # "Absent"
  <2>1. SameReward(b, c)
    BY <1>1, <1>2, RewardStays
  <2>2. UsedPlaces(c) = UsedPlaces(b)
    BY <2>1 DEF SameReward, UsedPlaces
  <2> QED BY <1>2, <2>1, <2>2 DEF Funded, SameReward, Mode
<1>3. CASE Begins(id)
  <2>1. PICK t \in Terms : /\ ValidTerms(t, NewBounty(t, config).amount, now)
                           /\ c = NewBounty(t, config)
    BY <1>3, BeginsFacts
  <2>2. c.terms = t
    BY <2>1, NewFields
  <2>3. c.amount > 0 /\ (t.mode = "Contest" => TotalShare(t) = c.amount)
    BY <2>1 DEF ValidTerms
  <2>4. TotalShare(t) = Total(c.terms.shares, UsedPlaces(c))
    BY <2>2, ShareTotal DEF UsedPlaces
  <2> QED BY <2>2, <2>3, <2>4 DEF Funded, Mode
<1>4. CASE Status(id) = "Absent" /\ ~Begins(id)
  <2>1. Calm(id)
    BY <1>1, <1>4, MoveTerms, SparedCalm, CalmFacts
  <2>2. Status(id)' = "Absent"
    BY <1>4, <2>1 DEF Calm, SameRun, Status
  <2> QED BY <2>2 DEF Funded
<1> QED BY <1>2, <1>3, <1>4

(* A slot is paid when its claim is approved: the bounty is not New then.  *)
LEMMA UnpaidKept ==
  ASSUME Course, Course', ClaimsStep, NEW id \in BountyId, Unpaid(id)
  PROVE  Unpaid(id)'
<1> PICK b, c : b = bounties[id] /\ c = bounties'[id]
  OBVIOUS
<1>1. Spared(id) \/ CalmEvents(id) \/ Moves(id)
  BY EventKinds DEF Course, Work
<1>2. CASE Begins(id)
  <2>1. c.paid_slots = 0
    BY <1>2, BegunFields DEF Course, Work
  <2> QED BY <2>1 DEF Unpaid
<1>3. CASE ~Begins(id)
  <2> SUFFICES ASSUME HasMode(id, "OneForAll")', c.status = "New"
               PROVE  c.paid_slots = 0
    BY DEF Unpaid, Status
  <2>1. Calm(id) \/ Moves(id)
    BY <1>1, SparedCalm, CalmFacts
  <2>2. HasMode(id, "OneForAll")
    BY <1>3, <2>1, ModeBefore
  <2>3. b.terms.mode = "OneForAll" /\ (b.status = "New" => b.paid_slots = 0)
    BY <2>2 DEF HasMode, Mode, Status, Unpaid
  <2>4. CASE Calm(id)
    BY <2>3, <2>4 DEF Calm, SameRun
  <2>5. CASE start_competition(id)
    BY <2>3, <2>5, StartFacts
  <2>6. CASE Cancels(id) \/ Accepts(id)
    <3>1. c.status # "New"
      BY <2>6, StatusEffect
    <3> QED BY <3>1
  <2>7. ASSUME NEW k \in ClaimKey, k[1] = id, Admits(k)
        PROVE  c.paid_slots = 0
    <3>1. PICK s \in Places \cup {Nil} : Admitted(k, s)
      BY <2>7, AdmitsFacts
    <3>2. c.status = StatusOnApproval(b, k, s) /\ c.paid_slots = b.paid_slots
      BY <2>3, <2>7, <3>1, AdmitsEffect
    <3>3. b.status = "New"
      BY <2>3, <3>2 DEF StatusOnApproval
    <3> QED BY <2>3, <3>2, <3>3
  <2>8. ASSUME NEW k \in ClaimKey, k[1] = id, Leaves(k)
        PROVE  c.paid_slots = 0
    <3>1. c.status = b.status /\ c.paid_slots = b.paid_slots
      BY <2>3, <2>8, LeavesEffect
    <3> QED BY <2>3, <3>1
  <2>9. ASSUME NEW k \in ClaimKey, k[1] = id, Resets(k)
        PROVE  c.paid_slots = 0
    <3>1. c.status = PausedStatus(b) /\ c.paid_slots = b.paid_slots
      BY <2>3, <2>9, ResetsEffect
    <3> QED BY <2>3, <3>1 DEF PausedStatus
  <2>10. ASSUME NEW k \in ClaimKey, k[1] = id, Pays(k)
         PROVE  c.paid_slots = 0
    <3>1. c.status = SlotPaidStatus(b) /\ b.status \in Running
      BY <2>3, <2>10, PaysEffect
    <3> QED BY <3>1 DEF SlotPaidStatus, Running
  <2>11. ASSUME NEW k \in ClaimKey, k[1] = id, Withdraws(k)
         PROVE  c.paid_slots = 0
    BY <2>3, <2>11, WithdrawsEffect
  <2> QED BY <1>3, <2>1, <2>4, <2>5, <2>6, <2>7, <2>8, <2>9, <2>10, <2>11
          DEF Moves
<1> QED BY <1>2, <1>3

(* A claimant starts on a bounty that is claimed, and one that is claimed  *)
(* does not become New while somebody works on it.                         *)
LEMMA IdleKept ==
  ASSUME Course, Course', ClaimsStep, NEW id \in BountyId, Idle(id),
         Cancels(id) => Status(id) \in {"New", "AwaitingClaims"}
  PROVE  Idle(id)'
<1> PICK b, c : b = bounties[id] /\ c = bounties'[id]
  OBVIOUS
<1> SUFFICES ASSUME c.terms.mode \in {"None", "DifferentTasks"},
                    c.status \in {"New", "Canceled"},
                    NEW k \in ClaimKey, k[1] = id,
                    claims'[k].status = "InProgress"
             PROVE  FALSE
  BY DEF Idle, Mode, Status, ClaimsOf
<1>1. Spared(id) \/ CalmEvents(id) \/ Moves(id)
  BY EventKinds DEF Course, Work
<1>2. claims[k].status = "InProgress"
  <2>1. c.status \notin Running
    BY DEF Running
  <2> QED BY <2>1, WorkRuns DEF Course, Work, Status
<1>3. Status(id) # "Absent"
  BY <1>2 DEF Course, Work, Shape, Unborn, Status
<1>4. ~Begins(id)
  BY <1>3 DEF Begins
<1>5. c.terms.mode = b.terms.mode
  BY <1>1, <1>3, RewardStays DEF SameReward
<1>6. b.status \notin {"New", "Canceled", "AwaitingClaims", "PartiallyCompleted"}
  <2>1. StatusFits(id)
    BY DEF Course
  <2>2. k \in ClaimsOf(id, {"InProgress"})
    BY <1>2 DEF ClaimsOf
  <2> QED BY <1>5, <2>1, <2>2 DEF StatusFits, Idle, Mode, Status
<1>7. CASE Calm(id)
  BY <1>6, <1>7 DEF Calm, SameRun
<1>8. CASE c.terms.mode = "None" /\ c.status = "New"
  <2>1. ClaimedWhenActive'
    <3>1. Work' => ClaimedWhenActive'
      BY WorkHires, PTL
    <3> QED BY <3>1 DEF Course
  <2>2. HasMode(id, "None")' /\ Status(id)' = "New" /\ ClaimsOf(id, Active)' # {}
    BY <1>8 DEF HasMode, Mode, Status, ClaimsOf, Active
  <2> QED BY <2>1, <2>2 DEF ClaimedWhenActive
<1>9. CASE start_competition(id)
  BY <1>6, <1>9, StartFacts
<1>10. CASE Cancels(id) \/ Accepts(id)
  <2>1. c.status = IF ~Cancels(id) THEN "Completed"
                   ELSE IF b.status = "AwaitingClaims"
                   THEN "PartiallyCompleted" ELSE "Canceled"
    BY <1>10, StatusEffect
  <2> QED BY <1>6, <2>1 DEF Status
<1>11. ASSUME NEW j \in ClaimKey, j[1] = id, Admits(j)
       PROVE  FALSE
  <2>1. PICK s \in Places \cup {Nil} : Admitted(j, s)
    BY <1>11, AdmitsFacts
  <2>2. c.status = StatusOnApproval(b, j, s)
    BY <1>11, <2>1, AdmitsEffect
  <2> QED BY <1>6, <2>2 DEF StatusOnApproval
<1>12. ASSUME NEW j \in ClaimKey, j[1] = id, Leaves(j)
       PROVE  FALSE
  <2>1. c.status = b.status
    BY <1>12, LeavesEffect
  <2> QED BY <1>6, <2>1
<1>13. ASSUME NEW j \in ClaimKey, j[1] = id, Resets(j), c.terms.mode # "None"
       PROVE  FALSE
  <2>1. c.terms.mode = "DifferentTasks" /\ b.terms.mode = "DifferentTasks"
    BY <1>5, <1>13
  <2>2. \/ c.status = b.status
        \/ /\ c.status = "New"
           /\ \A s \in UsedPlaces(b) : c.slots[s] = Nil
    BY <1>13, <2>1, ResetsEffect
  <2>3. \A s \in UsedPlaces(c) : c.slots[s] = Nil
    <3>1. c.terms.slots = b.terms.slots
      BY <1>1, <1>3, RewardStays DEF SameReward
    <3> QED BY <1>6, <2>2, <3>1 DEF UsedPlaces
  <2>4. c.slots[claims'[k].slot] = k
    <3>1. TasksRun(id)' /\ HasMode(id, "DifferentTasks")'
      BY <2>1 DEF Course, HasMode, Mode, Status
    <3>2. ClaimNames(id)'
      BY <3>1 DEF TasksRun
    <3>3. k \in ClaimsOf(id, Holding)'
      BY DEF ClaimsOf, Holding, Occupying
    <3> QED BY <3>2, <3>3 DEF ClaimNames
  <2>5. claims'[k].slot \in UsedPlaces(c)
    BY <2>1 DEF Course, Work, Shape, SlotsNamed, Mode
  <2>6. k # Nil
    BY NilAssumption
  <2> QED BY <2>3, <2>4, <2>5, <2>6
<1>14. ASSUME NEW j \in ClaimKey, j[1] = id, Resets(j), c.terms.mode = "None"
       PROVE  FALSE
  <2>1. c.status = "New"
    BY <1>5, <1>14, ResetsEffect
  <2> QED BY <1>8, <1>14, <2>1
<1>15. ASSUME NEW j \in ClaimKey, j[1] = id, Pays(j)
       PROVE  FALSE
  <2>1. b.terms.mode \in {"None", "Contest", "OneForAll"}
        /\ (b.terms.mode = "None" => c.status = "Completed")
    BY <1>15, PaysEffect
  <2> QED BY <1>5, <2>1
<1>16. ASSUME NEW j \in ClaimKey, j[1] = id, Withdraws(j)
       PROVE  FALSE
  <2>1. c.status = b.status
    BY <1>16, WithdrawsEffect
  <2> QED BY <1>6, <2>1
<1> QED BY <1>1, <1>4, <1>7, <1>9, <1>10, <1>11, <1>12, <1>13, <1>14, <1>15,
           <1>16, SparedCalm, CalmFacts DEF Moves

(* A bounty stays in order in every step.                                  *)
LEMMA SteadyKept ==
  ASSUME Course, Course', ClaimsStep, NEW id \in BountyId, Steady(id),
         Cancels(id) => Status(id) \in {"New", "AwaitingClaims"}
  PROVE  Steady(id)'
BY NoFeesKept, FundedKept, UnpaidKept, IdleKept DEF Steady

(* SaneBounty for all bounties, as a state predicate that can be primed.   *)
SaneRecords == \A id \in BountyId : NoFees(id) => Sane(bounties[id])

LEMMA SaneThere == Course => SaneRecords
BY SaneBounty DEF SaneRecords

(* The records are sane before and after a step.                           *)
LEMMA SaneAfter ==
  ASSUME Course, Course', NEW id \in BountyId, NoFees(id), NoFees(id)'
  PROVE  Sane(bounties[id]) /\ Sane(bounties'[id])
<1>1. Course' => SaneRecords'
  BY SaneThere, PTL
<1> QED BY <1>1, SaneBounty DEF SaneRecords

(* What is due for a bounty goes down by what is paid.                     *)
Lowers(b, c, pay, fee, dao) ==
  /\ Due(c) + pay <= Due(b)
  /\ FeeDue(c, c.platform_fee) + fee <= FeeDue(b, b.platform_fee)
  /\ FeeDue(c, c.dao_fee) + dao <= FeeDue(b, b.dao_fee)

(* A bounty that is not there costs nothing.                               *)
LEMMA AbsentDue ==
  ASSUME NEW b, b.status = "Absent"
  PROVE  /\ Due(b) = 0
         /\ FeeDue(b, b.platform_fee) = 0 /\ FeeDue(b, b.dao_fee) = 0
<1>1. ~Live(b)
  BY DEF Live, Running
<1> QED BY <1>1, FeeDueIs DEF Due

(* The money of a new bounty.                                              *)
LEMMA NewMoney ==
  ASSUME NEW t, NEW cfg, NEW c \in Bounty, c = NewBounty(t, cfg), t.deposit \in Nat
  PROVE  /\ c.amount + c.platform_fee + c.dao_fee = t.deposit
         /\ c.paid_slots = 0 /\ \A p \in Places : c.winners[p] = Nil
         /\ c.status = "New" /\ c.terms = t
<1>1. /\ c.amount = t.deposit - PlatformFee(t, cfg) - DaoFee(t, cfg)
      /\ c.platform_fee = PlatformFee(t, cfg)
      /\ c.dao_fee = DaoFee(t, cfg)
      /\ \A p \in Places : c.winners[p] = Nil
  BY Zenon DEF NewBounty, NoBounty
<1>2. c.paid_slots = 0 /\ c.status = "New" /\ c.terms = t
  BY NewFields
<1>3. c.amount \in Nat /\ c.platform_fee \in Nat /\ c.dao_fee \in Nat
  BY BountyTypes
<1> QED BY <1>1, <1>2, <1>3

(* What a new bounty brings is what is set aside for it.                   *)
LEMMA OpenDue ==
  ASSUME NEW t, NEW cfg, NEW time, NEW c, Sane(c), c = NewBounty(t, cfg),
         t.deposit \in Nat, ~t.postpaid, ValidTerms(t, c.amount, time)
  PROVE  /\ Due(c) = c.amount
         /\ FeeDue(c, c.platform_fee) <= c.platform_fee
         /\ FeeDue(c, c.dao_fee) <= c.dao_fee
<1>1. c \in Bounty
  BY DEF Sane
<1>2. /\ c.paid_slots = 0 /\ \A p \in Places : c.winners[p] = Nil
      /\ c.status = "New" /\ c.terms = t
  BY <1>1, NewMoney
<1>3. /\ c.amount \in Nat /\ c.platform_fee \in Nat /\ c.dao_fee \in Nat
      /\ c.terms.mode \in Modes /\ c.terms.slots \in Nat /\ c.terms.slots > 0
      /\ UsedPlaces(c) \subseteq Places
  BY <1>1, BountyTypes
<1>4. Live(c) /\ Due(c) = RewardLeft(c)
  BY <1>2 DEF Live, Due
<1>5. ASSUME NEW x \in Nat
      PROVE  PartsLeft(x, c.terms.slots, c.paid_slots) = x
  BY <1>2, <1>3, PartsLeftSteps
<1>6. CASE c.terms.mode = "OneForAll"
  <2>1. Due(c) = PartsLeft(c.amount, c.terms.slots, c.paid_slots)
    BY <1>4, <1>6 DEF RewardLeft
  <2>2. ASSUME NEW fee
        PROVE  FeeDue(c, fee) = PartsLeft(fee, c.terms.slots, c.paid_slots)
    BY <1>4, <1>6, FeeDueIs
  <2> QED BY <1>3, <1>5, <2>1, <2>2
<1>7. CASE c.terms.mode = "Contest"
  <2>1. FreePrizes(c) = UsedPlaces(c)
    BY <1>2, <1>3 DEF FreePrizes
  <2>2. Due(c) = Total(c.terms.shares, UsedPlaces(c))
    BY <1>4, <1>7, <2>1 DEF RewardLeft
  <2>3. TotalShare(t) = c.amount
    BY <1>2, <1>7 DEF ValidTerms
  <2>4. TotalShare(t) = Total(c.terms.shares, UsedPlaces(c))
    BY <1>2, ShareTotal DEF UsedPlaces
  <2>5. ASSUME NEW fee \in Nat
        PROVE  FeeDue(c, fee) <= fee
    <3>1. FeeDue(c, fee) = (fee \div c.terms.slots)
                             * Cardinality(FreePrizes(c))
      BY <1>4, <1>7, FeeDueIs
    <3>2. /\ Cardinality(FreePrizes(c)) \in Nat
          /\ Cardinality(FreePrizes(c)) <= c.terms.slots
      BY <1>1, FreeFacts
    <3>3. (fee \div c.terms.slots) * Cardinality(FreePrizes(c)) <= fee
      BY <1>3, <3>2, ContestFee
    <3> QED BY <3>1, <3>3
  <2> QED BY <1>3, <2>2, <2>3, <2>4, <2>5
<1>8. CASE c.terms.mode \in {"None", "DifferentTasks"}
  <2>1. Due(c) = c.amount
    BY <1>4, <1>8 DEF RewardLeft
  <2>2. ASSUME NEW fee PROVE FeeDue(c, fee) = fee
    BY <1>4, <1>8, FeeDueIs
  <2> QED BY <1>3, <2>1, <2>2
<1> QED BY <1>3, <1>6, <1>7, <1>8 DEF Modes

(* A step in which no tokens come takes nothing from what is set aside.    *)
LEMMA NoneMore ==
  ASSUME Course, Course', ClaimsStep, NEW id \in BountyId,
         Steady(id), NoFees(id)', held' <= held
  PROVE  Lowers(bounties[id], bounties'[id], 0, 0, 0)
<1> PICK b, c : b = bounties[id] /\ c = bounties'[id]
  OBVIOUS
<1>1. Sane(b) /\ Sane(c) /\ Shape'
  BY SaneAfter DEF Steady, Course, Work
<1>2. /\ Due(b) \in Nat /\ Due(c) \in Nat
      /\ FeeDue(b, b.platform_fee) \in Nat /\ FeeDue(b, b.dao_fee) \in Nat
      /\ FeeDue(c, c.platform_fee) \in Nat /\ FeeDue(c, c.dao_fee) \in Nat
  BY <1>1, DueNat
<1>3. CASE Status(id) # "Absent"
  <2>1. Falls(b, c)
    BY <1>3, EventFalls
  <2> QED BY <1>1, <1>2, <2>1, DueFalls DEF Lowers
<1>4. ASSUME /\ Due(c) = 0
             /\ FeeDue(c, c.platform_fee) = 0 /\ FeeDue(c, c.dao_fee) = 0
      PROVE  Lowers(b, c, 0, 0, 0)
  BY <1>2, <1>4 DEF Lowers
<1>5. CASE Begins(id)
  <2>1. PICK t \in Offers :
          /\ ValidTerms(t, NewBounty(t, config).amount, now)
          /\ bounties' = [bounties EXCEPT ![id] = NewBounty(t, config)]
          /\ ~t.postpaid => held' = held + t.deposit
    BY <1>5 DEF Begins
  <2>2. c = NewBounty(t, config) /\ t.deposit \in Nat
    <3>1. bounties \in [BountyId -> Bounty] /\ t \in Terms
      BY OffersAssumption DEF Course, Work, Shape, TypeOK
    <3> QED BY <2>1, <3>1 DEF Terms
  <2>3. c \in Bounty
    BY <1>1 DEF Sane
  <2>4. c.amount + c.platform_fee + c.dao_fee = t.deposit /\ c.terms = t
    BY <2>2, <2>3, NewMoney
  <2>5. c.amount \in Nat /\ c.platform_fee \in Nat /\ c.dao_fee \in Nat
    BY <2>3, BountyTypes
  <2>6. c.amount > 0
    BY <2>1, <2>2 DEF ValidTerms
  <2>7. held \in Nat /\ held' \in Nat
    BY DEF Course, Work, Shape, TypeOK
  <2>8. t.postpaid
    BY <2>1, <2>2, <2>4, <2>5, <2>6, <2>7
  <2> QED BY <1>1, <1>4, <2>4, <2>8, PostpaidDue
<1>6. CASE Status(id) = "Absent" /\ ~Begins(id)
  <2>1. Calm(id)
    BY <1>1, <1>6, EventKinds, MoveTerms, SparedCalm, CalmFacts
  <2>2. c.status = "Absent"
    BY <1>6, <2>1 DEF Calm, SameRun, Status
  <2> QED BY <1>4, <2>2, AbsentDue
<1> QED BY <1>3, <1>5, <1>6

(* A payout takes away what it pays.                                       *)
LastSlot(b) == b.occupied_slots = 1 /\ b.paid_slots = b.terms.slots - 1

(* The last slot is paid with what the division of the reward left over,   *)
(* ...                                                                     *)
LEMMA LastSlotPay ==
  ASSUME NEW b, NEW place, ~b.terms.postpaid, b.terms.mode = "OneForAll",
         LastSlot(b),
         NEW a, a = AmountsForPayment(b, place), NEW n, n = b.terms.slots
  PROVE  /\ a.pay = b.amount - (b.amount \div n) * (n - 1)
         /\ a.fee = b.platform_fee - (b.platform_fee \div n) * (n - 1)
         /\ a.dao = b.dao_fee - (b.dao_fee \div n) * (n - 1)
BY DEF AmountsForPayment, LastSlot

(* ... any other slot with one equal part, ...                             *)
LEMMA SlotPay ==
  ASSUME NEW b, NEW place, ~b.terms.postpaid, b.terms.mode = "OneForAll",
         ~LastSlot(b),
         NEW a, a = AmountsForPayment(b, place), NEW n, n = b.terms.slots
  PROVE  /\ a.pay = b.amount \div n /\ a.fee = b.platform_fee \div n
         /\ a.dao = b.dao_fee \div n
BY DEF AmountsForPayment, LastSlot

(* ... and a bounty for one claimant is paid in full.                      *)
LEMMA PlainPay ==
  ASSUME NEW b, NEW place, ~b.terms.postpaid, b.terms.mode # "OneForAll",
         NEW a, a = AmountsForPayment(b, place)
  PROVE  /\ b.terms.mode = "Contest" =>
              /\ a.pay = b.terms.shares[place]
              /\ a.fee = b.platform_fee \div b.terms.slots
              /\ a.dao = b.dao_fee \div b.terms.slots
         /\ b.terms.mode # "Contest" =>
              a.pay = b.amount /\ a.fee = b.platform_fee /\ a.dao = b.dao_fee
BY DEF AmountsForPayment

(* So what is due for a bounty falls by what a payout pays.                *)
LEMMA PaidDrops ==
  ASSUME NEW b, NEW c, Sane(b), Sane(c), NEW k \in ClaimKey, NEW place,
         c = PaidBounty(b, k, place), ~b.terms.postpaid,
         b.status \in Running, b.terms.mode # "DifferentTasks",
         b.terms.mode = "Contest" =>
           place \in UsedPlaces(b) /\ b.winners[place] = Nil,
         b.terms.mode = "OneForAll" =>
           /\ b.occupied_slots >= 1
           /\ b.occupied_slots + b.paid_slots <= b.terms.slots,
         NEW a, a = AmountsForPayment(b, place)
  PROVE  Lowers(b, c, a.pay, a.fee, a.dao)
<1>1. /\ b \in Bounty /\ c \in Bounty
      /\ c.terms = b.terms /\ c.amount = b.amount /\ SameFees(b, c)
      /\ UsedPlaces(c) = UsedPlaces(b)
  <2>1. b \in Bounty /\ c \in Bounty
    BY DEF Sane
  <2>2. c.terms = b.terms /\ c.amount = b.amount /\ SameFees(b, c)
    BY <2>1, PaidFields, PaidReward
  <2> QED BY <2>1, <2>2 DEF UsedPlaces
<1>2. /\ b.terms.mode \in Modes /\ b.terms.slots \in Nat /\ b.terms.slots > 0
      /\ b.amount \in Nat /\ b.platform_fee \in Nat /\ b.dao_fee \in Nat
      /\ b.paid_slots \in Nat /\ b.occupied_slots \in Int
      /\ \A p \in UsedPlaces(b) : b.terms.shares[p] \in Nat
      /\ c.platform_fee = b.platform_fee /\ c.dao_fee = b.dao_fee
  BY <1>1, BountyTypes DEF SameFees
<1>3. Live(b) /\ Due(b) = RewardLeft(b)
  BY DEF Live, Due
<1>4. CASE b.terms.mode = "None"
  <2>1. c.status = "Completed"
    BY <1>1, <1>4, PaidFields
  <2>2. ~Live(c)
    BY <2>1 DEF Live, Running
  <2>3. /\ Due(c) = 0
        /\ FeeDue(c, c.platform_fee) = 0 /\ FeeDue(c, c.dao_fee) = 0
    BY <1>1, <1>4, <2>2, FeeDueIs DEF Due
  <2>4. /\ Due(b) = b.amount
        /\ FeeDue(b, b.platform_fee) = b.platform_fee
        /\ FeeDue(b, b.dao_fee) = b.dao_fee
    BY <1>3, <1>4, FeeDueIs DEF RewardLeft
  <2>5. a.pay = b.amount /\ a.fee = b.platform_fee /\ a.dao = b.dao_fee
    BY <1>4, PlainPay
  <2> QED BY <1>2, <2>3, <2>4, <2>5 DEF Lowers
<1>5. CASE b.terms.mode = "OneForAll"
  <2> PICK n \in Nat, m \in Nat : n = b.terms.slots /\ m = b.paid_slots /\ n > 0
    BY <1>2
  <2>1. m + 1 <= n
    BY <1>2, <1>5
  <2>2. c.paid_slots = m + 1 /\ c.status = SlotPaidStatus(b)
    BY <1>1, <1>5, PaidFields
  <2>3. /\ Due(b) = PartsLeft(b.amount, n, m)
        /\ FeeDue(b, b.platform_fee) = PartsLeft(b.platform_fee, n, m)
        /\ FeeDue(b, b.dao_fee) = PartsLeft(b.dao_fee, n, m)
    BY <1>3, <1>5, FeeDueIs DEF RewardLeft
  <2>4. CASE LastSlot(b)
    <3>1. m = n - 1 /\ m + 1 = n /\ b.occupied_slots = 1
      BY <2>4 DEF LastSlot
    <3>2. c.status = "Completed"
      BY <2>2, <3>1 DEF SlotPaidStatus
    <3>3. ~Live(c)
      BY <3>2 DEF Live, Running
    <3>4. /\ Due(c) = 0
          /\ FeeDue(c, c.platform_fee) = 0 /\ FeeDue(c, c.dao_fee) = 0
      BY <1>1, <1>5, <3>3, FeeDueIs DEF Due
    <3>5. ASSUME NEW x \in Nat
          PROVE  /\ PartsLeft(x, n, m) = x - (x \div n) * (n - 1)
                 /\ PartsLeft(x, n, m) \in Nat
      <4>1. m <= n
        BY <2>1
      <4>2. PartsLeft(x, n, n - 1) = x - (x \div n) * (n - 1)
        BY <4>1, PartsLeftSteps
      <4>3. PartsLeft(x, n, m) \in Nat
        BY <4>1, PartsLeftNat
      <4> QED BY <3>1, <4>2, <4>3
    <3>6. /\ a.pay = b.amount - (b.amount \div n) * (n - 1)
          /\ a.fee = b.platform_fee - (b.platform_fee \div n) * (n - 1)
          /\ a.dao = b.dao_fee - (b.dao_fee \div n) * (n - 1)
      BY <1>5, <2>4, LastSlotPay
    <3>7. /\ a.pay = PartsLeft(b.amount, n, m)
          /\ a.fee = PartsLeft(b.platform_fee, n, m)
          /\ a.dao = PartsLeft(b.dao_fee, n, m)
      BY <1>2, <3>5, <3>6
    <3>8. /\ PartsLeft(b.amount, n, m) \in Nat
          /\ PartsLeft(b.platform_fee, n, m) \in Nat
          /\ PartsLeft(b.dao_fee, n, m) \in Nat
      BY <1>2, <3>5
    <3> QED BY <2>3, <3>4, <3>7, <3>8 DEF Lowers
  <2>5. CASE ~LastSlot(b)
    <3>1. c.status = b.status \/ c.status = "AwaitingClaims"
      BY <1>2, <2>2, <2>5 DEF SlotPaidStatus, LastSlot
    <3>2. Live(c)
      BY <3>1 DEF Live
    <3>3. /\ Due(c) = PartsLeft(b.amount, n, m + 1)
          /\ FeeDue(c, c.platform_fee) = PartsLeft(b.platform_fee, n, m + 1)
          /\ FeeDue(c, c.dao_fee) = PartsLeft(b.dao_fee, n, m + 1)
      BY <1>1, <1>2, <1>5, <2>2, <3>2, FeeDueIs DEF RewardLeft, Due
    <3>4. ASSUME NEW x \in Nat
          PROVE  /\ PartsLeft(x, n, m + 1) = PartsLeft(x, n, m) - (x \div n)
                 /\ PartsLeft(x, n, m) \in Nat /\ x \div n \in Nat
      <4>1. m <= n
        BY <2>1
      <4> QED BY <4>1, PartsLeftSteps, PartsLeftNat
    <3>5. /\ a.pay = b.amount \div n /\ a.fee = b.platform_fee \div n
          /\ a.dao = b.dao_fee \div n
      BY <1>5, <2>5, SlotPay
    <3> DEFINE Step1(x) == PartsLeft(x, n, m + 1) + (x \div n) = PartsLeft(x, n, m)
    <3>6. \A x \in Nat : Step1(x)
      BY <3>4
    <3>7. Step1(b.amount) /\ Step1(b.platform_fee) /\ Step1(b.dao_fee)
      BY <1>2, <3>6
    <3>8. /\ Due(c) + a.pay = Due(b)
          /\ FeeDue(c, c.platform_fee) + a.fee = FeeDue(b, b.platform_fee)
          /\ FeeDue(c, c.dao_fee) + a.dao = FeeDue(b, b.dao_fee)
      BY <2>3, <3>3, <3>5, <3>7
    <3>9. /\ Due(b) \in Nat
          /\ FeeDue(b, b.platform_fee) \in Nat /\ FeeDue(b, b.dao_fee) \in Nat
      BY DueNat
    <3> QED BY <3>8, <3>9 DEF Lowers
  <2> QED BY <2>4, <2>5
<1>6. CASE b.terms.mode = "Contest"
  <2> DEFINE S == FreePrizes(b)
             T == FreePrizes(c)
             h == b.terms.shares
             n == b.terms.slots
  <2>1. place \in UsedPlaces(b) /\ b.winners[place] = Nil
    BY <1>6
  <2>2. c.winners = Taken(b.winners, place, k)
    BY <1>1, <1>6, PaidReward
  <2>3. place \in S /\ T = S \ {place}
    <3>1. b.winners \in [Places -> ClaimKey \cup {Nil}] /\ UsedPlaces(b) \subseteq Places
      BY <1>1, BountyTypes
    <3>2. \A p \in UsedPlaces(b) :
            c.winners[p] = IF p = place THEN k ELSE b.winners[p]
      BY <2>2, <3>1 DEF Taken
    <3>3. k # Nil
      BY NilAssumption
    <3> QED BY <1>1, <2>1, <3>2, <3>3 DEF FreePrizes
  <2>4. /\ IsFiniteSet(S) /\ S \in SUBSET UsedPlaces(b)
        /\ IsFiniteSet(T) /\ Cardinality(T) \in Nat /\ Cardinality(S) \in Nat
    BY <1>1, FreeFacts
  <2>5. Cardinality(S) = Cardinality(T) + 1
    <3>1. Cardinality(S \ {place}) = Cardinality(S) - 1
      BY <2>3, <2>4, FS_RemoveElement
    <3> QED BY <2>3, <2>4, <3>1
  <2>6. /\ Total(h, S) = h[place] + Total(h, T)
        /\ Total(h, T) \in Nat /\ h[place] \in Nat
    <3>1. \A p \in S : h[p] \in Nat
      BY <1>2, <2>4
    <3>2. Counts(h, S)
      BY <3>1 DEF Counts
    <3> HIDE DEF S, T, h
    <3>3. Total(h, S) = h[place] + Total(h, S \ {place})
      BY <2>3, <2>4, <3>2, TotalWithout
    <3>4. Total(h, T) \in Nat
      BY <2>3, <2>4, <3>1, TotalNat
    <3> QED BY <2>3, <3>1, <3>3, <3>4
  <2>7. /\ Due(b) = Total(h, S)
        /\ \A fee : FeeDue(b, fee) = (fee \div n) * Cardinality(S)
    BY <1>3, <1>6, FeeDueIs DEF RewardLeft
  <2>8. /\ a.pay = h[place] /\ a.fee = b.platform_fee \div n
        /\ a.dao = b.dao_fee \div n
    BY <1>6, PlainPay
  <2>9. \/ /\ Due(c) = Total(h, T)
           /\ \A fee : FeeDue(c, fee) = (fee \div n) * Cardinality(T)
        \/ Due(c) = 0 /\ \A fee : FeeDue(c, fee) = 0
    <3>1. CASE Live(c)
      BY <1>1, <1>6, <3>1, FeeDueIs DEF Due, RewardLeft
    <3>2. CASE ~Live(c)
      BY <1>1, <1>6, <3>2, FeeDueIs DEF Due
    <3> QED BY <3>1, <3>2
  <2> HIDE DEF S, T, h
  <2>10. Due(c) + a.pay <= Due(b)
    BY <2>6, <2>7, <2>8, <2>9
  <2>11. ASSUME NEW fee \in Nat
         PROVE  FeeDue(c, fee) + (fee \div n) <= FeeDue(b, fee)
    <3> DEFINE x == (fee \div n) * Cardinality(S)
               y == (fee \div n) * Cardinality(T)
    <3>1. /\ x = y + (fee \div n) /\ y \in Nat /\ x \in Nat
          /\ fee \div n \in Nat
      BY <1>2, <2>4, <2>5, ContestFee
    <3>2. FeeDue(b, fee) = x /\ (FeeDue(c, fee) = y \/ FeeDue(c, fee) = 0)
      BY <2>7, <2>9
    <3> HIDE DEF x, y
    <3> QED BY <3>1, <3>2
  <2> QED BY <1>2, <2>8, <2>10, <2>11 DEF Lowers
<1> QED BY <1>2, <1>4, <1>5, <1>6 DEF Modes

(* A subtask that is withdrawn takes its part, the last of them the rest.  *)
LEMMA WithdrawnDrops ==
  ASSUME Course, NEW k \in ClaimKey, NEW b, b = bounties[k[1]],
         NEW slot, slot = claims[k].slot, NEW c, c = ResetSlot(b, slot),
         Sane(b), Sane(c), b.terms.mode = "DifferentTasks",
         ~b.terms.postpaid, b.status = "Completed",
         claims[k].status \in {"Completed", "CompletedWithDispute"}
  PROVE  Lowers(b, c, PartialAmount(k, slot), 0, 0)
<1> PICK id : id = k[1]
  OBVIOUS
<1>1. id \in BountyId /\ b \in Bounty /\ c \in Bounty
  BY DEF ClaimKey, Sane
<1>2. /\ c.terms = b.terms /\ c.status = b.status
      /\ c.slots = Vacated(b.slots, slot) /\ c.amount = b.amount
      /\ UsedPlaces(c) = UsedPlaces(b) /\ PartOf(c) = PartOf(b)
  <2>1. /\ c.terms = b.terms /\ c.status = b.status
        /\ c.slots = Vacated(b.slots, slot)
    BY <1>1, ResetSlotFields
  <2>2. c.amount = b.amount
    BY <1>1, ResetSlotReward DEF SamePrize
  <2>3. UsedPlaces(c) = UsedPlaces(b)
    BY <2>1 DEF UsedPlaces
  <2> QED BY <2>1, <2>2, <2>3, Zenon DEF PartOf, TaskPart
<1>3. SlotNames(id) /\ ClaimNames(id) /\ Finished(id)
  BY <1>1 DEF Course, TasksRun, HasMode, Status, Mode
<1>4. slot \in UsedPlaces(b) /\ b.slots[slot] = k /\ k # Nil
  <2>1. slot \in UsedPlaces(b)
    BY <1>1 DEF Course, Work, Shape, SlotsNamed, Mode
  <2>2. k \in ClaimsOf(id, Holding)
    BY DEF ClaimsOf, Holding, Occupying
  <2>3. b.slots[slot] = k
    BY <1>3, <2>2 DEF ClaimNames
  <2> QED BY <2>1, <2>3, NilAssumption
<1> DEFINE A == FreeSlots(b)
           S == FreeSlots(c)
           f == PartOf(b)
<1>5. /\ slot \in S /\ A = S \ {slot} /\ S \in SUBSET UsedPlaces(b)
      /\ slot \notin A /\ A \in SUBSET UsedPlaces(b)
      /\ IsFiniteSet(S) /\ IsFiniteSet(A)
  <2>1. b.slots \in [Places -> ClaimKey \cup {Nil}] /\ UsedPlaces(b) \subseteq Places
    BY <1>1, BountyTypes
  <2>2. \A s \in UsedPlaces(b) :
          c.slots[s] = IF s = slot THEN Nil ELSE b.slots[s]
    BY <1>2, <1>4, <2>1 DEF Vacated
  <2>3. slot \in S /\ A = S \ {slot} /\ slot \notin A
    BY <1>2, <1>4, <2>2 DEF FreeSlots
  <2> QED BY <1>1, <1>2, <2>3, FreeFacts
<1>6. ~Live(b) /\ ~Live(c)
  BY <1>2 DEF Live, Running
<1>7. /\ Due(b) = b.amount - Total(f, A)
      /\ Due(c) = 0 \/ Due(c) = b.amount - Total(f, S)
      /\ S = UsedPlaces(b) => Due(c) = 0
  <2>1. A # UsedPlaces(b)
    BY <1>4, <1>5
  <2>2. Due(b) = TasksLeft(b) /\ Due(c) = TasksLeft(c)
    BY <1>2, <1>6 DEF Due
  <2>3. Due(b) = b.amount - Total(f, A)
    BY <2>1, <2>2 DEF TasksLeft
  <2>4. /\ S # UsedPlaces(b) => Due(c) = b.amount - Total(f, S)
        /\ S = UsedPlaces(b) => Due(c) = 0
    BY <1>2, <2>2 DEF TasksLeft
  <2> QED BY <2>3, <2>4
<1>8. /\ Total(f, S) \in Nat /\ Total(f, S) <= b.amount
      /\ Total(f, A) \in Nat /\ f[slot] \in Nat /\ b.amount \in Nat
      /\ Total(f, S) = f[slot] + Total(f, A)
  <2>1. SharesFit(b)
    BY DEF Sane
  <2>2. /\ Total(f, S) \in Nat /\ Total(f, S) <= b.amount
        /\ \A s \in S : f[s] \in Nat
    BY <1>1, <1>5, <2>1, PartsWithin
  <2>3. Total(f, A) \in Nat
    BY <1>1, <1>5, <2>1, PartsWithin
  <2>4. Counts(f, S)
    BY <2>2 DEF Counts
  <2>5. b.amount \in Nat
    BY <1>1, BountyTypes
  <2> HIDE DEF f, S, A
  <2>6. Total(f, S) = f[slot] + Total(f, S \ {slot})
    BY <1>5, <2>4, TotalWithout
  <2> QED BY <1>5, <2>2, <2>3, <2>5, <2>6
<1>9. \/ /\ S = UsedPlaces(b)
         /\ PartialAmount(k, slot) = b.amount - Total(f, A)
      \/ PartialAmount(k, slot) = f[slot]
  <2>1. CASE ClaimsOf(id, {"Completed", "CompletedWithDispute"}) \ {k} = {}
    <3>1. PartialAmount(k, slot) = b.amount - TaskParts(b, A)
      BY <2>1 DEF PartialAmount, FreeSlots
    <3>2. TaskParts(b, A) = Total(f, A)
      BY <1>5, PartsTotal
    <3>3. ASSUME NEW s \in UsedPlaces(b), s \notin A
          PROVE  s = slot
      <4> PICK j : j = b.slots[s]
        OBVIOUS
      <4>1. j # Nil
        BY <3>3 DEF FreeSlots
      <4>2. j[1] = id /\ claims[j].slot = s /\ claims[j].status \in Holding
        BY <1>3, <3>3, <4>1 DEF SlotNames
      <4>3. j \in ClaimKey
        BY <1>1, <3>3, <4>1, BountyTypes
      <4>4. claims[j].status \notin Unsettled
        BY <1>3, <4>2, <4>3 DEF Finished, ClaimsOf
      <4>5. j \in ClaimsOf(id, {"Completed", "CompletedWithDispute"})
        BY <4>2, <4>3, <4>4 DEF Holding, Occupying, Unsettled, ClaimsOf
      <4> QED BY <2>1, <4>2, <4>5
    <3>4. S = UsedPlaces(b)
      BY <1>4, <1>5, <3>3
    <3> QED BY <3>1, <3>2, <3>4
  <2>2. CASE ClaimsOf(id, {"Completed", "CompletedWithDispute"}) \ {k} # {}
    <3>1. PartialAmount(k, slot) = TaskPart(b, slot)
      BY <2>2 DEF PartialAmount
    <3> QED BY <1>4, <3>1, PartsAre
  <2> QED BY <2>1, <2>2
<1> HIDE DEF f, S, A
<1>10. Due(c) + PartialAmount(k, slot) <= Due(b)
  BY <1>7, <1>8, <1>9
<1>11. \A fee : FeeDue(b, fee) = 0 /\ FeeDue(c, fee) = 0
  BY <1>6, FeeDueIs
<1> QED BY <1>10, <1>11 DEF Lowers

(* A bounty that is cancelled takes away what it returns.                  *)
LEMMA ReturnedDrops ==
  ASSUME NEW b, NEW c, Sane(b), Sane(c),
         b.status \in {"New", "AwaitingClaims"},
         c.status \in {"PartiallyCompleted", "Canceled"},
         b.terms.mode # "Contest" \/ b.terms.postpaid,
         b.terms.mode = "OneForAll" /\ b.status = "New" => b.paid_slots = 0,
         NEW a, a = AmountsToReturn(b)
  PROVE  Lowers(b, c, a.pay, a.fee, a.dao)
<1>1. /\ b \in Bounty /\ c \in Bounty /\ ~Live(c) /\ Live(b)
      /\ c.status # "Completed"
  BY DEF Sane, Live, Running
<1>2. /\ Due(c) = 0
      /\ FeeDue(c, c.platform_fee) = 0 /\ FeeDue(c, c.dao_fee) = 0
  BY <1>1, FeeDueIs DEF Due
<1>3. /\ Due(b) \in Nat
      /\ FeeDue(b, b.platform_fee) \in Nat /\ FeeDue(b, b.dao_fee) \in Nat
  BY DueNat
<1>4. CASE b.terms.postpaid
  <2>1. a.pay = 0 /\ a.fee = 0 /\ a.dao = 0
    BY <1>4 DEF AmountsToReturn, Nothing
  <2> QED BY <1>2, <1>3, <2>1 DEF Lowers
<1>5. CASE ~b.terms.postpaid
  <2>1. /\ b.terms.mode \in Modes /\ b.terms.mode # "Contest"
        /\ b.terms.slots \in Nat /\ b.terms.slots > 0 /\ b.paid_slots \in Nat
        /\ b.amount \in Nat /\ b.platform_fee \in Nat /\ b.dao_fee \in Nat
    BY <1>1, <1>5, BountyTypes
  <2>2. Due(b) = RewardLeft(b)
    BY <1>1, <1>5 DEF Due
  <2>3. CASE b.terms.mode = "OneForAll"
    <3> PICK n \in Nat, m \in Nat : n = b.terms.slots /\ m = b.paid_slots /\ n > 0
      BY <2>1
    <3>1. m <= n
      BY <2>3 DEF Sane
    <3>2. /\ Due(b) = PartsLeft(b.amount, n, m)
          /\ FeeDue(b, b.platform_fee) = PartsLeft(b.platform_fee, n, m)
          /\ FeeDue(b, b.dao_fee) = PartsLeft(b.dao_fee, n, m)
      BY <1>1, <2>2, <2>3, FeeDueIs DEF RewardLeft
    <3>3. CASE b.status = "New"
      <4>1. m = 0
        BY <2>3, <3>3
      <4>2. a.pay = b.amount /\ a.fee = b.platform_fee /\ a.dao = b.dao_fee
        BY <1>5, <3>3 DEF AmountsToReturn
      <4>3. \A x \in Nat : PartsLeft(x, n, m) = x
        BY <3>1, <4>1, PartsLeftSteps
      <4> QED BY <1>2, <2>1, <3>2, <4>2, <4>3 DEF Lowers
    <3>4. CASE b.status = "AwaitingClaims"
      <4>1. /\ a.pay = (b.amount \div n) * (n - m)
            /\ a.fee = (b.platform_fee \div n) * (n - m)
            /\ a.dao = (b.dao_fee \div n) * (n - m)
        BY <1>5, <2>3, <3>4 DEF AmountsToReturn
      <4> DEFINE Part(x) == (x \div n) * (n - m)
      <4>2. \A x \in Nat : Part(x) <= PartsLeft(x, n, m)
        BY <3>1, PartsLeftSteps
      <4>3. \A x \in Nat : Part(x) \in Int
        <5>1. \A x \in Nat : x \div n \in Nat
          BY <3>1, PartsLeftSteps
        <5> QED BY <5>1
      <4>4. a.pay = Part(b.amount) /\ a.fee = Part(b.platform_fee)
            /\ a.dao = Part(b.dao_fee)
        BY <4>1
      <4> HIDE DEF Part
      <4> QED BY <1>2, <1>3, <2>1, <3>2, <4>2, <4>3, <4>4 DEF Lowers
    <3> QED BY <3>3, <3>4
  <2>4. CASE b.terms.mode # "OneForAll"
    <3>1. b.terms.mode \in {"None", "DifferentTasks"}
      BY <2>1, <2>4 DEF Modes
    <3>2. /\ Due(b) = b.amount
          /\ FeeDue(b, b.platform_fee) = b.platform_fee
          /\ FeeDue(b, b.dao_fee) = b.dao_fee
      BY <1>1, <2>2, <3>1, FeeDueIs DEF RewardLeft
    <3>3. a.pay = b.amount /\ a.fee = b.platform_fee /\ a.dao = b.dao_fee
      BY <1>5, <2>4 DEF AmountsToReturn
    <3> QED BY <1>2, <2>1, <3>2, <3>3 DEF Lowers
  <2> QED BY <2>3, <2>4
<1> QED BY <1>4, <1>5

(* A bounty of several tasks that is accepted takes away its fees.         *)
LEMMA AcceptedDrops ==
  ASSUME NEW b, NEW c, Sane(b), Sane(c), Falls(b, c), ~b.terms.postpaid,
         b.terms.mode = "DifferentTasks", b.status = "ManyClaimed",
         c.status = "Completed"
  PROVE  Lowers(b, c, 0, b.platform_fee, b.dao_fee)
<1>1. Due(c) <= Due(b)
  BY DueFalls
<1>2. /\ b \in Bounty /\ Live(b) /\ ~Live(c)
  BY DEF Sane, Live, Running
<1>3. /\ FeeDue(c, c.platform_fee) = 0 /\ FeeDue(c, c.dao_fee) = 0
      /\ FeeDue(b, b.platform_fee) = b.platform_fee
      /\ FeeDue(b, b.dao_fee) = b.dao_fee
  BY <1>2, FeeDueIs
<1>4. Due(b) \in Nat /\ Due(c) \in Nat
  BY DueNat
<1>5. b.platform_fee \in Nat /\ b.dao_fee \in Nat
  BY <1>2, BountyTypes
<1> QED BY <1>1, <1>3, <1>4, <1>5 DEF Lowers

----------------------------------------------------------------------------
(* The sums.                                                               *)

(* What is left of the tokens held when the fees are set aside.            *)
Backing == held - fees.balance - fees.dao_balance

(* What is due for each bounty, and what is locked for it of either fee.   *)
DueOf == [id \in BountyId |-> Due(bounties[id])]
FeeOf == [id \in BountyId |-> FeeDue(bounties[id], bounties[id].platform_fee)]
DaoOf == [id \in BountyId |-> FeeDue(bounties[id], bounties[id].dao_fee)]

(* The tokens cover what is due, the locked fees cover what is to be       *)
(* unlocked, and every bounty is in order.                                 *)
Covers == Backing >= Total(DueOf, BountyId)
Locks ==
  Total(FeeOf, BountyId) <= fees.locked /\ Total(DaoOf, BountyId) <= fees.dao_locked

Everybody == \A id \in BountyId : Steady(id)

(* The amounts of the model are integers.                                  *)
LEMMA MoneyTypes ==
  Course => /\ held \in Nat /\ Backing \in Int
            /\ fees \in [balance: Nat, locked: Nat,
                         dao_balance: Nat, dao_locked: Nat]
            /\ fees.balance \in Nat /\ fees.locked \in Nat
            /\ fees.dao_balance \in Nat /\ fees.dao_locked \in Nat
<1> SUFFICES ASSUME Course
             PROVE  /\ held \in Nat /\ Backing \in Int
                    /\ fees \in [balance: Nat, locked: Nat,
                                 dao_balance: Nat, dao_locked: Nat]
                    /\ fees.balance \in Nat /\ fees.locked \in Nat
                    /\ fees.dao_balance \in Nat /\ fees.dao_locked \in Nat
  OBVIOUS
<1>1. /\ held \in Nat
      /\ fees \in [balance: Nat, locked: Nat, dao_balance: Nat, dao_locked: Nat]
  BY DEF Course, Work, Shape, TypeOK
<1>2. /\ fees.balance \in Nat /\ fees.locked \in Nat
      /\ fees.dao_balance \in Nat /\ fees.dao_locked \in Nat
  BY <1>1
<1> QED BY <1>1, <1>2 DEF Backing

(* The amounts that are summed are natural numbers.                        *)
LEMMA SumTypes ==
  Course /\ Everybody =>
    /\ \A id \in BountyId : DueOf[id] \in Nat /\ FeeOf[id] \in Nat /\ DaoOf[id] \in Nat
    /\ Counts(DueOf, BountyId) /\ Counts(FeeOf, BountyId)
    /\ Counts(DaoOf, BountyId)
<1> SUFFICES ASSUME Course, Everybody
             PROVE  /\ \A id \in BountyId : DueOf[id] \in Nat /\ FeeOf[id] \in Nat /\ DaoOf[id] \in Nat
                    /\ Counts(DueOf, BountyId) /\ Counts(FeeOf, BountyId)
                    /\ Counts(DaoOf, BountyId)
  OBVIOUS
<1>1. \A id \in BountyId : Sane(bounties[id])
  BY SaneBounty DEF Everybody, Steady
<1>2. \A id \in BountyId : DueOf[id] \in Nat /\ FeeOf[id] \in Nat /\ DaoOf[id] \in Nat
  BY <1>1, DueNat DEF DueOf, FeeOf, DaoOf
<1> QED BY <1>2 DEF Counts

(* The same as state predicates, to be primed.                             *)
MoneySound ==
  Backing \in Int /\ fees.locked \in Nat /\ fees.dao_locked \in Nat
SumsSound ==
  /\ Counts(DueOf, BountyId) /\ Counts(FeeOf, BountyId)
  /\ Counts(DaoOf, BountyId)

LEMMA MoneyHere == Course => MoneySound
BY MoneyTypes DEF MoneySound

LEMMA SumsHere == Course /\ Everybody => SumsSound
BY SumTypes DEF SumsSound

(* They hold after a step as well.                                         *)
LEMMA MoneyAfter ==
  ASSUME Course, Course', Everybody, Everybody'
  PROVE  /\ Backing \in Int /\ Backing' \in Int
         /\ fees.locked \in Int /\ fees'.locked \in Int
         /\ fees.dao_locked \in Int /\ fees'.dao_locked \in Int
         /\ Counts(DueOf, BountyId) /\ Counts(DueOf', BountyId)
         /\ Counts(FeeOf, BountyId) /\ Counts(FeeOf', BountyId)
         /\ Counts(DaoOf, BountyId) /\ Counts(DaoOf', BountyId)
<1>1. Course' => MoneySound'
  BY MoneyHere, PTL
<1>2. Course' /\ Everybody' => SumsSound'
  BY SumsHere, PTL
<1> QED BY <1>1, <1>2, MoneyTypes, SumTypes DEF Counts, MoneySound, SumsSound

(* One bounty takes away what leaves the contract, the others nothing.     *)
Spends(x, pay, fee, dao) ==
  /\ x \in BountyId /\ pay \in Int /\ fee \in Int /\ dao \in Int
  /\ Lowers(bounties[x], bounties'[x], pay, fee, dao)
  /\ \A y \in BountyId \ {x} : Lowers(bounties[y], bounties'[y], 0, 0, 0)

(* When no more leaves than is taken off one bounty, the sums stay         *)
(* covered, ...                                                            *)
LEMMA SpentCovers ==
  ASSUME IsFiniteSet(BountyId), Course, Course', Everybody, Everybody',
         NEW x, NEW pay, NEW fee, NEW dao, Spends(x, pay, fee, dao),
         Backing' >= Backing - pay, Covers
  PROVE  Covers'
<1> DEFINE f == DueOf
           g == DueOf'
<1>1. /\ Counts(f, BountyId) /\ Counts(g, BountyId)
      /\ Backing \in Int /\ Backing' \in Int
  BY MoneyAfter
<1>2. /\ x \in BountyId /\ pay \in Int
      /\ g[x] + pay <= f[x]
      /\ \A y \in BountyId \ {x} : g[y] <= f[y]
  <2>1. \A y \in BountyId : g[y] = Due(bounties'[y]) /\ f[y] = Due(bounties[y])
    BY DEF DueOf
  <2>2. x \in BountyId /\ pay \in Int /\ g[x] + pay <= f[x]
    BY <2>1 DEF Spends, Lowers
  <2>3. ASSUME NEW y \in BountyId \ {x}
        PROVE  g[y] <= f[y]
    <3>1. Due(bounties'[y]) + 0 <= Due(bounties[y])
      BY DEF Spends, Lowers
    <3>2. g[y] \in Int
      BY <1>1 DEF Counts
    <3> QED BY <2>1, <3>1, <3>2
  <2> QED BY <2>2, <2>3
<1> HIDE DEF f, g
<1>3. Total(g, BountyId) + pay <= Total(f, BountyId)
  BY <1>1, <1>2, TotalDrops
<1>4. Total(g, BountyId) \in Int /\ Total(f, BountyId) \in Int
  BY <1>1, TotalType
<1>5. Backing >= Total(f, BountyId)
  BY DEF Covers, f
<1>6. Backing' >= Total(g, BountyId)
  BY <1>1, <1>2, <1>3, <1>4, <1>5
<1> QED BY <1>6 DEF Covers, g

(* ... and so do the locked fees.                                          *)
LEMMA SpentLocks ==
  ASSUME IsFiniteSet(BountyId), Course, Course', Everybody, Everybody',
         NEW x, NEW pay, NEW fee, NEW dao, Spends(x, pay, fee, dao),
         fees'.locked >= fees.locked - fee,
         fees'.dao_locked >= fees.dao_locked - dao, Locks
  PROVE  Locks'
<1>1. /\ Counts(FeeOf, BountyId) /\ Counts(FeeOf', BountyId)
      /\ Counts(DaoOf, BountyId) /\ Counts(DaoOf', BountyId)
      /\ fees.locked \in Int /\ fees'.locked \in Int
      /\ fees.dao_locked \in Int /\ fees'.dao_locked \in Int
  BY MoneyAfter
<1>2. /\ x \in BountyId /\ fee \in Int /\ dao \in Int
      /\ FeeOf'[x] + fee <= FeeOf[x]
      /\ DaoOf'[x] + dao <= DaoOf[x]
      /\ \A y \in BountyId \ {x} : FeeOf'[y] <= FeeOf[y]
      /\ \A y \in BountyId \ {x} : DaoOf'[y] <= DaoOf[y]
  <2>1. \A y \in BountyId :
          /\ FeeOf'[y] = FeeDue(bounties'[y], bounties'[y].platform_fee)
          /\ FeeOf[y] = FeeDue(bounties[y], bounties[y].platform_fee)
          /\ DaoOf'[y] = FeeDue(bounties'[y], bounties'[y].dao_fee)
          /\ DaoOf[y] = FeeDue(bounties[y], bounties[y].dao_fee)
    BY DEF FeeOf, DaoOf
  <2>2. /\ x \in BountyId /\ fee \in Int /\ dao \in Int
        /\ FeeOf'[x] + fee <= FeeOf[x] /\ DaoOf'[x] + dao <= DaoOf[x]
    BY <2>1 DEF Spends, Lowers
  <2>3. ASSUME NEW y \in BountyId \ {x}
        PROVE  FeeOf'[y] <= FeeOf[y] /\ DaoOf'[y] <= DaoOf[y]
    <3>1. FeeOf'[y] + 0 <= FeeOf[y] /\ DaoOf'[y] + 0 <= DaoOf[y]
      BY <2>1 DEF Spends, Lowers
    <3>2. FeeOf'[y] \in Int /\ DaoOf'[y] \in Int
      BY <1>1 DEF Counts
    <3> QED BY <3>1, <3>2
  <2> QED BY <2>2, <2>3
<1>3. Total(FeeOf', BountyId) + fee <= Total(FeeOf, BountyId)
  BY <1>1, <1>2, TotalDrops
<1>4. Total(DaoOf', BountyId) + dao <= Total(DaoOf, BountyId)
  BY <1>1, <1>2, TotalDrops
<1>5. /\ Total(FeeOf', BountyId) \in Int /\ Total(FeeOf, BountyId) \in Int
      /\ Total(DaoOf', BountyId) \in Int /\ Total(DaoOf, BountyId) \in Int
  BY <1>1, TotalType
<1>6. /\ Total(FeeOf, BountyId) <= fees.locked
      /\ Total(DaoOf, BountyId) <= fees.dao_locked
  BY DEF Locks
<1>7. Total(FeeOf', BountyId) <= fees'.locked
  BY <1>1, <1>2, <1>3, <1>5, <1>6
<1>8. Total(DaoOf', BountyId) <= fees'.dao_locked
  BY <1>1, <1>2, <1>4, <1>5, <1>6
<1> QED BY <1>7, <1>8 DEF Locks

(* No bounty takes anything.                                               *)
Spares == \A y \in BountyId : Lowers(bounties[y], bounties'[y], 0, 0, 0)

(* When nothing leaves and nothing is taken, both are as before.           *)
LEMMA SparedCovers ==
  ASSUME IsFiniteSet(BountyId), Course, Course', Everybody, Everybody',
         Spares, Backing' >= Backing, Covers
  PROVE  Covers'
<1>1. Backing \in Int /\ Backing' \in Int
  BY MoneyAfter
<1>2. CASE BountyId = {}
  <2>1. Total(DueOf, {}) = 0 /\ Total(DueOf', {}) = 0
    BY FS_EmptySet, TotalStep
  <2> QED BY <1>1, <1>2, <2>1 DEF Covers
<1>3. ASSUME NEW x \in BountyId
      PROVE  Covers'
  <2>1. Spends(x, 0, 0, 0)
    BY DEF Spares, Spends
  <2>2. Backing' >= Backing - 0
    BY <1>1
  <2> QED BY <2>1, <2>2, SpentCovers
<1> QED BY <1>2, <1>3

LEMMA SparedLocks ==
  ASSUME IsFiniteSet(BountyId), Course, Course', Everybody, Everybody',
         Spares, fees'.locked >= fees.locked,
         fees'.dao_locked >= fees.dao_locked, Locks
  PROVE  Locks'
<1>1. /\ fees.locked \in Int /\ fees'.locked \in Int
      /\ fees.dao_locked \in Int /\ fees'.dao_locked \in Int
  BY MoneyAfter
<1>2. CASE BountyId = {}
  <2>1. /\ Total(FeeOf, {}) = 0 /\ Total(FeeOf', {}) = 0
        /\ Total(DaoOf, {}) = 0 /\ Total(DaoOf', {}) = 0
    BY FS_EmptySet, TotalStep
  <2> QED BY <1>1, <1>2, <2>1 DEF Locks
<1>3. ASSUME NEW x \in BountyId
      PROVE  Locks'
  <2>1. Spends(x, 0, 0, 0)
    BY DEF Spares, Spends
  <2>2. /\ fees'.locked >= fees.locked - 0
        /\ fees'.dao_locked >= fees.dao_locked - 0
    BY <1>1
  <2> QED BY <2>1, <2>2, SpentLocks
<1> QED BY <1>2, <1>3

(* A promise of tokens, when nothing has come since it was made: it is for *)
(* what the contract would promise now.                                    *)
Exact(c) ==
  /\ c.kind = "payout" =>
       /\ MayComplete(c.id, c.claim, c.amounts, c.place)
       /\ c.amounts = AmountsForPayment(bounties[c.id], c.place)
       /\ Mode(c.id) = "Contest" => c.place \in UsedPlaces(bounties[c.id])
  /\ c.kind = "withdraw" =>
       /\ Status(c.claim[1]) = "Completed"
       /\ claims[c.claim].status \in {"Completed", "CompletedWithDispute"}
       /\ c.amount = PartialAmount(c.claim, c.slot)
  /\ c.kind = "refund" =>
       /\ Status(c.id) \in {"New", "AwaitingClaims"}
       /\ Returnable(bounties[c.id])
       /\ LockedCovers(AmountsToReturn(bounties[c.id]))
       /\ c.amount = AmountToOwner(bounties[c.id])
  /\ c.kind = "fees" =>
       c.amount = IF c.platform THEN fees.balance - fees.locked
                                ELSE fees.dao_balance - fees.dao_locked

(* What a step does about tokens, q being the promises that it leaves: it  *)
(* neither moves nor promises any, it promises some, ...                   *)
Rests(q) ==
  /\ UNCHANGED fees /\ UNCHANGED held /\ UNCHANGED refunded
  /\ \/ calls' = q
     \/ \E c : /\ c.kind \notin {"payout", "withdraw", "refund", "fees"}
               /\ calls' = Append(q, c)

Asks(q) ==
  /\ UNCHANGED config /\ UNCHANGED bounties /\ UNCHANGED claims
  /\ UNCHANGED fees /\ UNCHANGED held /\ UNCHANGED refunded
  /\ \E c : Exact(c) /\ calls' = Append(q, c)

(* ... a deposit comes, the work on all subtasks is accepted, or a bounty  *)
(* is cancelled that the owner gets nothing back for.                      *)
Opens(id) == \E t \in Offers : ft_on_transfer(id, t)

TasksDone(q, id) ==
  LET b == bounties[id] IN
  /\ b.terms.mode = "DifferentTasks" /\ ~b.terms.postpaid
  /\ b.status = "ManyClaimed" /\ bounties'[id].status = "Completed"
  /\ LockedCovers(AmountsForPayment(b, Nil))
  /\ fees' = CommissionUnlocked(AmountsForPayment(b, Nil))
  /\ UNCHANGED held /\ UNCHANGED refunded /\ calls' = q

Refuses(id) == bounty_cancel(id) /\ AmountToOwner(bounties[id]) = 0

(* Nothing is unlocked where nothing is locked.                            *)
LEMMA NothingUnlocked ==
  ASSUME Course, NEW a, a.fee = 0, a.dao = 0
  PROVE  CommissionUnlocked(a) = fees
<1>1. /\ fees \in [balance: Nat, locked: Nat, dao_balance: Nat, dao_locked: Nat]
      /\ fees.locked \in Nat /\ fees.dao_locked \in Nat
  BY MoneyTypes
<1>2. CommissionUnlocked(a) =
        [fees EXCEPT !.locked = fees.locked - a.fee,
                     !.dao_locked = fees.dao_locked - a.dao]
  BY Zenon DEF CommissionUnlocked
<1>3. fees.locked - a.fee = fees.locked /\ fees.dao_locked - a.dao = fees.dao_locked
  BY <1>1
<1>4. [fees EXCEPT !.locked = fees.locked, !.dao_locked = fees.dao_locked] = fees
  BY <1>1
<1> QED BY <1>2, <1>3, <1>4

(* internal_bounty_payout                                                  *)
LEMMA PayoutTurn ==
  ASSUME Course, NEW q, NEW id \in BountyId, NEW k \in ClaimKey \cup {Nil},
         NEW place \in Places \cup {Nil}, Payout(q, id, k, place),
         UNCHANGED config, UNCHANGED held, UNCHANGED refunded,
         Mode(id) # "DifferentTasks" =>
           /\ Status(id) \in Running
           /\ claims[k].status \in {"Completed", "Disputed"},
         Mode(id) = "Contest" /\ ~bounties[id].terms.postpaid /\ place # Nil =>
           place \in UsedPlaces(bounties[id]) /\ bounties[id].winners[place] = Nil,
         Mode(id) = "DifferentTasks" => place = Nil
  PROVE  Rests(q) \/ Asks(q) \/ TasksDone(q, id)
<1> PICK b, a : b = bounties[id] /\ a = AmountsForPayment(b, place)
  OBVIOUS
<1>0. bounties \in [BountyId -> Bounty]
  BY DEF Course, Work, Shape, TypeOK
<1>1. CASE b.terms.postpaid
  <2>1. a.fee = 0 /\ a.dao = 0
    BY <1>1 DEF AmountsForPayment, Nothing
  <2>2. fees' = CommissionUnlocked(a) /\ calls' = q
    BY <1>1, Zenon DEF Payout, Complete
  <2>3. UNCHANGED fees
    BY <2>1, <2>2, NothingUnlocked
  <2> QED BY <2>2, <2>3 DEF Rests
<1>2. CASE ~b.terms.postpaid /\ b.terms.mode = "DifferentTasks"
  <2>1. place = Nil
    BY <1>2 DEF Mode
  <2>2. MayComplete(id, k, a, place) /\ Complete(id, k, a, place) /\ calls' = q
        /\ LockedCovers(a)
    BY <1>2, Zenon DEF Payout
  <2>3. b.status = "ManyClaimed"
    BY <1>2, <2>2 DEF MayComplete
  <2>4. bounties' = [bounties EXCEPT ![id] = PaidBounty(b, k, place)]
    BY <2>2, Zenon DEF Complete
  <2>5. PaidBounty(b, k, place).status = "Completed"
    <3>1. b \in Bounty
      BY <1>0
    <3>2. PaidBounty(b, k, place) = [b EXCEPT !.status = "Completed"]
      BY <1>2 DEF PaidBounty
    <3> QED BY <3>1, <3>2 DEF Bounty
  <2>6. bounties'[id].status = "Completed"
    BY <1>0, <2>4, <2>5
  <2>7. fees' = CommissionUnlocked(a)
    BY <2>2 DEF Complete
  <2> QED BY <1>2, <2>1, <2>2, <2>3, <2>6, <2>7 DEF TasksDone
<1>3. CASE ~b.terms.postpaid /\ b.terms.mode # "DifferentTasks"
  <2>1. PICK c : c = [kind |-> "payout", id |-> id, claim |-> k,
                      amounts |-> a, place |-> place]
    OBVIOUS
  <2>2. /\ calls' = Append(q, c) /\ LockedCovers(a)
        /\ UNCHANGED bounties /\ UNCHANGED claims /\ UNCHANGED fees
        /\ place = Nil => b.terms.mode # "Contest"
    BY <1>3, <2>1, Zenon DEF Payout, Send
  <2>3. /\ c.kind = "payout" /\ c.id = id /\ c.claim = k /\ c.amounts = a
        /\ c.place = place
    BY <2>1
  <2>4. b.terms.mode = "Contest" =>
          place \in UsedPlaces(b) /\ b.winners[place] = Nil
    BY <1>3, <2>2 DEF Mode
  <2>5. MayComplete(id, k, a, place)
    BY <1>3, <2>2, <2>4 DEF MayComplete, Mode, Status
  <2>6. Exact(c)
    BY <2>3, <2>4, <2>5 DEF Exact, Mode
  <2> QED BY <2>2, <2>6 DEF Asks
<1> QED BY <1>1, <1>2, <1>3

(* What follows a dispute promises a payout, accepts all subtasks or       *)
(* rests.                                                                  *)
LEMMA DisputeTurn ==
  ASSUME Course, NEW q, NEW k \in ClaimKey, NEW success,
         SettleDispute(q, k, success), Status(k[1]) \in Running,
         claims[k].status = "Disputed",
         UNCHANGED config, UNCHANGED held, UNCHANGED refunded
  PROVE  Rests(q) \/ Asks(q) \/ TasksDone(q, k[1])
<1>1. CASE UNCHANGED fees /\ calls' = q
  BY <1>1 DEF Rests
<1>2. CASE Payout(q, k[1], k, Nil)
  <2>1. k[1] \in BountyId /\ Nil \in Places \cup {Nil}
    BY DEF ClaimKey
  <2> QED BY <1>2, <2>1, PayoutTurn
<1> QED BY <1>1, <1>2, Zenon DEF SettleDispute, ReturnedAfterDispute

----------------------------------------------------------------------------
(* What each operation does.                                               *)

LEMMA BountyTurns ==
  ASSUME Course, NEW id \in BountyId, OnBounty(id)
  PROVE  \/ Rests(calls) \/ Asks(calls) \/ Opens(id)
         \/ TasksDone(calls, id) \/ Refuses(id)
<1> DEFINE Same == UNCHANGED fees /\ UNCHANGED held /\ UNCHANGED refunded
           Sends(kind) == \E c : c.kind = kind /\ calls' = Append(calls, c)
<1>1. Same /\ calls' = calls => Rests(calls)
  BY DEF Rests
<1>2. ASSUME NEW kind \in {"kyc", "addClaimantProposal", "checkPayoutProposal"}
      PROVE  Same /\ Sends(kind) => Rests(calls)
  BY <1>2 DEF Rests
<1>3. ASSUME NEW t \in Offers, ft_on_transfer(id, t)
      PROVE  Opens(id)
  BY <1>3 DEF Opens
<1>4. ASSUME NEW t \in Offers, bounty_create(id, t)
      PROVE  Rests(calls)
  <2>1. t.postpaid /\ AddBounty(id, t) /\ UNCHANGED held
    BY <1>4, Zenon DEF bounty_create
  <2> PICK b : b = NewBounty(t, config)
    OBVIOUS
  <2>2. UNCHANGED refunded /\ calls' = calls
    BY <2>1, Zenon DEF AddBounty
  <2>3. fees' = [fees EXCEPT !.balance = fees.balance + b.platform_fee,
                             !.locked = fees.locked + b.platform_fee,
                             !.dao_balance = fees.dao_balance + b.dao_fee,
                             !.dao_locked = fees.dao_locked + b.dao_fee]
    BY <2>1, Zenon DEF AddBounty
  <2>4. b.platform_fee = PlatformFee(t, config) /\ b.dao_fee = DaoFee(t, config)
    BY Zenon DEF NewBounty, NoBounty
  <2>5. b.platform_fee = 0 /\ b.dao_fee = 0
    BY <2>1, <2>4 DEF PlatformFee, DaoFee
  <2>6. /\ fees \in [balance: Nat, locked: Nat, dao_balance: Nat, dao_locked: Nat]
        /\ fees.balance + b.platform_fee = fees.balance
        /\ fees.locked + b.platform_fee = fees.locked
        /\ fees.dao_balance + b.dao_fee = fees.dao_balance
        /\ fees.dao_locked + b.dao_fee = fees.dao_locked
    BY <2>5, MoneyTypes
  <2>7. [fees EXCEPT !.balance = fees.balance, !.locked = fees.locked,
                     !.dao_balance = fees.dao_balance,
                     !.dao_locked = fees.dao_locked] = fees
    BY <2>6
  <2> QED BY <1>1, <2>1, <2>2, <2>3, <2>6, <2>7
<1>5. ASSUME NEW u, bounty_update(id, u)
      PROVE  Rests(calls)
  BY <1>1, <1>5, Zenon DEF bounty_update, tokens
<1>6. CASE start_competition(id)
  BY <1>1, <1>6, Zenon DEF start_competition, tokens
<1>7. CASE bounty_cancel(id)
  <2>1. CASE AmountToOwner(bounties[id]) = 0
    BY <1>7, <2>1 DEF Refuses
  <2>2. CASE AmountToOwner(bounties[id]) # 0
    <3>1. PICK c : c = [kind |-> "refund", id |-> id,
                        amount |-> AmountToOwner(bounties[id])]
      OBVIOUS
    <3>2. /\ calls' = Append(calls, c)
          /\ UNCHANGED bounties /\ UNCHANGED fees
          /\ bounties[id].status \in {"New", "AwaitingClaims"}
          /\ Returnable(bounties[id])
          /\ LockedCovers(AmountsToReturn(bounties[id]))
      BY <1>7, <2>2, <3>1, Zenon DEF bounty_cancel, Send
    <3>3. UNCHANGED config /\ UNCHANGED claims /\ UNCHANGED held
          /\ UNCHANGED refunded
      BY <1>7, Zenon DEF bounty_cancel, tokens
    <3>4. /\ c.kind = "refund" /\ c.id = id
          /\ c.amount = AmountToOwner(bounties[id])
      BY <3>1
    <3>5. Exact(c)
      BY <3>2, <3>4 DEF Exact, Status
    <3> QED BY <3>2, <3>3, <3>5 DEF Asks
  <2> QED BY <2>1, <2>2
<1>8. CASE bounty_finalize_all(id)
  <2>1. Same
    BY <1>8, Zenon DEF bounty_finalize_all, tokens
  <2>2. Sends("checkPayoutProposal")
    <3>1. PICK c : c = [kind |-> "checkPayoutProposal", id |-> id, claim |-> Nil]
      OBVIOUS
    <3>2. calls' = Append(calls, c)
      BY <1>8, <3>1, Zenon DEF bounty_finalize_all, AskPayoutProposal, Send
    <3> QED BY <3>1, <3>2
  <2> QED BY <1>2, <2>1, <2>2
<1>9. ASSUME NEW who, NEW deadline, NEW slot,
             bounty_claim(who, id, deadline, slot)
      PROVE  Rests(calls)
  <2>1. Same
    BY <1>9, Zenon DEF bounty_claim, tokens
  <2> PICK k, c, d :
        /\ k = NextKey(id, who)
        /\ c = [kind |-> "kyc", claim |-> k, place |-> "CreatingClaim",
                deadline |-> deadline, slot |-> slot, delayed |-> Nil]
        /\ d = [kind |-> "addClaimantProposal", claim |-> k,
                deadline |-> deadline, slot |-> slot]
    OBVIOUS
  <2>2. \/ calls' = calls \/ calls' = Append(calls, c)
        \/ calls' = Append(calls, d)
    BY <1>9, Zenon DEF bounty_claim, ProposeOrCreateClaim, Propose, Send
  <2>3. c.kind = "kyc" /\ d.kind = "addClaimantProposal"
    OBVIOUS
  <2> QED BY <1>1, <1>2, <2>1, <2>2, <2>3
<1>10. ASSUME NEW sender, bounty_approve_of_several(sender, id)
       PROVE  Rests(calls) \/ Asks(calls) \/ TasksDone(calls, id)
  <2>1. /\ Mode(id) = "DifferentTasks"
        /\ Payout(calls, id, Nil, Nil)
        /\ UNCHANGED config /\ UNCHANGED held /\ UNCHANGED refunded
    BY <1>10, Zenon DEF bounty_approve_of_several, Mode, tokens
  <2>2. Nil \in ClaimKey \cup {Nil} /\ Nil \in Places \cup {Nil}
    OBVIOUS
  <2> QED BY <2>1, <2>2, PayoutTurn
<1>11. CASE return_proposal_bond(id)
  BY <1>1, <1>11, Zenon DEF return_proposal_bond, tokens
<1> QED BY <1>3, <1>4, <1>5, <1>6, <1>7, <1>8, <1>9, <1>10, <1>11, Zenon
       DEF OnBounty

(* The last part of a decision promises a DAO proposal at most, ...        *)
LEMMA FinishTurn ==
  ASSUME NEW q, NEW k, ProposeOrFinish(q, k),
         UNCHANGED fees, UNCHANGED held, UNCHANGED refunded
  PROVE  Rests(q)
<1> PICK c : c = [kind |-> "addPayoutProposal", claim |-> k]
  OBVIOUS
<1>1. c.kind = "addPayoutProposal"
  OBVIOUS
<1>2. calls' = q \/ calls' = Append(q, c)
  BY Zenon DEF ProposeOrFinish, Propose, Send
<1> QED BY <1>1, <1>2 DEF Rests

(* ... and so does the first part of a claim.                              *)
LEMMA ProposeTurn ==
  ASSUME NEW q, NEW k, NEW deadline, NEW slot, NEW attached,
         ProposeOrCreateClaim(q, k, deadline, slot, attached),
         UNCHANGED fees, UNCHANGED held, UNCHANGED refunded
  PROVE  Rests(q)
<1> PICK c : c = [kind |-> "addClaimantProposal", claim |-> k,
                  deadline |-> deadline, slot |-> slot]
  OBVIOUS
<1>1. c.kind = "addClaimantProposal"
  OBVIOUS
<1>2. calls' = q \/ calls' = Append(q, c)
  BY Zenon DEF ProposeOrCreateClaim, Propose, Send
<1> QED BY <1>1, <1>2 DEF Rests

(* The handlers of claims and disputes, ...                                *)
LEMMA ClaimTurns ==
  ASSUME Course, NEW k \in ClaimKey, OnClaim(k)
  PROVE  Rests(calls) \/ Asks(calls) \/ TasksDone(calls, k[1])
<1> DEFINE Same == UNCHANGED fees /\ UNCHANGED held /\ UNCHANGED refunded
           Sends(kind) == \E c : c.kind = kind /\ calls' = Append(calls, c)
<1>0. k[1] \in BountyId
  BY DEF ClaimKey
<1>1. Same /\ calls' = calls => Rests(calls)
  BY DEF Rests
<1>2. ASSUME NEW kind \in {"kyc", "createDispute", "getDispute",
                           "checkClaimantProposal", "checkPayoutProposal"}
      PROVE  Same /\ Sends(kind) => Rests(calls)
  BY <1>2 DEF Rests
<1>3. ASSUME NEW kind, NEW c, c = [kind |-> kind, claim |-> k],
             Send(calls, c)
      PROVE  Sends(kind)
  <2>1. c.kind = kind /\ calls' = Append(calls, c)
    BY <1>3, Zenon DEF Send
  <2> QED BY <2>1
<1>4. ASSUME NEW place, NEW delayed, NEW c,
             c = [kind |-> "kyc", claim |-> k, place |-> place,
                  deadline |-> Nil, slot |-> Nil, delayed |-> delayed],
             Send(calls, c)
      PROVE  Sends("kyc")
  <2>1. c.kind = "kyc" /\ calls' = Append(calls, c)
    BY <1>4 DEF Send
  <2> QED BY <2>1
<1>5. CASE bounty_finalize(k)
  <2>1. Same
    BY <1>5, Zenon DEF bounty_finalize, tokens
  <2>2. ASSUME NEW j, AskPayoutProposal(k[1], j)
        PROVE  Sends("checkPayoutProposal")
    <3>1. PICK c : c = [kind |-> "checkPayoutProposal", id |-> k[1],
                        claim |-> j]
      OBVIOUS
    <3>2. c.kind = "checkPayoutProposal" /\ calls' = Append(calls, c)
      BY <2>2, <3>1 DEF AskPayoutProposal, Send
    <3> QED BY <3>2
  <2>3. CASE FinalizeActive(k)
    <3>1. \/ calls' = calls
          \/ \E j : AskPayoutProposal(k[1], j)
          \/ Send(calls, [kind |-> "getDispute", claim |-> k])
      BY <2>3, Zenon DEF FinalizeActive
    <3> HIDE DEF Same, Sends
    <3> QED BY <1>1, <1>2, <1>3, <2>1, <2>2, <3>1
  <2>4. CASE FinalizeInactive(k)
    <3>1. \/ calls' = calls
          \/ Send(calls, [kind |-> "checkClaimantProposal", claim |-> k])
      BY <2>4, Zenon DEF FinalizeInactive
    <3> HIDE DEF Same, Sends
    <3> QED BY <1>1, <1>2, <1>3, <2>1, <3>1
  <2> QED BY <1>5, <2>3, <2>4 DEF bounty_finalize
<1>6. CASE bounty_done(k)
  <2>1. Same
    BY <1>6, Zenon DEF bounty_done, tokens
  <2>2. \/ calls' = calls
        \/ Send(calls, [kind |-> "kyc", claim |-> k, place |-> "ClaimDone",
                        deadline |-> Nil, slot |-> Nil, delayed |-> Nil])
        \/ ProposeOrFinish(calls, k)
    BY <1>6, Zenon DEF bounty_done
  <2> HIDE DEF Sends
  <2> QED BY <1>1, <1>2, <1>4, <2>1, <2>2, FinishTurn
<1>7. CASE bounty_give_up(k)
  BY <1>1, <1>7, Zenon DEF bounty_give_up, tokens
<1>8. CASE withdraw(k)
  <2>1. Same /\ UNCHANGED config
    BY <1>8, Zenon DEF withdraw, tokens
  <2>2. CASE calls' = calls
    BY <1>1, <2>1, <2>2
  <2>3. CASE calls' # calls
    <3>1. PICK c : c = [kind |-> "withdraw", claim |-> k,
                        slot |-> claims[k].slot,
                        amount |-> PartialAmount(k, claims[k].slot)]
      OBVIOUS
    <3>2. calls' = Append(calls, c) /\ UNCHANGED bounties /\ UNCHANGED claims
          /\ bounties[k[1]].status = "Completed"
          /\ claims[k].status \in {"Completed", "CompletedWithDispute"}
      BY <1>8, <2>3, <3>1, Zenon DEF withdraw, Send
    <3>3. /\ c.kind = "withdraw" /\ c.claim = k /\ c.slot = claims[k].slot
          /\ c.amount = PartialAmount(k, c.slot)
      BY <3>1
    <3>4. Exact(c)
      BY <3>2, <3>3 DEF Exact, Status
    <3> QED BY <2>1, <3>2, <3>4 DEF Asks
  <2> QED BY <2>2, <2>3
<1>9. CASE open_dispute(k)
  <2>1. Same /\ Send(calls, [kind |-> "createDispute", claim |-> k])
    BY <1>9, Zenon DEF open_dispute, tokens
  <2> HIDE DEF Sends
  <2> QED BY <1>2, <1>3, <2>1
<1>10. ASSUME NEW sender, NEW delayed, accept_claimant(sender, k, delayed)
       PROVE  Rests(calls)
  <2>1. /\ Same
        /\ \/ calls' = calls
           \/ Send(calls, [kind |-> "kyc", claim |-> k,
                           place |-> "DecisionOnClaim", deadline |-> Nil,
                           slot |-> Nil, delayed |-> Nil])
    BY <1>10, Zenon DEF accept_claimant, tokens
  <2> HIDE DEF Sends
  <2> QED BY <1>1, <1>2, <1>4, <2>1
<1>11. ASSUME NEW sender, NEW place \in UsedPlaces(bounties[k[1]]) \cup {Nil},
              bounty_approve(sender, k, place)
       PROVE  Rests(calls) \/ Asks(calls) \/ TasksDone(calls, k[1])
  <2>1. /\ Payout(calls, k[1], k, place)
        /\ UNCHANGED config /\ UNCHANGED held /\ UNCHANGED refunded
        /\ Status(k[1]) \in Running /\ claims[k].status = "Completed"
        /\ Mode(k[1]) # "DifferentTasks"
        /\ Mode(k[1]) = "Contest" => MayWin(k, place)
    BY <1>11, Zenon DEF bounty_approve, tokens, Mode, Status
  <2>2. UsedPlaces(bounties[k[1]]) \subseteq Places
    <3>1. bounties[k[1]] \in Bounty
      BY <1>0 DEF Course, Work, Shape, TypeOK
    <3> QED BY <3>1, BountyTypes
  <2>3. ASSUME Mode(k[1]) = "Contest", ~bounties[k[1]].terms.postpaid, place # Nil
        PROVE  place \in UsedPlaces(bounties[k[1]])
               /\ bounties[k[1]].winners[place] = Nil
    BY <2>1, <2>3 DEF MayWin
  <2>4. k \in ClaimKey \cup {Nil} /\ place \in Places \cup {Nil}
    BY <2>2
  <2> QED BY <1>0, <2>1, <2>3, <2>4, PayoutTurn
<1>12. ASSUME NEW sender, decline_claimant(sender, k) \/ bounty_reject(sender, k)
       PROVE  Rests(calls)
  BY <1>1, <1>12, Zenon DEF decline_claimant, bounty_reject, tokens
<1>13. ASSUME NEW place, mark_as_paid(k, place)
       PROVE  Rests(calls)
  BY <1>1, <1>13, Zenon DEF mark_as_paid, tokens
<1>14. ASSUME NEW deadline, extend_claim_deadline(k, deadline)
       PROVE  Rests(calls)
  BY <1>1, <1>14, Zenon DEF extend_claim_deadline, tokens
<1>15. CASE confirm_payment(k)
  BY <1>1, <1>15, Zenon DEF confirm_payment, tokens
<1>16. ASSUME NEW success, dispute_result(k, success)
       PROVE  Rests(calls) \/ Asks(calls) \/ TasksDone(calls, k[1])
  <2>1. /\ SettleDispute(calls, k, success) /\ claims[k].status = "Disputed"
        /\ UNCHANGED config /\ UNCHANGED held /\ UNCHANGED refunded
        /\ Status(k[1]) \in Running
    BY <1>16, Zenon DEF dispute_result, tokens, Status
  <2> QED BY <2>1, DisputeTurn
<1> QED BY <1>5, <1>6, <1>7, <1>8, <1>9, <1>10, <1>11, <1>12, <1>13, <1>14,
           <1>15, <1>16, Zenon DEF OnClaim, ClaimCall

(* What an answer does, but for the four that move tokens.                 *)
LEMMA AnswerTurns ==
  ASSUME Course, NEW i \in 1 .. Len(calls), Answer(i)
  PROVE  \/ Rests(Answered(i)) \/ Asks(Answered(i))
         \/ \E id \in BountyId : TasksDone(Answered(i), id)
         \/ after_ft_transfer(i) \/ after_bounty_withdraw(i)
         \/ after_refund_bounty_amount(i) \/ after_fees_payout(i)
<1> PICK q : q = Answered(i)
  OBVIOUS
<1> DEFINE Same == UNCHANGED fees /\ UNCHANGED held /\ UNCHANGED refunded
<1>0. calls[i] \in Calls /\ Sound(calls[i]) /\ Fit(calls[i])
  BY BondTypes DEF Course, FitSeq, Work, Addressed, SoundSeq
<1>1. Same /\ calls' = q => Rests(q)
  BY DEF Rests
<1>2. CASE Drop(i)
  BY <1>1, <1>2, Zenon DEF Drop, tokens
<1>3. CASE after_check_if_whitelisted(i)
  <2>1. /\ Same
        /\ \/ \E k, deadline, slot : ProposeOrCreateClaim(q, k, deadline, slot, 0)
           \/ calls' = q
           \/ \E k : ProposeOrFinish(q, k)
    BY <1>3, Zenon DEF after_check_if_whitelisted, tokens
  <2> QED BY <1>1, <2>1, FinishTurn, ProposeTurn
<1>4. CASE after_add_proposal(i)
  BY <1>1, <1>4, Zenon DEF after_add_proposal, tokens
<1>5. CASE on_added_proposal_callback(i)
  BY <1>1, <1>5, Zenon DEF on_added_proposal_callback, tokens
<1>6. ASSUME NEW approved, after_check_approve_claimant_proposal(i, approved)
      PROVE  Rests(q)
  BY <1>1, <1>6, Zenon DEF after_check_approve_claimant_proposal, tokens
<1>7. CASE after_create_dispute(i)
  BY <1>1, <1>7, Zenon DEF after_create_dispute, tokens
<1>8. ASSUME NEW success, after_get_dispute(i, success)
      PROVE  Rests(q) \/ Asks(q) \/ \E id \in BountyId : TasksDone(q, id)
  <2> PICK k : k = calls[i].claim
    OBVIOUS
  <2>1. /\ calls[i].kind = "getDispute"
        /\ SettleDispute(q, k, success) /\ claims[k].status = "Disputed"
        /\ UNCHANGED config /\ UNCHANGED held /\ UNCHANGED refunded
        /\ Status(k[1]) \in Running
    BY <1>8, Zenon DEF after_get_dispute, tokens, Status
  <2>2. k \in ClaimKey
    BY <1>0, <2>1, CallFacts
  <2>3. k[1] \in BountyId
    BY <2>2 DEF ClaimKey
  <2> QED BY <2>1, <2>2, <2>3, DisputeTurn
<1>9. ASSUME NEW approved \in BOOLEAN,
             after_check_bounty_payout_proposal(i, approved)
      PROVE  Rests(q) \/ Asks(q) \/ \E id \in BountyId : TasksDone(q, id)
  <2> PICK id, k : id = calls[i].id /\ k = calls[i].claim
    OBVIOUS
  <2>1. /\ calls[i].kind = "checkPayoutProposal"
        /\ UNCHANGED config /\ UNCHANGED held /\ UNCHANGED refunded
    BY <1>9, Zenon DEF after_check_bounty_payout_proposal, tokens
  <2>2. id \in BountyId /\ k \in ClaimKey \cup {Nil}
    BY <1>0, <2>1, CallFacts
  <2>3. CASE approved
    <3>1. /\ Payout(q, id, k, Nil)
          /\ k # Nil => Status(id) \in Running /\ claims[k].status = "Completed"
      BY <1>9, <2>3, Zenon DEF after_check_bounty_payout_proposal, Status
    <3>2. k = Nil => Mode(id) = "DifferentTasks"
      BY <1>0, <2>1 DEF Fit
    <3>3. Nil \in Places \cup {Nil}
      OBVIOUS
    <3>4. Rests(q) \/ Asks(q) \/ TasksDone(q, id)
      BY <2>1, <2>2, <3>1, <3>2, <3>3, PayoutTurn
    <3> QED BY <2>2, <3>4
  <2>4. CASE ~approved
    <3>1. UNCHANGED fees /\ calls' = q
      BY <1>9, <2>4, Zenon DEF after_check_bounty_payout_proposal
    <3> QED BY <1>1, <2>1, <3>1
  <2> QED BY <2>3, <2>4
<1> QED BY <1>2, <1>3, <1>4, <1>5, <1>6, <1>7, <1>8, <1>9, Zenon DEF Answer

(* ... and those of the owner and of the fees.                             *)
LEMMA OwnTurns ==
  ASSUME \/ Tick \/ change_config \/ withdraw_platform_fee
         \/ withdraw_validators_dao_fee \/ withdraw_non_refunded_bonds
         \/ UNCHANGED vars
  PROVE  Rests(calls) \/ Asks(calls)
<1>1. CASE Tick \/ change_config \/ withdraw_non_refunded_bonds \/ UNCHANGED vars
  <2>1. UNCHANGED fees /\ UNCHANGED held /\ UNCHANGED refunded /\ calls' = calls
    BY <1>1, Zenon DEF Tick, change_config, withdraw_non_refunded_bonds, vars, tokens
  <2> QED BY <2>1 DEF Rests
<1>2. ASSUME NEW n, NEW platform \in BOOLEAN, SendFees(n, platform),
             n = IF platform THEN fees.balance - fees.locked
                 ELSE fees.dao_balance - fees.dao_locked
      PROVE  Asks(calls)
  <2>1. PICK c : c = [kind |-> "fees", amount |-> n, platform |-> platform]
    OBVIOUS
  <2>2. /\ calls' = Append(calls, c)
        /\ UNCHANGED config /\ UNCHANGED bounties /\ UNCHANGED claims
        /\ UNCHANGED fees /\ UNCHANGED held /\ UNCHANGED refunded
    BY <1>2, <2>1, Zenon DEF SendFees, Send, tokens
  <2>3. c.kind = "fees" /\ c.amount = n /\ c.platform = platform
    BY <2>1
  <2>4. Exact(c)
    BY <1>2, <2>3 DEF Exact
  <2> QED BY <2>2, <2>4 DEF Asks
<1>3. CASE withdraw_platform_fee
  BY <1>2, <1>3 DEF withdraw_platform_fee
<1>4. CASE withdraw_validators_dao_fee
  BY <1>2, <1>4 DEF withdraw_validators_dao_fee
<1> QED BY <1>1, <1>3, <1>4

(* A step between two states in order.                                     *)
Onward ==
  /\ IsFiniteSet(BountyId) /\ ClaimsStep
  /\ Course /\ Course' /\ Everybody /\ Everybody'

(* A step that no tokens come with takes nothing from any bounty.          *)
LEMMA OnwardSpares ==
  ASSUME Onward, held' <= held
  PROVE  Spares
<1> SUFFICES ASSUME NEW y \in BountyId
             PROVE  Lowers(bounties[y], bounties'[y], 0, 0, 0)
  BY DEF Spares
<1>1. Steady(y) /\ NoFees(y)'
  BY DEF Onward, Everybody, Steady
<1> QED BY <1>1, NoneMore DEF Onward

(* All records are sane before and after it.                               *)
LEMMA OnwardSane ==
  ASSUME Onward, NEW id \in BountyId
  PROVE  Sane(bounties[id]) /\ Sane(bounties'[id])
<1>1. NoFees(id) /\ NoFees(id)'
  BY DEF Onward, Everybody, Steady
<1> QED BY <1>1, SaneAfter DEF Onward

(* Where no tokens move, nothing is missing after.                         *)
LEMMA RestMoney ==
  ASSUME Onward, UNCHANGED fees, UNCHANGED held
  PROVE  (Covers => Covers') /\ (Locks => Locks')
<1>1. held \in Nat /\ fees.locked \in Nat /\ fees.dao_locked \in Nat
      /\ Backing \in Int
  BY MoneyTypes DEF Onward
<1>2. Spares
  BY <1>1, OnwardSpares
<1>3. Backing' = Backing
  BY DEF Backing
<1>4. /\ Backing' >= Backing /\ fees'.locked >= fees.locked
      /\ fees'.dao_locked >= fees.dao_locked
  BY <1>1, <1>3
<1> QED BY <1>2, <1>4, SparedCovers, SparedLocks DEF Onward

(* A deposit brings what is set aside for it.                              *)
LEMMA OpenMoney ==
  ASSUME Onward, NEW id \in BountyId, Opens(id)
  PROVE  (Covers => Covers') /\ (Locks => Locks')
<1> PICK t \in Offers : ft_on_transfer(id, t)
  BY DEF Opens
<1> PICK b, c : b = bounties[id] /\ c = NewBounty(t, config)
  OBVIOUS
<1>1. /\ ~t.postpaid /\ AddBounty(id, t) /\ held' = held + t.deposit
  BY DEF ft_on_transfer
<1>2. /\ b.status = "Absent" /\ ValidTerms(t, c.amount, now)
      /\ bounties' = [bounties EXCEPT ![id] = c]
      /\ fees' = [fees EXCEPT !.balance = fees.balance + c.platform_fee,
                              !.locked = fees.locked + c.platform_fee,
                              !.dao_balance = fees.dao_balance + c.dao_fee,
                              !.dao_locked = fees.dao_locked + c.dao_fee]
  BY <1>1, Zenon DEF AddBounty
<1>3. bounties \in [BountyId -> Bounty] /\ t \in Terms
  BY OffersAssumption DEF Onward, Course, Work, Shape, TypeOK
<1>4. t.deposit \in Nat
  BY <1>3 DEF Terms
<1>5. c = bounties'[id] /\ \A y \in BountyId \ {id} : bounties'[y] = bounties[y]
  BY <1>2, <1>3
<1>6. Sane(c)
  BY <1>5, OnwardSane
<1>7. c \in Bounty
  BY <1>6 DEF Sane
<1>8. c.amount \in Nat /\ c.platform_fee \in Nat /\ c.dao_fee \in Nat
  BY <1>7, BountyTypes
<1>9. c.amount + c.platform_fee + c.dao_fee = t.deposit
  BY <1>4, <1>7, NewMoney
<1>10. /\ Due(c) = c.amount
       /\ FeeDue(c, c.platform_fee) <= c.platform_fee
       /\ FeeDue(c, c.dao_fee) <= c.dao_fee
       /\ FeeDue(c, c.platform_fee) \in Nat /\ FeeDue(c, c.dao_fee) \in Nat
  BY <1>1, <1>2, <1>4, <1>6, OpenDue, DueNat
<1>11. /\ Due(b) = 0
       /\ FeeDue(b, b.platform_fee) = 0 /\ FeeDue(b, b.dao_fee) = 0
  BY <1>2, AbsentDue
<1>12. Lowers(b, c, -c.amount, -c.platform_fee, -c.dao_fee)
  BY <1>8, <1>10, <1>11 DEF Lowers
<1>13. ASSUME NEW y \in BountyId \ {id}
       PROVE  Lowers(bounties[y], bounties'[y], 0, 0, 0)
  <2>1. Sane(bounties[y]) /\ bounties'[y] = bounties[y]
    BY <1>5, OnwardSane
  <2> QED BY <2>1, DueNat DEF Lowers
<1>14. Spends(id, -c.amount, -c.platform_fee, -c.dao_fee)
  BY <1>5, <1>8, <1>12, <1>13 DEF Spends
<1>15. /\ held \in Nat
       /\ fees \in [balance: Nat, locked: Nat, dao_balance: Nat, dao_locked: Nat]
       /\ fees.balance \in Nat /\ fees.locked \in Nat
       /\ fees.dao_balance \in Nat /\ fees.dao_locked \in Nat
  BY MoneyTypes DEF Onward
<1>16. /\ fees'.balance = fees.balance + c.platform_fee
       /\ fees'.locked = fees.locked + c.platform_fee
       /\ fees'.dao_balance = fees.dao_balance + c.dao_fee
       /\ fees'.dao_locked = fees.dao_locked + c.dao_fee
  BY <1>2, <1>15
<1>17. /\ Backing' >= Backing - (-c.amount)
       /\ fees'.locked >= fees.locked - (-c.platform_fee)
       /\ fees'.dao_locked >= fees.dao_locked - (-c.dao_fee)
  BY <1>1, <1>8, <1>9, <1>15, <1>16 DEF Backing
<1> QED BY <1>14, <1>17, SpentCovers, SpentLocks DEF Onward

(* Fees that are unlocked are those of a bounty.                           *)
LEMMA UnlockedFees ==
  ASSUME Course, NEW a, a.fee \in Int, a.dao \in Int,
         fees' = CommissionUnlocked(a)
  PROVE  /\ fees'.balance = fees.balance /\ fees'.dao_balance = fees.dao_balance
         /\ fees'.locked = fees.locked - a.fee
         /\ fees'.dao_locked = fees.dao_locked - a.dao
<1>1. fees \in [balance: Nat, locked: Nat, dao_balance: Nat, dao_locked: Nat]
  BY MoneyTypes
<1>2. fees' = [fees EXCEPT !.locked = fees.locked - a.fee,
                           !.dao_locked = fees.dao_locked - a.dao]
  BY Zenon DEF CommissionUnlocked
<1> QED BY <1>1, <1>2

(* What a refund takes off the fees.                                       *)
LEMMA RefundedFees ==
  ASSUME Course, NEW a, a.fee \in Int, a.dao \in Int,
         fees' = CommissionRefunded(a)
  PROVE  /\ fees'.balance = fees.balance - a.fee
         /\ fees'.dao_balance = fees.dao_balance - a.dao
         /\ fees'.locked = fees.locked - a.fee
         /\ fees'.dao_locked = fees.dao_locked - a.dao
<1>1. fees \in [balance: Nat, locked: Nat, dao_balance: Nat, dao_locked: Nat]
  BY MoneyTypes
<1>2. fees' = [fees EXCEPT !.balance = fees.balance - a.fee,
                           !.locked = fees.locked - a.fee,
                           !.dao_balance = fees.dao_balance - a.dao,
                           !.dao_locked = fees.dao_locked - a.dao]
  BY Zenon DEF CommissionRefunded
<1> QED BY <1>1, <1>2

(* The work on all subtasks is accepted: the fees are earned.              *)
LEMMA DoneMoney ==
  ASSUME Onward, NEW q, NEW id \in BountyId, TasksDone(q, id)
  PROVE  (Covers => Covers') /\ (Locks => Locks')
<1> PICK b, c : b = bounties[id] /\ c = bounties'[id]
  OBVIOUS
<1> PICK a : a = AmountsForPayment(b, Nil)
  OBVIOUS
<1>1. /\ b.terms.mode = "DifferentTasks" /\ ~b.terms.postpaid
      /\ b.status = "ManyClaimed" /\ c.status = "Completed"
      /\ fees' = CommissionUnlocked(a) /\ UNCHANGED held
  BY DEF TasksDone
<1>2. Sane(b) /\ Sane(c)
  BY OnwardSane
<1>3. a.fee = b.platform_fee /\ a.dao = b.dao_fee
  BY <1>1, PlainPay
<1>4. b.platform_fee \in Nat /\ b.dao_fee \in Nat
  <2>1. b \in Bounty
    BY <1>2 DEF Sane
  <2> QED BY <2>1, BountyTypes
<1>5. Falls(b, c)
  <2>1. Steady(id) /\ Status(id) # "Absent"
    BY <1>1 DEF Onward, Everybody, Status
  <2> QED BY <2>1, EventFalls DEF Onward
<1>6. Lowers(b, c, 0, b.platform_fee, b.dao_fee)
  BY <1>1, <1>2, <1>5, AcceptedDrops
<1>7. Spends(id, 0, b.platform_fee, b.dao_fee)
  <2>1. held \in Nat
    BY MoneyTypes DEF Onward
  <2>2. Spares
    BY <1>1, <2>1, OnwardSpares
  <2> QED BY <1>4, <1>6, <2>2 DEF Spares, Spends
<1>8. /\ held \in Nat /\ fees.locked \in Nat /\ fees.dao_locked \in Nat
      /\ fees.balance \in Nat /\ fees.dao_balance \in Nat
  BY MoneyTypes DEF Onward
<1>9. /\ fees'.balance = fees.balance /\ fees'.dao_balance = fees.dao_balance
      /\ fees'.locked = fees.locked - a.fee
      /\ fees'.dao_locked = fees.dao_locked - a.dao
  BY <1>1, <1>3, <1>4, UnlockedFees DEF Onward
<1>10. /\ Backing' >= Backing - 0
       /\ fees'.locked >= fees.locked - b.platform_fee
       /\ fees'.dao_locked >= fees.dao_locked - b.dao_fee
  BY <1>1, <1>3, <1>4, <1>8, <1>9 DEF Backing
<1> QED BY <1>7, <1>10, SpentCovers, SpentLocks DEF Onward

(* A penalty is an amount, and no more than the fee where the percentages  *)
(* are so.                                                                 *)
LEMMA PenaltyWithin ==
  ASSUME NEW fee \in Nat, NEW penalty \in Nat, NEW pct \in Nat
  PROVE  /\ Penalty(fee, penalty, pct) \in Nat
         /\ penalty <= pct => Penalty(fee, penalty, pct) <= fee
<1>1. CASE pct = 0
  BY <1>1 DEF Penalty
<1>2. CASE pct # 0
  <2>1. pct > 0 /\ fee * penalty \in Nat
    BY <1>2
  <2>2. PICK p \in Nat : p = (fee * penalty) \div pct /\ p * pct <= fee * penalty
    BY <2>1, Rounded
  <2>3. Penalty(fee, penalty, pct) = p
    BY <1>2, <2>2 DEF Penalty
  <2>4. ASSUME penalty <= pct
        PROVE  p <= fee
    <3>1. PICK d \in Nat : pct = penalty + d
      <4>1. pct - penalty \in Nat /\ pct = penalty + (pct - penalty)
        BY <2>4
      <4> QED BY <4>1
    <3>2. fee * pct = fee * penalty + fee * d /\ fee * d \in Nat
      BY <3>1
    <3>3. p * pct <= fee * pct
      BY <2>1, <2>2, <3>2
    <3>4. ASSUME p >= fee + 1
          PROVE  FALSE
      <4>1. PICK e \in Nat : p = fee + 1 + e
        <5>1. p - (fee + 1) \in Nat /\ p = fee + 1 + (p - (fee + 1))
          BY <3>4
        <5> QED BY <5>1
      <4>2. p * pct = fee * pct + pct + e * pct
        BY <4>1
      <4>3. e * pct \in Nat /\ fee * pct \in Nat
        OBVIOUS
      <4> QED BY <2>1, <3>3, <4>2, <4>3
    <3> QED BY <3>4
  <2> QED BY <2>2, <2>3, <2>4
<1> QED BY <1>1, <1>2

(* What a cancelled bounty returns.                                        *)
LEMMA ReturnFacts ==
  ASSUME NEW b, Sane(b), b.status \in {"New", "AwaitingClaims"},
         NEW a, a = AmountsToReturn(b)
  PROVE  /\ a.pay \in Nat /\ a.fee \in Nat /\ a.dao \in Nat
         /\ ~b.terms.postpaid /\ b.terms.mode # "OneForAll" => a.pay = b.amount
<1>1. /\ b \in Bounty /\ b.status # "Absent"
  BY DEF Sane
<1>2. /\ b.terms.slots \in Nat /\ b.terms.slots > 0 /\ b.paid_slots \in Nat
      /\ b.amount \in Nat /\ b.platform_fee \in Nat /\ b.dao_fee \in Nat
  BY <1>1, BountyTypes
<1>3. CASE b.terms.postpaid
  BY <1>3 DEF AmountsToReturn, Nothing
<1>4. CASE /\ ~b.terms.postpaid
           /\ b.terms.mode = "OneForAll" /\ b.status = "AwaitingClaims"
  <2> PICK n \in Nat, m \in Nat : n = b.terms.slots /\ m = b.paid_slots /\ n > 0
    BY <1>2
  <2>1. m <= n
    BY <1>1, <1>4 DEF Sane
  <2>2. PICK d \in Nat : d = n - m
    BY <2>1
  <2>3. /\ a.pay = (b.amount \div n) * d /\ a.fee = (b.platform_fee \div n) * d
        /\ a.dao = (b.dao_fee \div n) * d
    BY <1>4, <2>2 DEF AmountsToReturn
  <2>4. \A x \in Nat : (x \div n) * d \in Nat
    <3>1. \A x \in Nat : x \div n \in Nat
      BY Rounded
    <3> QED BY <3>1
  <2> QED BY <1>2, <1>4, <2>3, <2>4
<1>5. CASE /\ ~b.terms.postpaid
           /\ ~(b.terms.mode = "OneForAll" /\ b.status = "AwaitingClaims")
  <2>1. a.pay = b.amount /\ a.fee = b.platform_fee /\ a.dao = b.dao_fee
    BY <1>5 DEF AmountsToReturn
  <2> QED BY <1>2, <2>1
<1> QED BY <1>3, <1>4, <1>5

(* The penalties for a cancelled bounty are no more than the fees.         *)
PenaltiesFit ==
  /\ config.penalty_platform_pct <= config.platform_pct
  /\ config.penalty_dao_pct <= config.dao_pct

(* The owner gets no more than was deposited, and with fitting penalties   *)
(* no less than the reward that is left.                                   *)
LEMMA OwnerGets ==
  ASSUME Course, NEW b, Sane(b), b.status \in {"New", "AwaitingClaims"},
         NEW a, a = AmountsToReturn(b)
  PROVE  /\ AmountToOwner(b) \in Int
         /\ AmountToOwner(b) <= a.pay + a.fee + a.dao
         /\ PenaltiesFit => AmountToOwner(b) >= a.pay
<1> PICK p, d :
      /\ p = Penalty(a.fee, config.penalty_platform_pct, config.platform_pct)
      /\ d = Penalty(a.dao, config.penalty_dao_pct, config.dao_pct)
  OBVIOUS
<1>1. config \in Config
  BY BondTypes
<1>2. /\ config.penalty_platform_pct \in Nat /\ config.platform_pct \in Nat
      /\ config.penalty_dao_pct \in Nat /\ config.dao_pct \in Nat
  BY <1>1 DEF Config
<1>3. a.pay \in Nat /\ a.fee \in Nat /\ a.dao \in Nat
  BY ReturnFacts
<1>4. p \in Nat /\ d \in Nat
  BY <1>2, <1>3, PenaltyWithin
<1>5. PenaltiesFit => p <= a.fee /\ d <= a.dao
  BY <1>2, <1>3, PenaltyWithin DEF PenaltiesFit
<1>6. AmountToOwner(b) = a.pay + a.fee - p + a.dao - d
  BY Zenon DEF AmountToOwner
<1> QED BY <1>3, <1>4, <1>5, <1>6

(* A bounty is cancelled.                                                  *)
LEMMA CancelledBounty ==
  ASSUME Onward, NEW id \in BountyId, Cancellation(id),
         Status(id) \in {"New", "AwaitingClaims"},
         NEW a, a = AmountsToReturn(bounties[id])
  PROVE  /\ Sane(bounties[id]) /\ a.pay \in Nat /\ a.fee \in Nat /\ a.dao \in Nat
         /\ Mode(id)' = Mode(id)
         /\ fees'.balance = fees.balance - a.fee
         /\ fees'.dao_balance = fees.dao_balance - a.dao
         /\ fees'.locked = fees.locked - a.fee
         /\ fees'.dao_locked = fees.dao_locked - a.dao
         /\ Mode(id) # "Contest" \/ bounties[id].terms.postpaid =>
              Lowers(bounties[id], bounties'[id], a.pay, a.fee, a.dao)
<1> PICK b, c : b = bounties[id] /\ c = bounties'[id]
  OBVIOUS
<1>1. Sane(b) /\ Sane(c)
  BY OnwardSane
<1>2. a.pay \in Nat /\ a.fee \in Nat /\ a.dao \in Nat
  BY <1>1, ReturnFacts DEF Status
<1>3. /\ fees'.balance = fees.balance - a.fee
      /\ fees'.dao_balance = fees.dao_balance - a.dao
      /\ fees'.locked = fees.locked - a.fee
      /\ fees'.dao_locked = fees.dao_locked - a.dao
  BY <1>2, RefundedFees DEF Cancellation, Onward
<1>4. /\ c.status \in {"PartiallyCompleted", "Canceled"} /\ c.terms = b.terms
  <2>1. bounties \in [BountyId -> Bounty]
    BY DEF Onward, Course, Work, Shape, TypeOK
  <2>2. \A s : [b EXCEPT !.status = s].terms = b.terms
               /\ [b EXCEPT !.status = s].status = s
    BY <1>1 DEF Sane, Bounty
  <2>3. bounties' = [bounties EXCEPT ![id].status =
           IF bounties[id].status = "AwaitingClaims" THEN "PartiallyCompleted"
           ELSE "Canceled"]
    BY Zenon DEF Cancellation
  <2>4. c = [b EXCEPT !.status =
           IF b.status = "AwaitingClaims" THEN "PartiallyCompleted"
           ELSE "Canceled"]
    BY <2>1, <2>3
  <2> QED BY <2>2, <2>4
<1>5. b.terms.mode = "OneForAll" /\ b.status = "New" => b.paid_slots = 0
  BY DEF Onward, Everybody, Steady, Unpaid, HasMode, Status, Mode
<1>6. ASSUME b.terms.mode # "Contest" \/ b.terms.postpaid
      PROVE  Lowers(b, c, a.pay, a.fee, a.dao)
  BY <1>1, <1>4, <1>5, <1>6, ReturnedDrops DEF Status
<1> QED BY <1>1, <1>2, <1>3, <1>4, <1>6 DEF Mode

(* ... in the call itself: the owner gets nothing back.                    *)
LEMMA RefuseMoney ==
  ASSUME Onward, NEW id \in BountyId, Refuses(id)
  PROVE  (Covers => Covers') /\ (PenaltiesFit /\ Locks => Locks')
<1> PICK b, a : b = bounties[id] /\ a = AmountsToReturn(b)
  OBVIOUS
<1>1. /\ Cancellation(id) /\ AmountToOwner(b) = 0
      /\ Status(id) \in {"New", "AwaitingClaims"} /\ UNCHANGED held
  BY Zenon DEF Refuses, bounty_cancel, Status, tokens
<1>2. /\ Sane(b) /\ a.pay \in Nat /\ a.fee \in Nat /\ a.dao \in Nat
      /\ fees'.balance = fees.balance - a.fee
      /\ fees'.dao_balance = fees.dao_balance - a.dao
      /\ fees'.locked = fees.locked - a.fee
      /\ fees'.dao_locked = fees.dao_locked - a.dao
      /\ b.terms.mode # "Contest" \/ b.terms.postpaid =>
           Lowers(b, bounties'[id], a.pay, a.fee, a.dao)
  BY <1>1, CancelledBounty DEF Mode
<1>3. /\ held \in Nat /\ fees.locked \in Nat /\ fees.dao_locked \in Nat
      /\ fees.balance \in Nat /\ fees.dao_balance \in Nat
  BY MoneyTypes DEF Onward
<1>4. Spares
  BY <1>1, <1>3, OnwardSpares
<1>5. Covers => Covers'
  <2>1. Backing' >= Backing
    BY <1>1, <1>2, <1>3 DEF Backing
  <2> QED BY <1>4, <2>1, SparedCovers DEF Onward
<1>6. ASSUME PenaltiesFit, Locks
      PROVE  Locks'
  <2>1. b.terms.mode # "Contest" \/ b.terms.postpaid
    <3>1. SUFFICES ASSUME b.terms.mode = "Contest", ~b.terms.postpaid
                   PROVE  FALSE
      OBVIOUS
    <3>2. a.pay = b.amount
      BY <1>1, <1>2, <3>1, ReturnFacts DEF Status
    <3>3. b.amount > 0
      BY <1>1, <3>1 DEF Onward, Everybody, Steady, Funded, Status
    <3>4. 0 >= a.pay
      BY <1>1, <1>2, <1>6, OwnerGets DEF Onward, Status
    <3> QED BY <1>2, <3>2, <3>3, <3>4
  <2>2. Spends(id, a.pay, a.fee, a.dao)
    BY <1>2, <1>4, <2>1 DEF Spends, Spares
  <2>3. /\ fees'.locked >= fees.locked - a.fee
        /\ fees'.dao_locked >= fees.dao_locked - a.dao
    BY <1>2, <1>3
  <2> QED BY <1>6, <2>2, <2>3, SpentLocks DEF Onward
<1> QED BY <1>5, <1>6

(* The fees that are locked are part of those held.                        *)
Reserved ==
  fees.locked <= fees.balance /\ fees.dao_locked <= fees.dao_balance

(* Nothing was returned for a bounty that is not there.                    *)
Refunds ==
  /\ refunded \in [BountyId -> Nat]
  /\ \A id \in BountyId : Status(id) = "Absent" => refunded[id] = 0

(* What lies behind the bounties, where a payment leaves.                  *)
LEMMA BackingFalls ==
  ASSUME NEW h, NEW n, NEW b, NEW d, NEW p, NEW f, NEW e,
         {h, n, b, d, p, f, e} \subseteq Int, n <= p + f + e
  PROVE  (h - n) - (b - f) - (d - e) >= (h - b - d) - p
<1>1. /\ h \in Int /\ n \in Int /\ b \in Int /\ d \in Int
      /\ p \in Int /\ f \in Int /\ e \in Int
  BY Zenon
<1> QED BY <1>1

LEMMA LeftOver ==
  ASSUME NEW x \in Nat, NEW y \in Nat
  PROVE  x - (x - y) = y
OBVIOUS

LEMMA SameBacking ==
  ASSUME NEW h, NEW n, NEW b, NEW d, NEW x, NEW y,
         {h, n, b, d, x, y} \subseteq Int, x + y = b + d - n
  PROVE  (h - n) - x - y >= h - b - d
<1>1. /\ h \in Int /\ n \in Int /\ b \in Int /\ d \in Int
      /\ x \in Int /\ y \in Int
  BY Zenon
<1> QED BY <1>1

LEMMA NoneLeft ==
  ASSUME NEW x \in Int
  PROVE  x - 0 = x /\ x >= x
OBVIOUS

(* What the rest of the invariant says of a promise that is out.           *)
LEMMA CallSound ==
  ASSUME Course, NEW i \in 1 .. Len(calls)
  PROVE  calls[i] \in Calls /\ Sound(calls[i]) /\ Fit(calls[i])
BY BondTypes DEF Course, FitSeq, Work, Addressed, SoundSeq

(* A reward is paid, as it was promised.                                   *)
LEMMA PaidMoney ==
  ASSUME Onward, NEW i \in 1 .. Len(calls), after_ft_transfer(i),
         Exact(calls[i])
  PROVE  (Covers => Covers') /\ (Locks => Locks')
<1> PICK call : call = calls[i]
  OBVIOUS
<1> PICK id, k, place, a :
      /\ id = call.id /\ k = call.claim /\ place = call.place
      /\ a = call.amounts
  OBVIOUS
<1>0. Course /\ call \in Calls /\ Sound(call) /\ Fit(call) /\ Exact(call)
  BY CallSound DEF Onward
<1>1. /\ call.kind = "payout"
      /\ a.pay <= held /\ held' = held - a.pay
  BY Zenon DEF after_ft_transfer, Transferred
<1>2. /\ MayComplete(id, k, a, place)
      /\ a = AmountsForPayment(bounties[id], place)
      /\ Mode(id) = "Contest" => place \in UsedPlaces(bounties[id])
  BY <1>0, <1>1 DEF Exact
<1>3. Complete(id, k, a, place)
  BY <1>2, Zenon DEF after_ft_transfer
<1>4. /\ id \in BountyId /\ k \in ClaimKey /\ k[1] = id /\ a \in Amounts
      /\ a.pay \in Nat
      /\ Status(id) # "Absent" /\ Mode(id) # "DifferentTasks"
      /\ ~bounties[id].terms.postpaid
  <2>1. id \in BountyId /\ a \in Amounts /\ k \in ClaimKey \cup {Nil}
    BY <1>0, <1>1, CallFacts
  <2>2. k # Nil /\ a.pay \in Nat /\ Status(id) # "Absent"
        /\ Mode(id) # "DifferentTasks" /\ ~bounties[id].terms.postpaid
    BY <1>0, <1>1 DEF Fit
  <2>3. k[1] = id
    BY <1>0, <1>1, <2>2 DEF Sound
  <2> QED BY <2>1, <2>2, <2>3
<1>5. a.pay \in Int /\ a.fee \in Int /\ a.dao \in Int
  BY <1>4 DEF Amounts
<1> PICK b, c : b = bounties[id] /\ c = bounties'[id]
  OBVIOUS
<1>6. Sane(b) /\ Sane(c)
  BY <1>4, OnwardSane
<1>7. /\ c = PaidBounty(b, k, place)
      /\ fees' = CommissionUnlocked(a)
  <2>1. /\ bounties' = [bounties EXCEPT ![id] = PaidBounty(b, k, place)]
        /\ fees' = CommissionUnlocked(a)
    BY <1>3, Zenon DEF Complete
  <2>2. bounties \in [BountyId -> Bounty]
    BY <1>0 DEF Course, Work, Shape, TypeOK
  <2> QED BY <1>4, <2>1, <2>2
<1>8. /\ b.status \in Running /\ claims[k].status \in {"Completed", "Disputed"}
      /\ b.terms.mode = "Contest" => b.winners[place] = Nil
  BY <1>2, <1>4 DEF MayComplete, Mode
<1>9. b.terms.mode = "OneForAll" =>
        /\ b.occupied_slots >= 1
        /\ b.occupied_slots + b.paid_slots <= b.terms.slots
  <2> SUFFICES ASSUME b.terms.mode = "OneForAll"
               PROVE  /\ b.occupied_slots >= 1
                      /\ b.occupied_slots + b.paid_slots <= b.terms.slots
    OBVIOUS
  <2>1. /\ b.occupied_slots = Cardinality(ClaimsOf(id, Occupying))
        /\ b.occupied_slots + b.paid_slots <= b.terms.slots
    BY <1>0, <1>4 DEF Course, SlotsRun, HasMode, Mode
  <2>2. k \in ClaimsOf(id, Occupying)
    BY <1>4, <1>8 DEF ClaimsOf, Occupying
  <2>3. /\ Cardinality(ClaimsOf(id, Occupying)) \in Nat
        /\ Cardinality(ClaimsOf(id, Occupying)) # 0
    <3>1. "Absent" \notin Occupying
      BY DEF Occupying
    <3> QED BY <1>0, <1>4, <2>2, <3>1, CountFacts
  <2> QED BY <2>1, <2>3
<1>10. Lowers(b, c, a.pay, a.fee, a.dao)
  BY <1>2, <1>4, <1>6, <1>7, <1>8, <1>9, PaidDrops DEF Mode
<1>11. /\ held \in Nat /\ fees.locked \in Nat /\ fees.dao_locked \in Nat
       /\ fees.balance \in Nat /\ fees.dao_balance \in Nat
  BY <1>0, MoneyTypes
<1>12. Spends(id, a.pay, a.fee, a.dao)
  <2>1. Spares
    BY <1>1, <1>4, <1>11, OnwardSpares
  <2> QED BY <1>4, <1>5, <1>10, <2>1 DEF Spares, Spends
<1>13. /\ fees'.balance = fees.balance /\ fees'.dao_balance = fees.dao_balance
       /\ fees'.locked = fees.locked - a.fee
       /\ fees'.dao_locked = fees.dao_locked - a.dao
  BY <1>0, <1>5, <1>7, UnlockedFees
<1>14. /\ Backing' >= Backing - a.pay
       /\ fees'.locked >= fees.locked - a.fee
       /\ fees'.dao_locked >= fees.dao_locked - a.dao
  <2>1. Backing' = (held - a.pay) - (fees.balance - 0) - (fees.dao_balance - 0)
    <3>1. fees.balance - 0 = fees.balance /\ fees.dao_balance - 0 = fees.dao_balance
      BY <1>11, NoneLeft
    <3>2. Backing' = held' - fees'.balance - fees'.dao_balance
      BY DEF Backing
    <3> QED BY <1>1, <1>13, <3>1, <3>2, Zenon
  <2>2. Backing = held - fees.balance - fees.dao_balance
    BY DEF Backing
  <2>3. a.pay <= a.pay + 0 + 0
    BY <1>5
  <2>4. (held - a.pay) - (fees.balance - 0) - (fees.dao_balance - 0)
          >= (held - fees.balance - fees.dao_balance) - a.pay
    <3>1. a.pay \in Int /\ 0 \in Int
      BY <1>5
    <3>2. held \in Int /\ fees.balance \in Int /\ fees.dao_balance \in Int
      BY <1>11
    <3>3. {held, a.pay, fees.balance, fees.dao_balance, a.pay, 0, 0} \subseteq Int
      BY <3>1, <3>2, Zenon
    <3> QED BY <2>3, <3>3, BackingFalls, Zenon
  <2>5. Backing' >= Backing - a.pay
    BY <2>1, <2>2, <2>4, Zenon
  <2>6. /\ fees.locked - a.fee \in Int /\ fees.dao_locked - a.dao \in Int
    BY <1>5, <1>11
  <2> QED BY <1>13, <2>5, <2>6, NoneLeft, Zenon
<1> QED BY <1>12, <1>14, SpentCovers, SpentLocks DEF Onward

(* A subtask is withdrawn, as it was promised.                             *)
LEMMA WithdrawnMoney ==
  ASSUME Onward, NEW i \in 1 .. Len(calls), after_bounty_withdraw(i),
         Exact(calls[i])
  PROVE  (Covers => Covers') /\ (Locks => Locks')
<1> PICK call : call = calls[i]
  OBVIOUS
<1> PICK k, slot, n : k = call.claim /\ slot = call.slot /\ n = call.amount
  OBVIOUS
<1>0. Course /\ call \in Calls /\ Sound(call) /\ Fit(call) /\ Exact(call)
  BY CallSound DEF Onward
<1>1. /\ call.kind = "withdraw" /\ UNCHANGED fees
      /\ n <= held /\ held' = held - n
  BY Zenon DEF after_bounty_withdraw, Transferred
<1>2. /\ Status(k[1]) = "Completed"
      /\ claims[k].status \in {"Completed", "CompletedWithDispute"}
      /\ n = PartialAmount(k, slot)
  BY <1>0, <1>1 DEF Exact
<1>3. /\ k \in ClaimKey /\ Mode(k[1]) = "DifferentTasks"
      /\ ~bounties[k[1]].terms.postpaid /\ claims[k].slot = slot /\ n \in Nat
  <2>1. k \in ClaimKey
    BY <1>0, <1>1, CallFacts
  <2> QED BY <1>0, <1>1, <2>1 DEF Fit
<1> PICK id : id = k[1]
  OBVIOUS
<1> PICK b, c : b = bounties[id] /\ c = bounties'[id]
  OBVIOUS
<1>4. id \in BountyId
  BY <1>3, KeyType
<1>5. Sane(b) /\ Sane(c)
  BY <1>4, OnwardSane
<1>6. c = ResetSlot(b, slot)
  <2>1. SlotFinalize(k, slot)
    BY <1>2, Zenon DEF after_bounty_withdraw
  <2>2. bounties' = [bounties EXCEPT ![id] = ResetSlot(b, slot)]
    BY <2>1, Zenon DEF SlotFinalize
  <2>3. bounties \in [BountyId -> Bounty]
    BY <1>0 DEF Course, Work, Shape, TypeOK
  <2> QED BY <1>4, <2>2, <2>3
<1>7. Lowers(b, c, n, 0, 0)
  BY <1>0, <1>2, <1>3, <1>5, <1>6, WithdrawnDrops DEF Mode, Status
<1>8. /\ held \in Nat /\ fees.locked \in Nat /\ fees.dao_locked \in Nat
      /\ fees.balance \in Nat /\ fees.dao_balance \in Nat
  BY <1>0, MoneyTypes
<1>9. Spends(id, n, 0, 0)
  <2>1. Spares
    BY <1>1, <1>3, <1>8, OnwardSpares
  <2> QED BY <1>3, <1>4, <1>7, <2>1 DEF Spares, Spends
<1>10. /\ Backing' >= Backing - n
       /\ fees'.locked >= fees.locked - 0
       /\ fees'.dao_locked >= fees.dao_locked - 0
  <2>0. fees.balance - 0 = fees.balance /\ fees.dao_balance - 0 = fees.dao_balance
        /\ fees.locked - 0 = fees.locked /\ fees.dao_locked - 0 = fees.dao_locked
        /\ fees.locked >= fees.locked /\ fees.dao_locked >= fees.dao_locked
    BY <1>8, NoneLeft
  <2>1. Backing' = (held - n) - (fees.balance - 0) - (fees.dao_balance - 0)
    <3>1. Backing' = held' - fees'.balance - fees'.dao_balance
      BY DEF Backing
    <3> QED BY <1>1, <2>0, <3>1, Zenon
  <2>2. Backing = held - fees.balance - fees.dao_balance
    BY DEF Backing
  <2>3. n <= n + 0 + 0
    BY <1>3
  <2>4. (held - n) - (fees.balance - 0) - (fees.dao_balance - 0)
          >= (held - fees.balance - fees.dao_balance) - n
    <3>1. n \in Int /\ 0 \in Int
      BY <1>3
    <3>2. held \in Int /\ fees.balance \in Int /\ fees.dao_balance \in Int
      BY <1>8
    <3>3. {held, n, fees.balance, fees.dao_balance, n, 0, 0} \subseteq Int
      BY <3>1, <3>2, Zenon
    <3> QED BY <2>3, <3>3, BackingFalls, Zenon
  <2>5. Backing' >= Backing - n
    BY <2>1, <2>2, <2>4, Zenon
  <2> QED BY <1>1, <2>0, <2>5, Zenon
<1> QED BY <1>9, <1>10, SpentCovers, SpentLocks DEF Onward

(* The fees that are free are handed over, as it was promised.             *)
LEMMA FeesMoney ==
  ASSUME Onward, NEW i \in 1 .. Len(calls), after_fees_payout(i),
         Exact(calls[i]), Reserved
  PROVE  /\ (Covers => Covers') /\ (Locks => Locks') /\ Reserved'
         /\ held' <= held
<1> PICK call : call = calls[i]
  OBVIOUS
<1> PICK n, p : n = call.amount /\ p = call.platform
  OBVIOUS
<1>0. Course
  BY DEF Onward
<1>1. /\ call.kind = "fees" /\ held' = held - n
      /\ fees' = LET left == IF p
                             THEN [fees EXCEPT !.balance = fees.balance - n]
                             ELSE [fees EXCEPT !.dao_balance = fees.dao_balance - n]
                 IN IF left.balance >= 0 /\ left.dao_balance >= 0 THEN left ELSE fees
  BY Zenon DEF after_fees_payout, Transferred
<1>2. n = IF p THEN fees.balance - fees.locked
               ELSE fees.dao_balance - fees.dao_locked
  BY <1>1 DEF Exact
<1>3. /\ held \in Nat
      /\ fees \in [balance: Nat, locked: Nat, dao_balance: Nat, dao_locked: Nat]
      /\ fees.balance \in Nat /\ fees.locked \in Nat
      /\ fees.dao_balance \in Nat /\ fees.dao_locked \in Nat
  BY <1>0, MoneyTypes
<1>4. n \in Nat
  BY <1>2, <1>3 DEF Reserved
<1>5. /\ fees'.balance + fees'.dao_balance = fees.balance + fees.dao_balance - n
      /\ fees'.locked = fees.locked /\ fees'.dao_locked = fees.dao_locked
      /\ fees'.locked <= fees'.balance /\ fees'.dao_locked <= fees'.dao_balance
      /\ fees'.balance \in Int /\ fees'.dao_balance \in Int
  <2>1. CASE p
    <3>1. PICK left : left = [fees EXCEPT !.balance = fees.balance - n]
      OBVIOUS
    <3>2. /\ left.balance = fees.locked /\ left.dao_balance = fees.dao_balance
          /\ left.locked = fees.locked /\ left.dao_locked = fees.dao_locked
      <4>1. /\ left.balance = fees.balance - n /\ left.dao_balance = fees.dao_balance
            /\ left.locked = fees.locked /\ left.dao_locked = fees.dao_locked
        BY <1>3, <3>1, Zenon
      <4>2. fees.balance - n = fees.locked
        <5>1. n = fees.balance - fees.locked
          BY <1>2, <2>1, Zenon
        <5>2. fees.balance - (fees.balance - fees.locked) = fees.locked
          BY <1>3, LeftOver, Zenon
        <5> QED BY <5>1, <5>2, Zenon
      <4> QED BY <4>1, <4>2, Zenon
    <3>3. fees' = left
      <4>1. left.balance >= 0 /\ left.dao_balance >= 0
        BY <1>3, <3>2
      <4> QED BY <1>1, <2>1, <3>1, <4>1, Zenon
    <3> QED BY <1>2, <1>3, <2>1, <3>2, <3>3 DEF Reserved
  <2>2. CASE ~p
    <3>1. PICK left : left = [fees EXCEPT !.dao_balance = fees.dao_balance - n]
      OBVIOUS
    <3>2. /\ left.balance = fees.balance /\ left.dao_balance = fees.dao_locked
          /\ left.locked = fees.locked /\ left.dao_locked = fees.dao_locked
      <4>1. /\ left.dao_balance = fees.dao_balance - n /\ left.balance = fees.balance
            /\ left.locked = fees.locked /\ left.dao_locked = fees.dao_locked
        BY <1>3, <3>1, Zenon
      <4>2. fees.dao_balance - n = fees.dao_locked
        <5>1. n = fees.dao_balance - fees.dao_locked
          BY <1>2, <2>2, Zenon
        <5>2. fees.dao_balance - (fees.dao_balance - fees.dao_locked)
                = fees.dao_locked
          BY <1>3, LeftOver, Zenon
        <5> QED BY <5>1, <5>2, Zenon
      <4> QED BY <4>1, <4>2, Zenon
    <3>3. fees' = left
      <4>1. left.balance >= 0 /\ left.dao_balance >= 0
        BY <1>3, <3>2
      <4> QED BY <1>1, <2>2, <3>1, <4>1, Zenon
    <3> QED BY <1>2, <1>3, <2>2, <3>2, <3>3 DEF Reserved
  <2> QED BY <2>1, <2>2
<1>6. Backing' >= Backing
  <2>1. /\ Backing' = held' - fees'.balance - fees'.dao_balance
        /\ Backing = held - fees.balance - fees.dao_balance
    BY DEF Backing
  <2>2. (held - n) - fees'.balance - fees'.dao_balance
          >= held - fees.balance - fees.dao_balance
    <3>1. n \in Int /\ held \in Int
      BY <1>3, <1>4
    <3>2. fees.balance \in Int /\ fees.dao_balance \in Int
      BY <1>3
    <3>3. {held, n, fees.balance, fees.dao_balance,
           fees'.balance, fees'.dao_balance} \subseteq Int
      BY <1>5, <3>1, <3>2, Zenon
    <3> QED BY <1>5, <3>3, SameBacking, Zenon
  <2> QED BY <1>1, <2>1, <2>2, Zenon
<1>7. held' <= held
  BY <1>1, <1>3, <1>4
<1>8. Spares
  BY <1>7, OnwardSpares
<1>9. fees'.locked >= fees.locked /\ fees'.dao_locked >= fees.dao_locked
  BY <1>3, <1>5
<1> QED BY <1>5, <1>6, <1>7, <1>8, <1>9, SparedCovers, SparedLocks
        DEF Reserved, Onward

(* A bounty is refunded, as it was promised; a contest is left out.        *)
LEMMA RefundMoney ==
  ASSUME Onward, NEW i \in 1 .. Len(calls), after_refund_bounty_amount(i),
         Exact(calls[i]), Reserved, Refunds, ContestsKept'
  PROVE  (Covers => Covers') /\ (Locks => Locks')
<1> PICK call : call = calls[i]
  OBVIOUS
<1> PICK id, n : id = call.id /\ n = call.amount
  OBVIOUS
<1> PICK b, a : b = bounties[id] /\ a = AmountsToReturn(b)
  OBVIOUS
<1>0. Course /\ call \in Calls /\ Fit(call) /\ Exact(call)
  BY CallSound DEF Onward
<1>1. /\ call.kind = "refund" /\ n <= held /\ held' = held - n
      /\ refunded' = [refunded EXCEPT ![id] = refunded[id] + n]
  BY Zenon DEF after_refund_bounty_amount, Transferred
<1>2. id \in BountyId /\ n \in Nat /\ n # 0
  <2>1. id \in BountyId
    BY <1>0, <1>1, CallFacts
  <2> QED BY <1>0, <1>1, <2>1 DEF Fit
<1>3. /\ Status(id) \in {"New", "AwaitingClaims"}
      /\ Returnable(b) /\ LockedCovers(a) /\ n = AmountToOwner(b)
  BY <1>0, <1>1 DEF Exact
<1>4. /\ held \in Nat /\ fees.locked \in Nat /\ fees.dao_locked \in Nat
      /\ fees.balance \in Nat /\ fees.dao_balance \in Nat
  BY <1>0, MoneyTypes
<1>5. Sane(b) /\ a.pay \in Nat /\ a.fee \in Nat /\ a.dao \in Nat
  BY <1>2, <1>3, OnwardSane, ReturnFacts DEF Status
<1>6. Cancellation(id)
  <2>1. CommissionRefundable(a)
    BY <1>3, <1>4, <1>5 DEF CommissionRefundable, LockedCovers, Reserved
  <2> QED BY <1>3, <2>1, Zenon DEF after_refund_bounty_amount
<1>7. /\ Mode(id)' = Mode(id)
      /\ fees'.balance = fees.balance - a.fee
      /\ fees'.dao_balance = fees.dao_balance - a.dao
      /\ fees'.locked = fees.locked - a.fee
      /\ fees'.dao_locked = fees.dao_locked - a.dao
      /\ Mode(id) # "Contest" =>
           Lowers(b, bounties'[id], a.pay, a.fee, a.dao)
  BY <1>2, <1>3, <1>6, CancelledBounty
<1>8. Mode(id) # "Contest"
  <2>1. refunded'[id] = refunded[id] + n /\ refunded[id] \in Nat
    BY <1>1, <1>2 DEF Refunds
  <2>2. refunded'[id] # 0
    BY <1>2, <2>1
  <2> QED BY <1>2, <1>7, <2>2 DEF ContestsKept, Mode
<1>9. Spends(id, a.pay, a.fee, a.dao)
  <2>1. Spares
    BY <1>1, <1>2, <1>4, OnwardSpares
  <2> QED BY <1>2, <1>5, <1>7, <1>8, <2>1 DEF Spares, Spends
<1>10. n <= a.pay + a.fee + a.dao
  BY <1>0, <1>3, <1>5, OwnerGets DEF Status
<1>11. /\ Backing' >= Backing - a.pay
       /\ fees'.locked >= fees.locked - a.fee
       /\ fees'.dao_locked >= fees.dao_locked - a.dao
  <2>1. /\ Backing' = held' - fees'.balance - fees'.dao_balance
        /\ Backing = held - fees.balance - fees.dao_balance
    BY DEF Backing
  <2>2. (held - n) - (fees.balance - a.fee) - (fees.dao_balance - a.dao)
          >= (held - fees.balance - fees.dao_balance) - a.pay
    <3>1. n \in Int /\ a.pay \in Int /\ a.fee \in Int /\ a.dao \in Int
      BY <1>2, <1>5
    <3>2. held \in Int /\ fees.balance \in Int /\ fees.dao_balance \in Int
      BY <1>4
    <3>3. {held, n, fees.balance, fees.dao_balance, a.pay, a.fee, a.dao}
            \subseteq Int
      BY <3>1, <3>2, Zenon
    <3> QED BY <1>10, <3>3, BackingFalls, Zenon
  <2>3. Backing' >= Backing - a.pay
    BY <1>1, <1>7, <2>1, <2>2, Zenon
  <2>4. fees.locked - a.fee \in Int /\ fees.dao_locked - a.dao \in Int
    BY <1>4, <1>5
  <2> QED BY <1>7, <2>3, <2>4, NoneLeft, Zenon
<1> QED BY <1>9, <1>11, SpentCovers, SpentLocks DEF Onward

(* At most one promise is out, and it is as exact as when it was made.     *)
InTurn == Len(calls) <= 1 /\ \A j \in 1 .. Len(calls) : Exact(calls[j])

(* The answers that tokens move with, when no other call came in between.  *)
TokensMove(i) ==
  /\ Exact(calls[i]) /\ calls' = <<>>
  /\ \/ after_ft_transfer(i) \/ after_bounty_withdraw(i)
     \/ after_refund_bounty_amount(i) \/ after_fees_payout(i)

(* The kinds of steps there are when no call comes before the answer.      *)
TurnCases ==
  \/ UNCHANGED vars
  \/ Rests(<<>>) \/ Asks(<<>>)
  \/ \E id \in BountyId : Opens(id) /\ calls' = <<>>
  \/ \E id \in BountyId : Refuses(id) /\ calls' = <<>>
  \/ \E id \in BountyId : TasksDone(<<>>, id)
  \/ \E i \in 1 .. Len(calls) : TokensMove(i)

(* There are no others.                                                    *)
LEMMA TurnKinds ==
  ASSUME Course, InTurn, [NextInTurn]_vars
  PROVE  TurnCases
<1>0. calls \in Seq(Calls)
  BY DEF Course, FitSeq
<1>1. CASE UNCHANGED vars
  BY <1>1 DEF TurnCases
<1>2. ASSUME NEW i \in 1 .. Len(calls), Answer(i)
      PROVE  TurnCases
  <2>1. Len(calls) = 1 /\ i = 1
    <3>1. Len(calls) \in Nat
      BY <1>0
    <3>2. Len(calls) <= 1
      BY DEF InTurn
    <3>3. \A n \in Nat : n <= 1 => \A j \in 1 .. n : n = 1 /\ j = 1
      OBVIOUS
    <3> QED BY <1>2, <3>1, <3>2, <3>3, Zenon
  <2>2. Answered(i) = <<>>
    BY <1>0, <2>1 DEF Answered, RemoveAt
  <2>3. ASSUME \/ after_ft_transfer(i) \/ after_bounty_withdraw(i)
               \/ after_refund_bounty_amount(i) \/ after_fees_payout(i)
        PROVE  TurnCases
    <3>1. calls' = Answered(i)
      BY <2>3, Zenon DEF after_ft_transfer, after_bounty_withdraw,
                         after_refund_bounty_amount, after_fees_payout
    <3>2. Exact(calls[i])
      BY <1>2 DEF InTurn
    <3>3. TokensMove(i)
      BY <2>2, <2>3, <3>1, <3>2, Zenon DEF TokensMove
    <3> QED BY <3>3, <1>2, Zenon DEF TurnCases
  <2>4. \/ Rests(Answered(i)) \/ Asks(Answered(i))
        \/ \E id \in BountyId : TasksDone(Answered(i), id)
        \/ after_ft_transfer(i) \/ after_bounty_withdraw(i)
        \/ after_refund_bounty_amount(i) \/ after_fees_payout(i)
    BY <1>2, AnswerTurns
  <2>5. \/ Rests(<<>>) \/ Asks(<<>>)
        \/ \E id \in BountyId : TasksDone(<<>>, id)
        \/ after_ft_transfer(i) \/ after_bounty_withdraw(i)
        \/ after_refund_bounty_amount(i) \/ after_fees_payout(i)
    BY <2>2, <2>4, Zenon
  <2> QED BY <2>3, <2>5, Zenon DEF TurnCases
<1>3. ASSUME calls = <<>>, Next
      PROVE  TurnCases
  <2>1. CASE \/ Tick \/ change_config \/ withdraw_platform_fee
             \/ withdraw_validators_dao_fee \/ withdraw_non_refunded_bonds
    <3>1. Rests(calls) \/ Asks(calls)
      BY <2>1, OwnTurns
    <3> QED BY <1>3, <3>1, Zenon DEF TurnCases
  <2>2. ASSUME NEW id \in BountyId, OnBounty(id)
        PROVE  TurnCases
    <3>1. \/ Rests(calls) \/ Asks(calls)
          \/ Opens(id) \/ TasksDone(calls, id) \/ Refuses(id)
      BY <2>2, BountyTurns
    <3>2. Opens(id) => calls' = calls
      BY Zenon DEF Opens, ft_on_transfer, AddBounty
    <3>3. Refuses(id) => calls' = calls
      BY Zenon DEF Refuses, bounty_cancel
    <3> QED BY <1>3, <2>2, <3>1, <3>2, <3>3, Zenon DEF TurnCases
  <2>3. ASSUME NEW k \in ClaimKey, OnClaim(k)
        PROVE  TurnCases
    <3>1. Rests(calls) \/ Asks(calls) \/ TasksDone(calls, k[1])
      BY <2>3, ClaimTurns
    <3>2. k[1] \in BountyId
      BY <2>3, KeyType
    <3> QED BY <1>3, <3>1, <3>2, Zenon DEF TurnCases
  <2>4. ~(\E i \in 1 .. Len(calls) : Answer(i))
    BY <1>3
  <2> QED BY <1>3, <2>1, <2>2, <2>3, <2>4, Zenon DEF Next
<1> QED BY <1>1, <1>2, <1>3, Zenon DEF NextInTurn

(* A promise stays exact until something happens.                          *)
LEMMA ExactHeld ==
  ASSUME NEW c, Exact(c), UNCHANGED config, UNCHANGED bounties,
         UNCHANGED claims, UNCHANGED fees
  PROVE  Exact(c)'
<1>1. ASSUME NEW id
      PROVE  Status(id)' = Status(id) /\ Mode(id)' = Mode(id)
  BY DEF Status, Mode
<1>2. ASSUME NEW a
      PROVE  LockedCovers(a)' = LockedCovers(a)
  BY DEF LockedCovers
<1>3. ASSUME NEW b
      PROVE  /\ AmountToOwner(b)' = AmountToOwner(b)
             /\ Returnable(b)' = Returnable(b)
  BY DEF AmountToOwner, Returnable
<1>4. ASSUME NEW id, NEW S
      PROVE  ClaimsOf(id, S)' = ClaimsOf(id, S)
  BY DEF ClaimsOf
<1>5. ASSUME NEW k, NEW s
      PROVE  PartialAmount(k, s)' = PartialAmount(k, s)
  BY <1>4 DEF PartialAmount
<1>6. ASSUME NEW id
      PROVE  AllSlotsComplete(id, Nil)' = AllSlotsComplete(id, Nil)
  BY DEF AllSlotsComplete
<1>7. ASSUME NEW id, NEW k, NEW a, NEW p
      PROVE  MayComplete(id, k, a, p)' = MayComplete(id, k, a, p)
  BY <1>2, <1>6 DEF MayComplete
<1> QED BY <1>1, <1>2, <1>3, <1>5, <1>7 DEF Exact

(* The answer that is heard is to the only promise.                        *)
LEMMA LoneCall ==
  ASSUME NEW c
  PROVE  /\ Len(Append(<<>>, c)) = 1
         /\ \A j \in 1 .. Len(Append(<<>>, c)) : Append(<<>>, c)[j] = c
OBVIOUS

(* A promise is exact when it is made, and nothing comes before its        *)
(* answer.                                                                 *)
LEMMA InTurnKept ==
  ASSUME Course, InTurn, [NextInTurn]_vars
  PROVE  InTurn'
<1>1. TurnCases
  BY TurnKinds
<1>2. CASE calls' = <<>>
  BY <1>2 DEF InTurn
<1>3. CASE UNCHANGED vars
  <2>1. /\ UNCHANGED calls /\ UNCHANGED config /\ UNCHANGED bounties
        /\ UNCHANGED claims /\ UNCHANGED fees
    BY <1>3 DEF vars
  <2>2. ASSUME NEW j \in 1 .. Len(calls')
        PROVE  Exact(calls[j])'
    <3> PICK c : c = calls[j]
      OBVIOUS
    <3>1. Exact(c)
      BY <2>1, <2>2 DEF InTurn
    <3>2. Exact(c)'
      BY <2>1, <3>1, ExactHeld
    <3>3. calls'[j] = c
      BY <2>1
    <3> QED BY <3>2, <3>3 DEF Exact
  <2>3. Len(calls') <= 1
    BY <2>1 DEF InTurn
  <2> QED BY <2>2, <2>3 DEF InTurn
<1>4. ASSUME NEW c, calls' = Append(<<>>, c), Exact(c)'
      PROVE  InTurn'
  <2>1. Len(calls') = 1 /\ \A j \in 1 .. Len(calls') : calls'[j] = c
    BY <1>4, LoneCall, Zenon
  <2>2. ASSUME NEW j \in 1 .. Len(calls')
        PROVE  Exact(calls[j])'
    <3>1. calls'[j] = c
      BY <2>1
    <3> QED BY <1>4, <3>1 DEF Exact
  <2>3. Len(calls') <= 1
    BY <2>1
  <2> QED BY <2>2, <2>3 DEF InTurn
<1>5. CASE Rests(<<>>)
  <2>1. ASSUME NEW c, c.kind \notin {"payout", "withdraw", "refund", "fees"},
               calls' = Append(<<>>, c)
        PROVE  InTurn'
    <3>1. Exact(c)'
      BY <2>1 DEF Exact
    <3> QED BY <1>4, <2>1, <3>1
  <2> QED BY <1>2, <1>5, <2>1 DEF Rests
<1>6. CASE Asks(<<>>)
  <2> PICK c : Exact(c) /\ calls' = Append(<<>>, c)
    BY <1>6 DEF Asks
  <2>1. Exact(c)'
    BY <1>6, ExactHeld DEF Asks
  <2> QED BY <1>4, <2>1
<1> QED BY <1>1, <1>2, <1>3, <1>5, <1>6, Zenon DEF TurnCases, TasksDone, TokensMove

(* Tokens are only returned for a bounty that may be cancelled.            *)
LEMMA RefundTurns ==
  ASSUME Course, TurnCases
  PROVE  \/ UNCHANGED refunded
         \/ \E id \in BountyId, n \in Nat :
              /\ Status(id) \in {"New", "AwaitingClaims"}
              /\ refunded' = [refunded EXCEPT ![id] = refunded[id] + n]
<1>1. CASE UNCHANGED vars
  BY <1>1 DEF vars, tokens
<1>2. CASE Rests(<<>>) \/ Asks(<<>>)
  BY <1>2 DEF Rests, Asks
<1>3. ASSUME NEW id \in BountyId, TasksDone(<<>>, id)
      PROVE  UNCHANGED refunded
  BY <1>3 DEF TasksDone
<1>4. ASSUME NEW id \in BountyId, Opens(id)
      PROVE  UNCHANGED refunded
  BY <1>4, Zenon DEF Opens, ft_on_transfer, AddBounty
<1>5. ASSUME NEW id \in BountyId, Refuses(id)
      PROVE  UNCHANGED refunded
  BY <1>5, Zenon DEF Refuses, bounty_cancel, tokens
<1>6. ASSUME NEW i \in 1 .. Len(calls), TokensMove(i)
      PROVE  \/ UNCHANGED refunded
             \/ \E id \in BountyId, n \in Nat :
                  /\ Status(id) \in {"New", "AwaitingClaims"}
                  /\ refunded' = [refunded EXCEPT ![id] = refunded[id] + n]
  <2>1. CASE after_ft_transfer(i) \/ after_bounty_withdraw(i) \/ after_fees_payout(i)
    BY <2>1, Zenon DEF after_ft_transfer, after_bounty_withdraw, after_fees_payout
  <2>2. CASE after_refund_bounty_amount(i)
    <3> PICK call : call = calls[i]
      OBVIOUS
    <3>1. call \in Calls /\ Fit(call) /\ Exact(call)
      BY <1>6, CallSound DEF TokensMove
    <3>2. /\ call.kind = "refund"
          /\ refunded' = [refunded EXCEPT ![call.id] = refunded[call.id] + call.amount]
      BY <2>2, Zenon DEF after_refund_bounty_amount
    <3>3. call.id \in BountyId /\ call.amount \in Nat
      BY <3>1, <3>2, CallFacts DEF Fit
    <3>4. Status(call.id) \in {"New", "AwaitingClaims"}
      BY <3>1, <3>2 DEF Exact
    <3> QED BY <3>2, <3>3, <3>4
  <2> QED BY <1>6, <2>1, <2>2 DEF TokensMove
<1> QED BY <1>1, <1>2, <1>3, <1>4, <1>5, <1>6, Zenon DEF TurnCases

(* What is returned never grows less, nor for a bounty that is not there.  *)
LEMMA RefundsKept ==
  ASSUME Course, TurnCases, BountiesMove, Refunds
  PROVE  /\ Refunds'
         /\ ContestsKept' => ContestsKept
         /\ \A id \in BountyId : refunded'[id] # refunded[id] =>
              Status(id) \in {"New", "AwaitingClaims"}
<1>1. /\ refunded' \in [BountyId -> Nat]
      /\ \A id \in BountyId :
           /\ refunded'[id] >= refunded[id]
           /\ refunded'[id] # refunded[id] => Status(id) \in {"New", "AwaitingClaims"}
  <2>1. CASE UNCHANGED refunded
    BY <2>1 DEF Refunds
  <2>2. ASSUME NEW id \in BountyId, NEW n \in Nat,
               Status(id) \in {"New", "AwaitingClaims"},
               refunded' = [refunded EXCEPT ![id] = refunded[id] + n]
        PROVE  /\ refunded' \in [BountyId -> Nat]
               /\ \A y \in BountyId :
                    /\ refunded'[y] >= refunded[y]
                    /\ refunded'[y] # refunded[y] =>
                         Status(y) \in {"New", "AwaitingClaims"}
    <3>1. refunded \in [BountyId -> Nat]
      BY DEF Refunds
    <3> QED BY <2>2, <3>1
  <2> QED BY <2>1, <2>2, RefundTurns
<1>2. ASSUME NEW id \in BountyId
      PROVE  /\ Status(id)' = "Absent" => Status(id) = "Absent"
             /\ Status(id) # "Absent" => Mode(id)' = Mode(id)
  BY DEF BountiesMove, Later, Status, Mode
<1>3. \A id \in BountyId : Status(id)' = "Absent" => refunded'[id] = 0
  <2> SUFFICES ASSUME NEW id \in BountyId, Status(id)' = "Absent"
               PROVE  refunded'[id] = 0
    OBVIOUS
  <2>1. Status(id) = "Absent"
    BY <1>2
  <2>2. refunded[id] = 0 /\ refunded'[id] = refunded[id]
    BY <1>1, <2>1 DEF Refunds
  <2> QED BY <2>2
<1>4. ASSUME ContestsKept', NEW id \in BountyId, Mode(id) = "Contest"
      PROVE  refunded[id] = 0
  <2>1. CASE Status(id) = "Absent"
    BY <2>1 DEF Refunds
  <2>2. CASE Status(id) # "Absent"
    <3>1. Mode(id)' = "Contest"
      BY <1>2, <1>4, <2>2
    <3>2. refunded'[id] = 0
      BY <1>4, <3>1 DEF ContestsKept
    <3>3. refunded[id] \in Nat /\ refunded'[id] >= refunded[id]
      BY <1>1 DEF Refunds
    <3> QED BY <3>2, <3>3
  <2> QED BY <2>1, <2>2
<1>5. ContestsKept' => ContestsKept
  BY <1>4 DEF ContestsKept
<1>6. Refunds'
  BY <1>1, <1>3 DEF Refunds
<1> QED BY <1>1, <1>5, <1>6

(* All bounties stay in order: one is cancelled only while it is New or    *)
(* waits for claims.                                                       *)
LEMMA EverybodyKept ==
  ASSUME Course, Course', ClaimsStep, Everybody,
         \A id \in BountyId : refunded'[id] # refunded[id] =>
              Status(id) \in {"New", "AwaitingClaims"}
  PROVE  Everybody'
<1>1. ASSUME NEW id \in BountyId
      PROVE  Steady(id)'
  <2>1. Cancels(id) => Status(id) \in {"New", "AwaitingClaims"}
    BY DEF Cancels
  <2>2. Steady(id)
    BY DEF Everybody
  <2> QED BY <2>1, <2>2, SteadyKept
<1> QED BY <1>1 DEF Everybody

(* What is locked is there.                                                *)
LEMMA ReservedFalls ==
  ASSUME NEW x \in Int, NEW y \in Int, NEW f \in Int, x <= y
  PROVE  /\ x - f <= y - f /\ x + f <= y + f
         /\ f >= 0 => x - f <= y
OBVIOUS

(* A payment takes no fees back.                                           *)
LEMMA PaidFeesNat ==
  ASSUME NEW b \in Bounty, NEW place, NEW a, a = AmountsForPayment(b, place)
  PROVE  a.fee \in Nat /\ a.dao \in Nat
<1> PICK n \in Nat : n = b.terms.slots /\ n > 0
  BY BountyTypes
<1>1. b.platform_fee \in Nat /\ b.dao_fee \in Nat
  BY BountyTypes
<1>2. ASSUME NEW x \in Nat
      PROVE  x \div n \in Nat /\ x - (x \div n) * (n - 1) \in Nat
  <2>1. n - 1 \in Nat /\ n - 1 <= n
    OBVIOUS
  <2>2. PartsLeft(x, n, n - 1) = x - (x \div n) * (n - 1) /\ x \div n \in Nat
    BY <2>1, PartsLeftSteps
  <2>3. PartsLeft(x, n, n - 1) \in Nat
    BY <2>1, PartsLeftNat
  <2> QED BY <2>2, <2>3
<1>3. CASE b.terms.postpaid
  <2>1. a = Nothing
    BY <1>3 DEF AmountsForPayment
  <2> QED BY <2>1 DEF Nothing
<1>4. CASE ~b.terms.postpaid /\ b.terms.mode = "OneForAll" /\ LastSlot(b)
  <2>1. /\ a.fee = b.platform_fee - (b.platform_fee \div n) * (n - 1)
        /\ a.dao = b.dao_fee - (b.dao_fee \div n) * (n - 1)
    BY <1>4, LastSlotPay
  <2> QED BY <1>1, <1>2, <2>1
<1>5. CASE ~b.terms.postpaid /\ b.terms.mode = "OneForAll" /\ ~LastSlot(b)
  <2>1. a.fee = b.platform_fee \div n /\ a.dao = b.dao_fee \div n
    BY <1>5, SlotPay
  <2> QED BY <1>1, <1>2, <2>1
<1>6. CASE ~b.terms.postpaid /\ b.terms.mode # "OneForAll"
  <2>1. /\ b.terms.mode = "Contest" =>
             a.fee = b.platform_fee \div n /\ a.dao = b.dao_fee \div n
        /\ b.terms.mode # "Contest" =>
             a.fee = b.platform_fee /\ a.dao = b.dao_fee
    BY <1>6, PlainPay
  <2> QED BY <1>1, <1>2, <2>1
<1> QED BY <1>3, <1>4, <1>5, <1>6

(* The fees locked stay part of the fees held.                             *)
LEMMA ReservedKept ==
  ASSUME Onward, TurnCases, Reserved
  PROVE  Reserved'
<1>0. Course
  BY DEF Onward
<1>1. /\ fees.balance \in Int /\ fees.locked \in Int
      /\ fees.dao_balance \in Int /\ fees.dao_locked \in Int
      /\ fees \in [balance: Nat, locked: Nat, dao_balance: Nat, dao_locked: Nat]
      /\ fees.locked <= fees.balance /\ fees.dao_locked <= fees.dao_balance
  BY <1>0, MoneyTypes DEF Reserved
<1>2. CASE UNCHANGED fees
  BY <1>2 DEF Reserved
<1>3. ASSUME NEW a, a.fee \in Nat, a.dao \in Nat, fees' = CommissionUnlocked(a)
      PROVE  Reserved'
  <2>1. a.fee \in Int /\ a.dao \in Int /\ a.fee >= 0 /\ a.dao >= 0
    BY <1>3
  <2>2. /\ fees'.balance = fees.balance /\ fees'.dao_balance = fees.dao_balance
        /\ fees'.locked = fees.locked - a.fee
        /\ fees'.dao_locked = fees.dao_locked - a.dao
    BY <1>0, <1>3, <2>1, UnlockedFees
  <2>3. /\ fees.locked - a.fee <= fees.balance
        /\ fees.dao_locked - a.dao <= fees.dao_balance
    BY <1>1, <2>1, ReservedFalls
  <2> QED BY <2>2, <2>3, Zenon DEF Reserved
<1>4. ASSUME NEW a, a.fee \in Int, a.dao \in Int,
             fees'.balance = fees.balance - a.fee,
             fees'.dao_balance = fees.dao_balance - a.dao,
             fees'.locked = fees.locked - a.fee,
             fees'.dao_locked = fees.dao_locked - a.dao
      PROVE  Reserved'
  <2>1. /\ fees.locked - a.fee <= fees.balance - a.fee
        /\ fees.dao_locked - a.dao <= fees.dao_balance - a.dao
    BY <1>1, <1>4, ReservedFalls
  <2> QED BY <1>4, <2>1, Zenon DEF Reserved
<1>5. CASE UNCHANGED vars \/ Rests(<<>>) \/ Asks(<<>>)
  BY <1>2, <1>5 DEF vars, Rests, Asks
<1>6. ASSUME NEW id \in BountyId, TasksDone(<<>>, id)
      PROVE  Reserved'
  <2> PICK b : b = bounties[id]
    OBVIOUS
  <2> PICK a : a = AmountsForPayment(b, Nil)
    OBVIOUS
  <2>1. /\ b.terms.mode = "DifferentTasks" /\ ~b.terms.postpaid
        /\ fees' = CommissionUnlocked(a)
    BY <1>6 DEF TasksDone
  <2>2. a.fee = b.platform_fee /\ a.dao = b.dao_fee
    BY <2>1, PlainPay
  <2>3. b \in Bounty
    BY OnwardSane DEF Sane
  <2>4. b.platform_fee \in Nat /\ b.dao_fee \in Nat
    BY <2>3, BountyTypes
  <2> QED BY <1>3, <2>1, <2>2, <2>4
<1>7. ASSUME NEW id \in BountyId, Opens(id)
      PROVE  Reserved'
  <2> PICK t \in Offers : AddBounty(id, t)
    BY <1>7 DEF Opens, ft_on_transfer
  <2> PICK c : c = NewBounty(t, config)
    OBVIOUS
  <2>1. /\ bounties' = [bounties EXCEPT ![id] = c]
        /\ fees' = [fees EXCEPT !.balance = fees.balance + c.platform_fee,
                                !.locked = fees.locked + c.platform_fee,
                                !.dao_balance = fees.dao_balance + c.dao_fee,
                                !.dao_locked = fees.dao_locked + c.dao_fee]
    BY Zenon DEF AddBounty
  <2>2. c \in Bounty
    <3>1. bounties \in [BountyId -> Bounty]
      BY <1>0 DEF Course, Work, Shape, TypeOK
    <3>2. c = bounties'[id]
      BY <2>1, <3>1
    <3> QED BY <3>2, OnwardSane DEF Sane
  <2>3. c.platform_fee \in Int /\ c.dao_fee \in Int
    BY <2>2, BountyTypes
  <2>4. /\ fees'.balance = fees.balance + c.platform_fee
        /\ fees'.locked = fees.locked + c.platform_fee
        /\ fees'.dao_balance = fees.dao_balance + c.dao_fee
        /\ fees'.dao_locked = fees.dao_locked + c.dao_fee
    BY <1>1, <2>1, Zenon
  <2>5. /\ fees.locked + c.platform_fee <= fees.balance + c.platform_fee
        /\ fees.dao_locked + c.dao_fee <= fees.dao_balance + c.dao_fee
    BY <1>1, <2>3, ReservedFalls
  <2> QED BY <2>4, <2>5, Zenon DEF Reserved
<1>8. ASSUME NEW id \in BountyId, Status(id) \in {"New", "AwaitingClaims"},
             Cancellation(id)
      PROVE  Reserved'
  <2> PICK a : a = AmountsToReturn(bounties[id])
    OBVIOUS
  <2>1. /\ fees'.balance = fees.balance - a.fee
        /\ fees'.dao_balance = fees.dao_balance - a.dao
        /\ fees'.locked = fees.locked - a.fee
        /\ fees'.dao_locked = fees.dao_locked - a.dao
    BY <1>8, CancelledBounty
  <2>2. a.fee \in Int /\ a.dao \in Int
    BY <1>8, OnwardSane, ReturnFacts DEF Status
  <2> QED BY <1>4, <2>1, <2>2
<1>9. ASSUME NEW id \in BountyId, Refuses(id)
      PROVE  Reserved'
  <2>1. Cancellation(id) /\ Status(id) \in {"New", "AwaitingClaims"}
    BY <1>9, Zenon DEF Refuses, bounty_cancel, Status
  <2> QED BY <1>8, <2>1
<1>10. ASSUME NEW i \in 1 .. Len(calls), TokensMove(i)
       PROVE  Reserved'
  <2> PICK call : call = calls[i]
    OBVIOUS
  <2>0. call \in Calls /\ Fit(call) /\ Exact(call)
    BY <1>0, <1>10, CallSound DEF TokensMove
  <2>1. CASE after_ft_transfer(i)
    <3>1. /\ call.kind = "payout"
          /\ \/ UNCHANGED fees \/ Complete(call.id, call.claim, call.amounts, call.place)
      BY <2>1, Zenon DEF after_ft_transfer
    <3> PICK id, a : id = call.id /\ a = call.amounts
      OBVIOUS
    <3>2. /\ id \in BountyId
          /\ a = AmountsForPayment(bounties[id], call.place)
          /\ Status(id) # "Absent" /\ Mode(id) # "DifferentTasks"
      BY <2>0, <3>1, CallFacts DEF Exact, Fit
    <3>3. a.fee \in Nat /\ a.dao \in Nat
      <4>1. bounties[id] \in Bounty
        BY <3>2, OnwardSane DEF Sane
      <4> QED BY <3>2, <4>1, PaidFeesNat
    <3>4. UNCHANGED fees \/ fees' = CommissionUnlocked(a)
      BY <3>1, Zenon DEF Complete
    <3> QED BY <1>2, <1>3, <3>3, <3>4
  <2>2. CASE after_bounty_withdraw(i)
    BY <1>2, <2>2, Zenon DEF after_bounty_withdraw
  <2>3. CASE after_refund_bounty_amount(i)
    <3>1. /\ call.kind = "refund"
          /\ UNCHANGED fees \/ Cancellation(call.id)
      BY <2>3, Zenon DEF after_refund_bounty_amount
    <3>2. call.id \in BountyId /\ Status(call.id) \in {"New", "AwaitingClaims"}
      BY <2>0, <3>1, CallFacts DEF Exact
    <3> QED BY <1>2, <1>8, <3>1, <3>2
  <2>4. CASE after_fees_payout(i)
    BY <1>10, <2>4, FeesMoney DEF TokensMove
  <2> QED BY <1>10, <2>1, <2>2, <2>3, <2>4 DEF TokensMove
<1> QED BY <1>5, <1>6, <1>7, <1>9, <1>10, Zenon DEF TurnCases

(* No more is owed for a bounty than is set aside for it.                  *)
LEMMA PrizesTotal ==
  ASSUME NEW b
  PROVE  PrizesLeft(b) = Total(b.terms.shares, FreePrizes(b))
BY Zenon DEF PrizesLeft, FreePrizes, MapThenSumSet, MapThenFoldSet, Pick, Total, Summed

(* What is owed, case by case.                                             *)
LEMMA OwedIs ==
  ASSUME NEW id, NEW b, b = bounties[id]
  PROVE  /\ b.terms.postpaid => Owed(id) = 0
         /\ b.status \in {"Absent", "Canceled", "PartiallyCompleted"} => Owed(id) = 0
         /\ ~b.terms.postpaid /\ b.status = "Completed" =>
              Owed(id) = IF b.terms.mode = "DifferentTasks"
                         THEN TaskParts(b, {s \in UsedPlaces(b) : b.slots[s] # Nil})
                         ELSE 0
         /\ ~b.terms.postpaid /\ Live(b) =>
              Owed(id) = CASE b.terms.mode = "OneForAll" ->
                                PartsLeft(b.amount, b.terms.slots, b.paid_slots)
                           [] b.terms.mode = "Contest" -> PrizesLeft(b)
                           [] OTHER -> b.amount
BY DEF Owed, Live, Running, PartsLeft

(* No more is owed for a bounty than is due for it.                        *)
LEMMA OwedWithin ==
  ASSUME NEW id, NEW b, b = bounties[id], Sane(b)
  PROVE  Owed(id) \in Nat /\ Owed(id) <= Due(b)
<1>1. b \in Bounty /\ Due(b) \in Nat /\ b.status \in BountyStatus
  BY DueNat, BountyTypes DEF Sane
<1>2. CASE b.terms.postpaid \/ b.status \in {"Absent", "Canceled", "PartiallyCompleted"}
  <2>1. Owed(id) = 0
    BY <1>2, OwedIs
  <2> QED BY <1>1, <2>1
<1>3. CASE ~b.terms.postpaid /\ Live(b)
  <2>1. Owed(id) = RewardLeft(b)
    <3>1. PrizesLeft(b) = Total(b.terms.shares, FreePrizes(b))
      BY PrizesTotal
    <3>2. Owed(id) = CASE b.terms.mode = "OneForAll" ->
                            PartsLeft(b.amount, b.terms.slots, b.paid_slots)
                       [] b.terms.mode = "Contest" -> PrizesLeft(b)
                       [] OTHER -> b.amount
      BY <1>3, OwedIs
    <3> QED BY <3>1, <3>2 DEF RewardLeft
  <2>2. Due(b) = RewardLeft(b)
    BY <1>3 DEF Due
  <2> QED BY <1>1, <2>1, <2>2
<1>4. CASE ~b.terms.postpaid /\ b.status = "Completed"
  <2>0. ~Live(b)
    BY <1>4 DEF Live, Running
  <2>1. CASE b.terms.mode # "DifferentTasks"
    <3>1. Owed(id) = 0
      BY <1>4, <2>1, OwedIs
    <3> QED BY <1>1, <3>1
  <2>2. CASE b.terms.mode = "DifferentTasks"
    <3> DEFINE R == UsedPlaces(b)
               V == FreeSlots(b)
               H == R \ V
               f == PartOf(b)
    <3>1. {s \in UsedPlaces(b) : b.slots[s] # Nil} = H
      BY DEF FreeSlots
    <3>2. Owed(id) = TaskParts(b, H)
      BY <1>4, <2>2, <3>1, OwedIs
    <3>3. SharesFit(b)
      BY <1>4, <2>2 DEF Sane
    <3>4. IsFiniteSet(R) /\ V \in SUBSET R /\ H \in SUBSET R /\ IsFiniteSet(H)
          /\ IsFiniteSet(V)
      BY <1>1, BountyTypes, FreeFacts, FS_Subset
    <3>5. Owed(id) = Total(f, H)
      BY <3>2, <3>4, PartsTotal
    <3>6. /\ Total(f, R) \in Nat /\ Total(f, R) <= b.amount
          /\ Total(f, H) \in Nat /\ Total(f, V) \in Nat
          /\ \A s \in R : f[s] \in Nat
      BY <1>1, <3>3, <3>4, PartsWithin
    <3>7. Total(f, R) = Total(f, V) + Total(f, H)
      <4>1. Counts(f, R)
        BY <3>6 DEF Counts
      <4> QED BY <3>4, <4>1, TotalParted
    <3>8. b.amount \in Nat
      BY <1>1, BountyTypes
    <3>9. CASE V = R
      <4>1. H = {}
        BY <3>9
      <4>2. Total(f, {}) = 0
        BY FS_EmptySet, TotalStep
      <4> QED BY <1>1, <3>5, <4>1, <4>2
    <3>10. CASE V # R
      <4>1. Due(b) = b.amount - Total(f, V)
        BY <1>4, <2>0, <2>2, <3>10 DEF Due, TasksLeft
      <4> HIDE DEF f, H, V, R
      <4> QED BY <3>5, <3>6, <3>7, <3>8, <4>1
    <3> QED BY <3>9, <3>10
  <2> QED BY <2>1, <2>2
<1>5. Live(b) \/ b.status \in {"Absent", "Canceled", "PartiallyCompleted", "Completed"}
  BY <1>1 DEF Live, Running, BountyStatus
<1> QED BY <1>2, <1>3, <1>4, <1>5

----------------------------------------------------------------------------
(* The sums of the model are sums as the proofs write them.                *)
OwedOf == [id \in BountyId |-> Owed(id)]

LEMMA OwedTotal ==
  ASSUME IsFiniteSet(BountyId)
  PROVE  MapThenSumSet(Owed, BountyId) = Total(OwedOf, BountyId)
<1> DEFINE Sums(g) == g = [T \in SUBSET BountyId |->
                             IF T = {} THEN 0
                             ELSE Owed(Pick(T)) + g[T \ {Pick(T)}]]
           f == CHOOSE g : Sums(g)
<1>1. MapThenSumSet(Owed, BountyId) = f[BountyId]
  BY Zenon DEF MapThenSumSet, MapThenFoldSet, Pick
<1>2. ASSUME NEW g
      PROVE  Sums(g) <=> Summed(OwedOf, g, BountyId)
  <2>1. ASSUME NEW T \in SUBSET BountyId, T # {}
        PROVE  OwedOf[Pick(T)] = Owed(Pick(T))
    BY <2>1, PickIn DEF OwedOf
  <2>2. [T \in SUBSET BountyId |->
           IF T = {} THEN 0 ELSE Owed(Pick(T)) + g[T \ {Pick(T)}]]
        = [T \in SUBSET BountyId |->
             IF T = {} THEN 0 ELSE OwedOf[Pick(T)] + g[T \ {Pick(T)}]]
    BY <2>1
  <2> QED BY <2>2 DEF Summed
<1>3. \E g : Sums(g)
  BY <1>2, SummedExists
<1>4. Summed(OwedOf, f, BountyId)
  <2>1. Sums(f)
    BY <1>3
  <2> QED BY <1>2, <2>1
<1> HIDE DEF f
<1>5. PICK h : /\ Summed(OwedOf, h, BountyId)
               /\ \A T \in SUBSET BountyId : Total(OwedOf, T) = h[T]
  BY TotalSummed
<1>6. f[BountyId] = h[BountyId]
  BY <1>4, <1>5, SummedOnce
<1> QED BY <1>1, <1>5, <1>6

(* The sums of the fees, likewise.                                         *)
LEMMA PlatformTotal ==
  ASSUME IsFiniteSet(BountyId)
  PROVE  MapThenSumSet(PlatformDue, BountyId) = Total(FeeOf, BountyId)
<1> DEFINE Sums(g) == g = [T \in SUBSET BountyId |->
                             IF T = {} THEN 0
                             ELSE PlatformDue(Pick(T)) + g[T \ {Pick(T)}]]
           f == CHOOSE g : Sums(g)
<1>1. MapThenSumSet(PlatformDue, BountyId) = f[BountyId]
  BY Zenon DEF MapThenSumSet, MapThenFoldSet, Pick
<1>2. ASSUME NEW g
      PROVE  Sums(g) <=> Summed(FeeOf, g, BountyId)
  <2>1. ASSUME NEW T \in SUBSET BountyId, T # {}
        PROVE  FeeOf[Pick(T)] = PlatformDue(Pick(T))
    BY <2>1, PickIn DEF FeeOf, PlatformDue
  <2>2. [T \in SUBSET BountyId |->
           IF T = {} THEN 0 ELSE PlatformDue(Pick(T)) + g[T \ {Pick(T)}]]
        = [T \in SUBSET BountyId |->
             IF T = {} THEN 0 ELSE FeeOf[Pick(T)] + g[T \ {Pick(T)}]]
    BY <2>1
  <2> QED BY <2>2 DEF Summed
<1>3. \E g : Sums(g)
  BY <1>2, SummedExists
<1>4. Summed(FeeOf, f, BountyId)
  <2>1. Sums(f)
    BY <1>3
  <2> QED BY <1>2, <2>1
<1> HIDE DEF f
<1>5. PICK h : /\ Summed(FeeOf, h, BountyId)
               /\ \A T \in SUBSET BountyId : Total(FeeOf, T) = h[T]
  BY TotalSummed
<1>6. f[BountyId] = h[BountyId]
  BY <1>4, <1>5, SummedOnce
<1> QED BY <1>1, <1>5, <1>6

LEMMA DaoTotal ==
  ASSUME IsFiniteSet(BountyId)
  PROVE  MapThenSumSet(DaoDue, BountyId) = Total(DaoOf, BountyId)
<1> DEFINE Sums(g) == g = [T \in SUBSET BountyId |->
                             IF T = {} THEN 0
                             ELSE DaoDue(Pick(T)) + g[T \ {Pick(T)}]]
           f == CHOOSE g : Sums(g)
<1>1. MapThenSumSet(DaoDue, BountyId) = f[BountyId]
  BY Zenon DEF MapThenSumSet, MapThenFoldSet, Pick
<1>2. ASSUME NEW g
      PROVE  Sums(g) <=> Summed(DaoOf, g, BountyId)
  <2>1. ASSUME NEW T \in SUBSET BountyId, T # {}
        PROVE  DaoOf[Pick(T)] = DaoDue(Pick(T))
    BY <2>1, PickIn DEF DaoOf, DaoDue
  <2>2. [T \in SUBSET BountyId |->
           IF T = {} THEN 0 ELSE DaoDue(Pick(T)) + g[T \ {Pick(T)}]]
        = [T \in SUBSET BountyId |->
             IF T = {} THEN 0 ELSE DaoOf[Pick(T)] + g[T \ {Pick(T)}]]
    BY <2>1
  <2> QED BY <2>2 DEF Summed
<1>3. \E g : Sums(g)
  BY <1>2, SummedExists
<1>4. Summed(DaoOf, f, BountyId)
  <2>1. Sums(f)
    BY <1>3
  <2> QED BY <1>2, <2>1
<1> HIDE DEF f
<1>5. PICK h : /\ Summed(DaoOf, h, BountyId)
               /\ \A T \in SUBSET BountyId : Total(DaoOf, T) = h[T]
  BY TotalSummed
<1>6. f[BountyId] = h[BountyId]
  BY <1>4, <1>5, SummedOnce
<1> QED BY <1>1, <1>5, <1>6

----------------------------------------------------------------------------
(* The two properties, as an invariant can carry them.                     *)
Covered == ContestsKept => Covers
FeesHeld == ContestsKept => Locks

(* The invariant implies EscrowCovers, ...                                 *)
LEMMA CoveredOwes ==
  IsFiniteSet(BountyId) /\ Course /\ Everybody /\ Covered => EscrowCovers
<1> SUFFICES ASSUME IsFiniteSet(BountyId), Course, Everybody, Covered, ContestsKept
             PROVE  held >= fees.balance + fees.dao_balance
                              + MapThenSumSet(Owed, BountyId)
  BY DEF EscrowCovers
<1>1. ASSUME NEW id \in BountyId
      PROVE  OwedOf[id] \in Nat /\ OwedOf[id] <= DueOf[id]
  <2>1. Sane(bounties[id])
    BY SaneBounty DEF Everybody, Steady
  <2>2. Owed(id) \in Nat /\ Owed(id) <= Due(bounties[id])
    BY <2>1, OwedWithin
  <2> QED BY <2>2 DEF OwedOf, DueOf
<1>2. Counts(DueOf, BountyId) /\ Counts(OwedOf, BountyId)
  BY <1>1, SumTypes DEF Counts
<1>3. Total(OwedOf, BountyId) <= Total(DueOf, BountyId)
  BY <1>1, <1>2, TotalFalls
<1>4. Total(OwedOf, BountyId) \in Int /\ Total(DueOf, BountyId) \in Int
  BY <1>2, TotalType
<1>5. Backing >= Total(DueOf, BountyId)
  BY DEF Covered, Covers
<1>6. held \in Nat /\ fees.balance \in Nat /\ fees.dao_balance \in Nat
  BY MoneyTypes
<1>7. held >= fees.balance + fees.dao_balance + Total(OwedOf, BountyId)
  BY <1>3, <1>4, <1>5, <1>6 DEF Backing
<1> QED BY <1>7, OwedTotal

(* ... and, with the fees it carries, FeesCover.                           *)
LEMMA HeldFees ==
  IsFiniteSet(BountyId) /\ Reserved /\ FeesHeld => FeesCover
BY PlatformTotal, DaoTotal DEF Reserved, FeesHeld, Locks, FeesCover

(* One step keeps what is set aside, and what is locked.                   *)
LEMMA TurnMoney ==
  ASSUME Onward, TurnCases, Reserved, Refunds, ContestsKept'
  PROVE  (Covers => Covers') /\ (PenaltiesFit /\ Locks => Locks')
<1>1. CASE UNCHANGED vars \/ Rests(<<>>) \/ Asks(<<>>)
  <2>1. UNCHANGED fees /\ UNCHANGED held
    BY <1>1 DEF vars, tokens, Rests, Asks
  <2> QED BY <2>1, RestMoney
<1>2. ASSUME NEW id \in BountyId, Opens(id)
      PROVE  (Covers => Covers') /\ (Locks => Locks')
  BY <1>2, OpenMoney
<1>3. ASSUME NEW id \in BountyId, Refuses(id)
      PROVE  (Covers => Covers') /\ (PenaltiesFit /\ Locks => Locks')
  BY <1>3, RefuseMoney
<1>4. ASSUME NEW id \in BountyId, TasksDone(<<>>, id)
      PROVE  (Covers => Covers') /\ (Locks => Locks')
  BY <1>4, DoneMoney
<1>5. ASSUME NEW i \in 1 .. Len(calls), TokensMove(i)
      PROVE  (Covers => Covers') /\ (Locks => Locks')
  <2>1. Exact(calls[i])
    BY <1>5 DEF TokensMove
  <2>2. CASE after_ft_transfer(i)
    BY <2>1, <2>2, PaidMoney
  <2>3. CASE after_bounty_withdraw(i)
    BY <2>1, <2>3, WithdrawnMoney
  <2>4. CASE after_refund_bounty_amount(i)
    BY <2>1, <2>4, RefundMoney
  <2>5. CASE after_fees_payout(i)
    BY <2>1, <2>5, FeesMoney
  <2> QED BY <1>5, <2>2, <2>3, <2>4, <2>5 DEF TokensMove
<1> QED BY <1>1, <1>2, <1>3, <1>4, <1>5, Zenon DEF TurnCases

(* The inductive invariant.                                                *)
Kept ==
  /\ Course /\ Everybody /\ InTurn
  /\ Refunds /\ Reserved /\ Covered

(* The step, for both properties.                                          *)
LEMMA NextTurn ==
  ASSUME IsFiniteSet(BountyId), Kept, [NextInTurn]_vars
  PROVE  Kept' /\ (PenaltiesFit /\ FeesHeld => FeesHeld')
<1>1. [Next]_vars
  BY Zenon DEF NextInTurn, Next
<1>2. Course /\ InTurn /\ Refunds /\ Reserved /\ Covered /\ Everybody
  BY DEF Kept
<1>3. ClaimsStep /\ BountiesMove
  BY <1>1, <1>2, Events
<1>4. Course'
  BY <1>1, <1>2, NextCourse
<1>5. TurnCases /\ InTurn'
  BY <1>2, TurnKinds, InTurnKept
<1>6. /\ Refunds'
      /\ ContestsKept' => ContestsKept
      /\ \A id \in BountyId : refunded'[id] # refunded[id] =>
           Status(id) \in {"New", "AwaitingClaims"}
  BY <1>2, <1>3, <1>5, RefundsKept
<1>7. Everybody'
  BY <1>2, <1>3, <1>4, <1>6, EverybodyKept
<1>8. Onward
  BY <1>2, <1>3, <1>4, <1>7 DEF Onward
<1>9. Reserved'
  BY <1>2, <1>5, <1>8, ReservedKept
<1>10. ContestsKept' => (Covers => Covers') /\ (PenaltiesFit /\ Locks => Locks')
  BY <1>2, <1>5, <1>8, TurnMoney
<1>11. Covered'
  BY <1>2, <1>6, <1>10 DEF Covered
<1>12. PenaltiesFit /\ FeesHeld => FeesHeld'
  BY <1>6, <1>10 DEF FeesHeld
<1>13. Kept'
  BY <1>4, <1>5, <1>6, <1>7, <1>9, <1>11 DEF Kept
<1> QED BY <1>12, <1>13

LEMMA NextKept ==
  IsFiniteSet(BountyId) /\ Kept /\ [NextInTurn]_vars => Kept'
BY NextTurn

LEMMA NextFeesHeld ==
  IsFiniteSet(BountyId) /\ PenaltiesFit /\ Kept /\ FeesHeld /\ [NextInTurn]_vars
    => FeesHeld'
BY NextTurn

(* At first nothing is there, and nothing is owed.                         *)
LEMMA InitKept ==
  IsFiniteSet(BountyId) /\ Init => Kept /\ FeesHeld
<1> SUFFICES ASSUME IsFiniteSet(BountyId), Init
             PROVE  Kept /\ FeesHeld
  OBVIOUS
<1>1. Course
  BY InitCourse
<1>2. /\ \A id \in BountyId : bounties[id].status = "Absent"
      /\ held = 0 /\ calls = <<>> /\ refunded = [id \in BountyId |-> 0]
      /\ fees = [balance |-> 0, locked |-> 0, dao_balance |-> 0, dao_locked |-> 0]
  BY DEF Init, NoBounty
<1>3. fees.balance = 0 /\ fees.locked = 0 /\ fees.dao_balance = 0 /\ fees.dao_locked = 0
  BY <1>2
<1>4. Everybody
  BY <1>2 DEF Everybody, Steady, Idle, Unpaid, NoFees, Funded, Status, HasMode
<1>5. InTurn
  BY <1>2 DEF InTurn
<1>6. Refunds
  BY <1>2 DEF Refunds
<1>7. Reserved
  BY <1>3 DEF Reserved
<1>8. \A id \in BountyId : DueOf[id] = 0 /\ FeeOf[id] = 0 /\ DaoOf[id] = 0
  BY <1>2, AbsentDue DEF DueOf, FeeOf, DaoOf
<1>9. /\ Total(DueOf, BountyId) = 0 /\ Total(FeeOf, BountyId) = 0
      /\ Total(DaoOf, BountyId) = 0
  BY <1>8, TotalNone
<1>10. Covers
  BY <1>2, <1>3, <1>9 DEF Covers, Backing
<1>11. Locks
  BY <1>3, <1>9 DEF Locks
<1> QED BY <1>1, <1>4, <1>5, <1>6, <1>7, <1>10, <1>11
        DEF Kept, Covered, FeesHeld

(* EscrowCovers, for any finite set of bounties: while every promise is    *)
(* answered before the next call (OneAtATime), the tokens that the         *)
(* contract holds never fall below the fees and the rewards it owes. The   *)
(* parts that internal_total_amount_for_payment and the refund compute for *)
(* slots, prizes and subtasks never add up to more than was deposited. The *)
(* refund of a contest that fell back to New after a prize was paid is the *)
(* exception ContestsKept names (see CanceledUnpaid).                      *)
THEOREM EscrowCoversInTurn ==
  IsFiniteSet(BountyId) => (OneAtATime => []EscrowCovers)
<1> SUFFICES ASSUME IsFiniteSet(BountyId)
             PROVE  OneAtATime => []EscrowCovers
  OBVIOUS
<1>1. Init => Kept
  BY InitKept
<1>2. Kept /\ [NextInTurn]_vars => Kept'
  BY NextKept
<1>3. Kept => EscrowCovers
  BY CoveredOwes DEF Kept
<1> QED BY <1>1, <1>2, <1>3, PTL DEF OneAtATime

(* FeesCover, likewise: no payout and no refund of the contract panics for *)
(* want of locked fees, and none takes them from another bounty. The       *)
(* hypothesis is about the configuration: change_config accepts a penalty  *)
(* above the fee it is taken from. Then a contest that fell back to New    *)
(* may be cancelled with nothing returned at all, which ContestsKept does  *)
(* not see, and the fees of the prizes that were paid are unlocked again.  *)
(* The defaults of the code satisfy PenaltiesFit.                          *)
THEOREM FeesCoverInTurn ==
  IsFiniteSet(BountyId) => (OneAtATime /\ []PenaltiesFit => []FeesCover)
<1> SUFFICES ASSUME IsFiniteSet(BountyId)
             PROVE  OneAtATime /\ []PenaltiesFit => []FeesCover
  OBVIOUS
<1>1. Init => Kept /\ FeesHeld
  BY InitKept
<1>2. Kept /\ [NextInTurn]_vars => Kept'
  BY NextKept
<1>3. PenaltiesFit /\ Kept /\ FeesHeld /\ [NextInTurn]_vars => FeesHeld'
  BY NextFeesHeld
<1>4. Kept /\ FeesHeld => FeesCover
  BY HeldFees DEF Kept
<1> QED BY <1>1, <1>2, <1>3, <1>4, PTL DEF OneAtATime

=============================================================================
