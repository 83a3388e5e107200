---------------------------- MODULE HiringProofs ----------------------------
(***************************************************************************)
(* Every behaviour of the bounties contract is, for every bounty, a        *)
(* behaviour of Hiring.  The invariant Work of BountiesProofs says what    *)
(* the state of a bounty for one claimant may be, and NextSteps what a     *)
(* step may do to it; here each of these is found again in Hiring.         *)
(***************************************************************************)
EXTENDS BountyHiring, BountiesProofs

(* The bounty that is looked at is one for one claimant.                   *)
Single == HasMode(Id, "None")

(* What Stage and Worker say of such a bounty.                             *)
Mapped ==
  /\ Status(Id) \in {"New", "Claimed", "Completed", "Canceled"}
  /\ Status(Id) = "New"       <=> Stage = "open"
  /\ Status(Id) = "Claimed"   <=> Stage = "working"
  /\ Status(Id) = "Completed" <=> Stage = "done"
  /\ Status(Id) = "Canceled"  <=> Stage = "withdrawn"
  /\ Stage # "none"
  /\ \A k \in ClaimsOf(Id, Active) : Worker = k
  /\ ClaimsOf(Id, Active) = {} => Worker = Nil
  /\ ClaimsOf(Id, Active) # {} => Worker # Nil

LEMMA MappedSingle == Work /\ Single => Mapped
<1> SUFFICES ASSUME Work, Single PROVE Mapped
  OBVIOUS
<1>1. Lone(Id)
  BY IdAssumption DEF Single, Work, Alone, Shared, HasMode
<1>2. Status(Id) \in {"New", "Claimed", "Completed", "Canceled"}
  BY <1>1 DEF Lone, Single, HasMode
<1>3. \A k \in ClaimsOf(Id, Active) : Worker = k
  <2> SUFFICES ASSUME NEW k \in ClaimsOf(Id, Active) PROVE Worker = k
    OBVIOUS
  <2>1. Worker \in ClaimsOf(Id, Active)
    BY DEF Worker, Single
  <2> QED BY <1>1, <2>1 DEF Lone
<1>4. ClaimsOf(Id, Active) \subseteq ClaimKey
  BY DEF ClaimsOf
<1>5. ClaimsOf(Id, Active) # {} => Worker # Nil
  BY <1>3, <1>4, NilAssumption
<1>6. ClaimsOf(Id, Active) = {} => Worker = Nil
  BY DEF Worker
<1>7. /\ Status(Id) = "New"       <=> Stage = "open"
      /\ Status(Id) = "Claimed"   <=> Stage = "working"
      /\ Status(Id) = "Completed" <=> Stage = "done"
      /\ Status(Id) = "Canceled"  <=> Stage = "withdrawn"
      /\ Stage # "none"
  BY <1>2 DEF Stage, Single
<1> QED BY <1>2, <1>3, <1>5, <1>6, <1>7 DEF Mapped

(* The same after a step.                                                  *)
LEMMA MappedSingleNext == Work' /\ Single' => Mapped'
BY MappedSingle, PTL

(* Of any other bounty they say nothing.                                   *)
LEMMA MappedOther ==
  ASSUME ~Single
  PROVE  Stage = "none" /\ Worker = Nil
BY DEF Single, Stage, Worker

(* A bounty for one claimant stays one (BountiesMove).                     *)
LEMMA SingleKept ==
  ASSUME BountiesMove, Single
  PROVE  Single'
BY IdAssumption DEF BountiesMove, Later, Single, HasMode, Status, Mode

LEMMA MappedInit == Init => H!Init
<1> SUFFICES ASSUME Init PROVE H!Init
  OBVIOUS
<1>1. ~Single
  BY IdAssumption DEF Init, Single, HasMode, Status, NoBounty
<1> QED BY <1>1, MappedOther DEF H!Init

(* A step on a bounty for one claimant, by the three kinds of Step.        *)
LEMMA MappedWork ==
  ASSUME Work, Work', BountiesMove, Step(Id), Single
  PROVE  H!Next \/ (Stage' = Stage /\ Worker' = Worker)
<1>1. Single'
  BY SingleKept
<1>2. Mapped
  BY MappedSingle
<1>3. Mapped'
  BY <1>1, MappedSingleNext
<1>4. Lone(Id)
  BY IdAssumption DEF Single, Work, Alone, Shared, HasMode
<1>5. CASE Quiet(Id)
  <2>1. ClaimsOf(Id, Active)' = ClaimsOf(Id, Active)
    BY <1>5 DEF Quiet, ClaimsOf, Active
  <2>2. Worker' = Worker
    BY <1>2, <1>3, <2>1 DEF Mapped
  <2>3. CASE Status(Id)' = Status(Id)
    <3>1. Stage' = Stage
      BY <1>2, <1>3, <2>3 DEF Mapped
    <3> QED BY <2>2, <3>1
  <2>4. CASE Status(Id)' = "Canceled"
    BY <1>2, <1>3, <2>2, <2>4 DEF Mapped, H!Next, H!Withdraw
  <2> QED BY <1>5, <1>2, <2>3, <2>4 DEF Mapped, Quiet, Status
<1>6. ASSUME NEW k \in ClaimKey, k[1] = Id, Ends(k)
      PROVE  H!Next
  <2>1. k \in ClaimsOf(Id, Active)
    BY <1>6 DEF Ends, ClaimsOf
  <2>2. ClaimsOf(Id, Active)' = {}
    BY <1>4, <1>6, <2>1 DEF Lone, Ends, Others, ClaimsOf, Over, Active
  <2>3. Worker # Nil /\ Worker' = Nil
    BY <1>2, <1>3, <2>1, <2>2 DEF Mapped
  <2>4. Stage' \in {"open", "done"}
    BY <1>3, <1>6 DEF Mapped, Ends, Status
  <2> QED BY <2>3, <2>4 DEF H!Next, H!Release, H!Pay
<1>7. ASSUME NEW k \in ClaimKey, k[1] = Id, Hires(k)
      PROVE  H!Next
  <2>1. k \in ClaimsOf(Id, Active)'
    BY <1>7 DEF Hires, ClaimsOf
  <2>2. Status(Id) = "New" /\ Status(Id)' = "Claimed"
    BY <1>7 DEF Hires, Status
  <2>3. ClaimsOf(Id, Active) = {}
    BY <1>4, <2>2 DEF Lone
  <2>4. Worker = Nil /\ Worker' = k
    BY <1>2, <1>3, <2>1, <2>3 DEF Mapped
  <2>5. Stage = "open" /\ Stage' = "working"
    BY <1>2, <1>3, <2>2 DEF Mapped
  <2> QED BY <2>4, <2>5 DEF H!Next, H!Hire
<1> QED BY <1>5, <1>6, <1>7 DEF Step

(* A step by which a bounty for one claimant is created.                   *)
LEMMA MappedBirth ==
  ASSUME Work, Work', BountiesMove, Steps, ~Single, Single'
  PROVE  H!Next
<1>1. Status(Id) = "Absent"
  BY IdAssumption DEF BountiesMove, Later, Single, HasMode, Status, Mode
<1>2. Step(Id)
  BY <1>1, IdAssumption DEF Steps, Shared
<1>3. Lone(Id)
  BY <1>1, IdAssumption DEF Work, Alone, Shared
<1>4. Quiet(Id)
  <2>1. ClaimsOf(Id, Active) = {}
    BY <1>1, <1>3 DEF Lone
  <2>2. ASSUME NEW k \in ClaimKey, k[1] = Id PROVE ~Ends(k) /\ ~Hires(k)
    BY <1>1, <2>1, <2>2 DEF Ends, Hires, ClaimsOf
  <2> QED BY <1>2, <2>2 DEF Step
<1>5. Status(Id)' = "New"
  BY <1>1, <1>4 DEF Quiet, Single, HasMode, Status
<1>6. ClaimsOf(Id, Active)' = {}
  BY <1>1, <1>3, <1>4 DEF Quiet, Lone, ClaimsOf, Active
<1>7. Stage' = "open" /\ Worker' = Nil
  BY <1>5, <1>6 DEF Stage, Worker, Single
<1>8. Stage = "none" /\ Worker = Nil
  BY MappedOther
<1> QED BY <1>7, <1>8 DEF H!Next, H!Create

LEMMA MappedNext ==
  ASSUME Work, [Next]_vars
  PROVE  [H!Next]_(H!hiring_vars)
<1>1. Work' /\ Steps /\ BountiesMove
  BY NextSteps
<1>2. CASE Single
  <2>1. Step(Id)
    BY <1>1, <1>2, IdAssumption DEF Steps, Shared, Single, HasMode
  <2> QED BY <1>1, <1>2, <2>1, MappedWork DEF H!hiring_vars
<1>3. CASE ~Single /\ Single'
  BY <1>1, <1>3, MappedBirth
<1>4. CASE ~Single /\ ~Single'
  <2>1. Stage = "none" /\ Worker = Nil
    BY <1>4, MappedOther
  <2>2. Stage' = "none" /\ Worker' = Nil
    BY <1>4 DEF Single, Stage, Worker
  <2> QED BY <2>1, <2>2 DEF H!hiring_vars
<1> QED BY <1>2, <1>3, <1>4

(* Every behaviour of the bounties contract is one of Hiring, for every    *)
(* bounty and all values of the constants: a bounty for one claimant is    *)
(* given to one claimant at a time, and reopened or paid only by the end   *)
(* of that claimant's work.                                                *)
THEOREM BountiesAreHirings == Spec => BountyIsHiring
<1>1. Work /\ [Next]_vars => [H!Next]_(H!hiring_vars)
  BY MappedNext
<1> QED BY <1>1, MappedInit, InitWork, NextWork, PTL
        DEF Spec, BountyIsHiring, H!Spec

=============================================================================
