--------------------------- MODULE BountiesProofs ---------------------------
(***************************************************************************)
(* The state of the bounties contract keeps its type, for every value of   *)
(* the constants.  TypeOK is not inductive: the handlers read the slot of  *)
(* a subtask out of the claim and use it as an index, and they read the    *)
(* mode out of a bounty that is created after Init.  SlotsNamed and Unborn *)
(* add what they rely on, and Shape is inductive.                          *)
(*                                                                         *)
(* The proof has a lemma for each operator that computes a bounty or a     *)
(* claim (what it may change: Later, Held), a lemma ...Moves for each      *)
(* internal function, and a lemma ...Shape for each action.                *)
(*                                                                         *)
(* From Shape follows what a bounty for one claimant is: it has one worker *)
(* at most (OneWorker), and its status says whether it has one             *)
(* (ClaimedWhenActive); the second half of the module.                     *)
(***************************************************************************)
EXTENDS BountiesSafety, TLAPS, SequenceTheorems

(* There is no claim on a bounty that was never created. AddBounty fills   *)
(* in the terms of the bounty: a claim that was there before it would not  *)
(* fit them.                                                               *)
Unborn ==
  \A k \in ClaimKey :
     bounties[k[1]].status = "Absent" => claims[k].status = "Absent"

(* A claim on a bounty of several tasks names one of its subtasks: the     *)
(* handlers take the slot to free, to complete or to confirm out of the    *)
(* claim.                                                                  *)
SlotsNamed ==
  \A k \in ClaimKey :
     claims[k].status # "Absent" /\ Mode(k[1]) = "DifferentTasks" =>
       claims[k].slot \in UsedPlaces(bounties[k[1]])

(* The inductive invariant of this module.                                 *)
Shape == TypeOK /\ Unborn /\ SlotsNamed

(* What a step may make of bounty b: it stays there, and never changes the *)
(* mode and the number of slots it was created with.                       *)
Later(b) ==
  {c \in Bounty : b.status # "Absent" =>
     /\ c.status # "Absent"
     /\ c.terms.mode = b.terms.mode
     /\ c.terms.slots = b.terms.slots}

(* What a step may store as claim k of a bounty that is there.             *)
Held(k) ==
  {c \in Claim : c.status # "Absent" =>
     /\ Status(k[1]) # "Absent"
     /\ Mode(k[1]) = "DifferentTasks" => c.slot \in UsedPlaces(bounties[k[1]])}

(* The step keeps every bounty within Later.                               *)
BountiesMove ==
  /\ bounties' \in [BountyId -> Bounty]
  /\ \A id \in BountyId : bounties'[id] \in Later(bounties[id])

(* The step stores only claims within Held.                                *)
ClaimsMove ==
  /\ claims' \in [ClaimKey -> Claim]
  /\ \A k \in ClaimKey : claims'[k] \in Held(k)

(* The counters and the settings have their types.                         *)
LEMMA ShapeScalars ==
  ASSUME Shape
  PROVE  /\ now \in Nat /\ config \in Config /\ held \in Nat
         /\ paid \in [ClaimKey -> Int] /\ refunded \in [BountyId -> Int]
BY DEF Shape, TypeOK

(* Taking an answered promise out leaves a sequence of promises.           *)
LEMMA RemoveAtType ==
  ASSUME NEW S, NEW q \in Seq(S), NEW i \in 1 .. Len(q)
  PROVE  RemoveAt(q, i) \in Seq(S)
BY DEF RemoveAt

(* A promise that is sent joins the sequence of promises.                  *)
LEMMA SendType ==
  ASSUME NEW q \in Seq(Calls), NEW call \in Calls, Send(q, call)
  PROVE  calls' \in Seq(Calls)
BY DEF Send

(* The parts of a claim key: bounty, account and number.                   *)
LEMMA KeyType ==
  ASSUME NEW k \in ClaimKey
  PROVE  k[1] \in BountyId /\ k[2] \in Claimants /\ k[3] \in Numbers
BY DEF ClaimKey

(* The slots of a bounty are among the places.                             *)
LEMMA UsedPlacesType ==
  ASSUME NEW b \in Bounty
  PROVE  UsedPlaces(b) \subseteq Places
BY TypesAssumption DEF UsedPlaces, Bounty, Terms, Places

(* The statuses bounty b may be given: it is never taken away.             *)
LaterStatus(b) ==
  {s \in BountyStatus : b.status # "Absent" => s # "Absent"}

(* Two changes of a bounty in one step make one.                           *)
LEMMA LaterTrans ==
  ASSUME NEW b \in Bounty, NEW c \in Later(b), NEW d \in Later(c)
  PROVE  d \in Later(b)
BY DEF Later

(* Any real status, and the one it has, may be given to a bounty.          *)
LEMMA LaterStatuses ==
  ASSUME NEW b \in Bounty
  PROVE  /\ BountyStatus \ {"Absent"} \subseteq LaterStatus(b)
         /\ b.status \in LaterStatus(b)
BY DEF LaterStatus, Bounty

(* Freeing a slot changes runtime data only (internal_reset_slot).         *)
LEMMA ResetSlotLater ==
  ASSUME NEW b \in Bounty, NEW s
  PROVE  ResetSlot(b, s) \in Later(b)
<1>1. ResetSlot(b, s) \in Bounty
  BY DEF ResetSlot, Bounty
<1>2. /\ ResetSlot(b, s).terms = b.terms
      /\ ResetSlot(b, s).status = b.status
  BY DEF ResetSlot, Bounty
<1> QED BY <1>1, <1>2 DEF Later

(* A claim that leaves a bounty changes counters and slots only.           *)
LEMMA LeftLater ==
  ASSUME NEW b \in Bounty, NEW k \in ClaimKey
  PROVE  Left(b, k) \in Later(b)
<1>1. [b EXCEPT !.participants = @ - 1] \in Later(b)
  BY DEF Bounty, Later
<1>2. [b EXCEPT !.occupied_slots = @ - 1] \in Later(b)
  BY DEF Bounty, Later
<1>3. b \in Later(b)
  BY DEF Later
<1> QED BY <1>1, <1>2, <1>3, ResetSlotLater DEF Left, Modes

(* A new status alone is a change within Later.                            *)
LEMMA StatusLater ==
  ASSUME NEW b \in Bounty, NEW s \in LaterStatus(b)
  PROVE  [b EXCEPT !.status = s] \in Later(b)
BY DEF Bounty, Later, LaterStatus

(* Moving the slot counters of a OneForAll bounty, with its status.        *)
LEMMA SlotsLater ==
  ASSUME NEW b \in Bounty, NEW s \in LaterStatus(b), NEW i \in Int,
         NEW n \in Nat
  PROVE  /\ [b EXCEPT !.occupied_slots = i, !.status = s] \in Later(b)
         /\ [b EXCEPT !.occupied_slots = i, !.paid_slots = n, !.status = s]
              \in Later(b)
BY Zenon DEF Bounty, Later, LaterStatus

(* Ending a contest: participants, finishing time and status.              *)
LEMMA ContestOverLater ==
  ASSUME NEW b \in Bounty, NEW s \in LaterStatus(b), NEW i \in Int,
         NEW f \in Nat \cup {Nil}
  PROVE  /\ [b EXCEPT !.participants = i, !.finished_at = f, !.status = s]
              \in Later(b)
         /\ [b EXCEPT !.finished_at = f, !.status = s] \in Later(b)
BY Zenon DEF Bounty, Later, LaterStatus

(* Giving a prize: participants and winners of a contest.                  *)
LEMMA WinnersLater ==
  ASSUME NEW b \in Bounty, NEW i \in Int,
         NEW w \in [Places -> ClaimKey \cup {Nil}]
  PROVE  [b EXCEPT !.participants = i, !.winners = w] \in Later(b)
BY Zenon DEF Bounty, Later

(* internal_reset_bounty_to_initial_state keeps a bounty a bounty with the *)
(* terms it had, in each of the four modes.                                *)
LEMMA ReopenedLater ==
  ASSUME NEW b \in Bounty, NEW k \in ClaimKey, now \in Nat
  PROVE  Reopened(b, k) \in Later(b)
<1>0. /\ b.terms.mode \in Modes
      /\ b.occupied_slots - 1 \in Int
      /\ b.participants - 1 \in Int
      /\ 0 \in Int /\ now \in Nat \cup {Nil}
      /\ {"New", "AwaitingClaims", b.status} \subseteq LaterStatus(b)
  BY LaterStatuses DEF Bounty, Terms, BountyStatus
<1>1. CASE b.terms.mode = "None"
  BY <1>0, <1>1, StatusLater DEF Reopened
<1>2. CASE b.terms.mode = "Contest"
  <2>1. [b EXCEPT !.participants = 0, !.finished_at = now, !.status = "New"]
          \in Later(b)
    BY <1>0, ContestOverLater, Zenon
  <2>2. [b EXCEPT !.participants = @ - 1] \in Later(b)
    BY DEF Bounty, Later
  <2> QED BY <1>2, <2>1, <2>2, Zenon DEF Reopened
<1>3. CASE b.terms.mode = "OneForAll"
  <2>1. PICK s \in LaterStatus(b) :
          Reopened(b, k) = [b EXCEPT !.occupied_slots = @ - 1, !.status = s]
    BY <1>0, <1>3, Zenon DEF Reopened
  <2>2. [b EXCEPT !.occupied_slots = @ - 1, !.status = s] \in Later(b)
    BY <1>0, SlotsLater, Zenon
  <2> QED BY <2>1, <2>2, Zenon
<1>4. CASE b.terms.mode = "DifferentTasks"
  <2> DEFINE freed == ResetSlot(b, claims[k].slot)
  <2>1. freed \in Later(b) /\ freed \in Bounty
    BY ResetSlotLater DEF Later
  <2>2. PICK s \in LaterStatus(freed) :
          Reopened(b, k) = [freed EXCEPT !.status = s]
    <3>1. {"New", freed.status} \subseteq LaterStatus(freed)
      BY <2>1, LaterStatuses DEF BountyStatus
    <3> QED BY <1>4, <3>1, Zenon DEF Reopened
  <2>3. [freed EXCEPT !.status = s] \in Later(freed)
    BY <2>1, StatusLater
  <2> QED BY <2>1, <2>2, <2>3, LaterTrans
<1> QED BY <1>0, <1>1, <1>2, <1>3, <1>4 DEF Modes

(* So does internal_bounty_completion, for a reward, a prize, a slot or    *)
(* all subtasks.                                                           *)
LEMMA PaidBountyLater ==
  ASSUME NEW b \in Bounty, NEW k \in ClaimKey \cup {Nil}, NEW place,
         now \in Nat
  PROVE  PaidBounty(b, k, place) \in Later(b)
<1>0. /\ b.occupied_slots - 1 \in Int
      /\ b.paid_slots + 1 \in Nat
      /\ b.participants - 1 \in Int
      /\ b.winners \in [Places -> ClaimKey \cup {Nil}]
      /\ now \in Nat \cup {Nil}
      /\ {"Completed", "AwaitingClaims", b.status} \subseteq LaterStatus(b)
  BY LaterStatuses DEF Bounty, BountyStatus
<1>1. CASE b.terms.mode = "Contest"
  <2>1. PICK w \in [Places -> ClaimKey \cup {Nil}] :
          w = IF b.terms.postpaid THEN b.winners
              ELSE [b.winners EXCEPT ![place] = k]
    BY <1>0
  <2> DEFINE won == [b EXCEPT !.participants = @ - 1, !.winners = w]
  <2>2. won \in Later(b)
    BY <1>0, WinnersLater, Zenon
  <2>3. PaidBounty(b, k, place) =
          IF AllPrizePlacesTaken(won)
          THEN [won EXCEPT !.finished_at = now, !.status = "Completed"]
          ELSE won
    BY <1>1, <2>1, Zenon DEF PaidBounty
  <2> HIDE DEF won
  <2>4. won \in Bounty /\ "Completed" \in LaterStatus(won)
    BY <2>2, LaterStatuses DEF Later, BountyStatus
  <2>5. [won EXCEPT !.finished_at = now, !.status = "Completed"] \in Later(won)
    BY <1>0, <2>4, ContestOverLater, Zenon
  <2> QED BY <2>2, <2>3, <2>5, LaterTrans
<1>2. CASE b.terms.mode = "OneForAll"
  <2>1. PICK s \in LaterStatus(b) :
          PaidBounty(b, k, place) =
            [b EXCEPT !.occupied_slots = @ - 1, !.paid_slots = @ + 1,
                      !.status = s]
    BY <1>0, <1>2, Zenon DEF PaidBounty
  <2>2. [b EXCEPT !.occupied_slots = @ - 1, !.paid_slots = @ + 1,
                  !.status = s] \in Later(b)
    BY <1>0, SlotsLater, Zenon
  <2> QED BY <2>1, <2>2, Zenon
<1>3. CASE b.terms.mode \notin {"Contest", "OneForAll"}
  BY <1>0, <1>3, StatusLater DEF PaidBounty
<1> QED BY <1>1, <1>2, <1>3

----------------------------------------------------------------------------
(* A step within BountiesMove and ClaimsMove keeps the two invariants      *)
(* about claims: what every handler is shown to do is enough.              *)
LEMMA ShapeCarried ==
  ASSUME Shape, BountiesMove, ClaimsMove
  PROVE  Unborn' /\ SlotsNamed'
<1>1. SUFFICES ASSUME NEW k \in ClaimKey, claims'[k].status # "Absent"
               PROVE  /\ bounties'[k[1]].status # "Absent"
                      /\ bounties'[k[1]].terms.mode = "DifferentTasks" =>
                           claims'[k].slot \in 1 .. bounties'[k[1]].terms.slots
  BY DEF Unborn, SlotsNamed, Mode, UsedPlaces
<1>2. claims'[k] \in Held(k) /\ k[1] \in BountyId
  BY KeyType DEF ClaimsMove
<1>3. bounties'[k[1]] \in Later(bounties[k[1]])
  BY <1>2 DEF BountiesMove
<1> QED BY <1>1, <1>2, <1>3 DEF Held, Later, Status, Mode, UsedPlaces

(* A step that leaves the bounties alone is within BountiesMove.           *)
LEMMA BountiesStay ==
  ASSUME Shape, UNCHANGED bounties
  PROVE  BountiesMove
BY DEF Shape, TypeOK, BountiesMove, Later

(* A step that leaves the claims alone is within ClaimsMove.               *)
LEMMA ClaimsStay ==
  ASSUME Shape, UNCHANGED claims
  PROVE  ClaimsMove
<1>1. ASSUME NEW k \in ClaimKey
      PROVE  claims[k] \in Held(k)
  BY KeyType DEF Shape, TypeOK, Unborn, SlotsNamed, Held, Status
<1> QED BY <1>1 DEF Shape, TypeOK, ClaimsMove

(* Storing one bounty within Later is within BountiesMove.                 *)
LEMMA BountyMoves ==
  ASSUME Shape, NEW id \in BountyId, NEW b \in Later(bounties[id]),
         bounties' = [bounties EXCEPT ![id] = b]
  PROVE  BountiesMove
BY DEF Shape, TypeOK, BountiesMove, Later

(* Storing one claim within Held is within ClaimsMove.                     *)
LEMMA ClaimMoves ==
  ASSUME Shape, NEW k \in ClaimKey, NEW c \in Held(k),
         claims' = [claims EXCEPT ![k] = c]
  PROVE  ClaimsMove
<1>1. ASSUME NEW j \in ClaimKey
      PROVE  claims[j] \in Held(j)
  BY KeyType DEF Shape, TypeOK, Unborn, SlotsNamed, Held, Status
<1>2. c \in Claim
  BY DEF Held
<1> QED BY <1>1, <1>2 DEF Shape, TypeOK, ClaimsMove

(* What is stored for a claim is within Held.                              *)
LEMMA StoredClaim ==
  ASSUME Shape, NEW k \in ClaimKey
  PROVE  claims[k] \in Held(k) /\ claims[k] \in Claim
BY KeyType DEF Shape, TypeOK, Unborn, SlotsNamed, Held, Status

(* What is stored for a bounty has its type.                               *)
LEMMA StoredBounty ==
  ASSUME Shape, NEW id \in BountyId
  PROVE  bounties[id] \in Bounty
BY DEF Shape, TypeOK

(* Returning or withholding a bond keeps the bond accounts integers.       *)
LEMMA BondSettledType ==
  ASSUME Shape, NEW bond \in Nat, NEW returned
  PROVE  BondSettled(bond, returned) \in BondAccounts
<1>1. PICK kept \in Int, back \in Int :
        /\ kept = (IF returned THEN 0 ELSE bond)
        /\ back = (IF returned THEN bond ELSE 0)
  OBVIOUS
<1>2. /\ bonds.locked_amount - bond \in Int
      /\ bonds.unlocked_amount + kept \in Int
      /\ bonds.near - back \in Int
  BY DEF Shape, TypeOK, BondAccounts
<1>3. BondSettled(bond, returned) =
        [bonds EXCEPT !.locked_amount = @ - bond,
                      !.unlocked_amount = @ + kept, !.near = @ - back]
  BY <1>1, Zenon DEF BondSettled
<1>4. bonds \in BondAccounts
  BY DEF Shape, TypeOK
<1> QED BY <1>2, <1>3, <1>4, Zenon DEF BondAccounts

(* A claim that is there may be given any status.                          *)
LEMMA StatusHeld ==
  ASSUME NEW k \in ClaimKey, NEW c \in Held(k), c.status # "Absent",
         NEW s \in ClaimStatus
  PROVE  [c EXCEPT !.status = s] \in Held(k)
BY DEF Held, Claim

(* internal_claim_closure: the claim keeps its slot, the bond is settled.  *)
LEMMA CloseClaimMoves ==
  ASSUME Shape, NEW k \in ClaimKey, claims[k].status # "Absent",
         NEW status \in ClaimStatus, NEW returned,
         CloseClaim(k, status, returned)
  PROVE  /\ ClaimsMove
         /\ bonds' \in BondAccounts
<1>1. claims[k] \in Held(k) /\ claims[k] \in Claim
  BY StoredClaim
<1>2. [claims[k] EXCEPT !.status = status] \in Held(k)
  BY <1>1, StatusHeld
<1>3. claims' = [claims EXCEPT ![k] = [claims[k] EXCEPT !.status = status]]
  BY DEF CloseClaim
<1>4. claims[k].bond \in Nat
  BY <1>1 DEF Claim
<1> QED BY <1>2, <1>3, <1>4, ClaimMoves, BondSettledType DEF CloseClaim

(* internal_reset_bounty_to_initial_state as a whole: bounty, claim and    *)
(* bond.                                                                   *)
LEMMA BountyClosed ==
  ASSUME Shape, NEW k \in ClaimKey, claims[k].status # "Absent",
         NEW status \in ClaimStatus, NEW returned,
         ResetBounty(k, status, returned)
  PROVE  /\ BountiesMove /\ ClaimsMove
         /\ bonds' \in BondAccounts
<1>1. k[1] \in BountyId /\ now \in Nat /\ bounties[k[1]] \in Bounty
  BY KeyType, StoredBounty DEF Shape, TypeOK
<1>2. Reopened(bounties[k[1]], k) \in Later(bounties[k[1]])
  BY <1>1, ReopenedLater
<1>3. BountiesMove
  BY <1>1, <1>2, BountyMoves DEF ResetBounty
<1> QED BY <1>3, CloseClaimMoves DEF ResetBounty

----------------------------------------------------------------------------
(* Starting a contest: participants, start and finishing time, status.     *)
LEMMA StartLater ==
  ASSUME NEW b \in Bounty, NEW s \in LaterStatus(b), NEW i \in Int,
         NEW f \in Nat \cup {Nil}, NEW g \in Nat \cup {Nil}
  PROVE  [[b EXCEPT !.status = s]
            EXCEPT !.participants = i, !.started_at = f, !.finished_at = g]
           \in Later(b)
BY Zenon DEF Bounty, Later, LaterStatus

(* Giving a subtask to a claim: the slots and their two flags.             *)
LEMMA TaskLater ==
  ASSUME NEW b \in Bounty, NEW w \in [Places -> ClaimKey \cup {Nil}],
         NEW f \in SUBSET Places, NEW d \in SUBSET Places
  PROVE  [b EXCEPT !.slots = w, !.confirmed = f, !.completed = d] \in Later(b)
BY Zenon DEF Bounty, Later

(* internal_claimant_approval, the bounty's part: a claimant who is        *)
(* approved changes runtime data and status only; in a bounty of several   *)
(* tasks this rests on SlotsNamed, as the slots of the released claims are *)
(* completed with it.                                                      *)
LEMMA BountyOnApprovalLater ==
  ASSUME Shape, NEW k \in ClaimKey, NEW s, NEW b \in Bounty,
         b = bounties[k[1]], b.status # "Absent", TakesClaims(b, s, now)
  PROVE  BountyOnApproval(b, k, s) \in Later(b)
<1> DEFINE after == [b EXCEPT !.status = StatusOnApproval(b, k, s)]
<1>0. /\ b.terms.mode \in Modes
      /\ now \in Nat
      /\ {"Claimed", "ManyClaimed", b.status} \subseteq LaterStatus(b)
  <2>1. b.terms.mode \in Modes
    BY DEF Bounty, Terms
  <2>2. now \in Nat
    BY ShapeScalars
  <2>3. "Claimed" \in LaterStatus(b) /\ "ManyClaimed" \in LaterStatus(b)
    BY LaterStatuses DEF BountyStatus
  <2>4. b.status \in LaterStatus(b)
    BY LaterStatuses
  <2> QED BY <2>1, <2>2, <2>3, <2>4
<1>1. StatusOnApproval(b, k, s) \in LaterStatus(b)
  BY <1>0, Zenon DEF StatusOnApproval
<1>2. after \in Later(b) /\ after \in Bounty
  BY <1>1, StatusLater DEF Later
<1>3. /\ after.participants = b.participants
      /\ after.started_at = b.started_at /\ after.finished_at = b.finished_at
      /\ after.slots = b.slots
      /\ after.confirmed = b.confirmed /\ after.completed = b.completed
      /\ after.occupied_slots = b.occupied_slots
  BY DEF Bounty
<1>4. CASE b.terms.mode = "None"
  BY <1>2, <1>4, Zenon DEF BountyOnApproval
<1>5. CASE b.terms.mode = "Contest"
  <2>1. PICK f \in Nat \cup {Nil}, g \in Nat \cup {Nil} :
          /\ f = IF StartsWork(b, k, s) THEN now ELSE b.started_at
          /\ g = IF StartsWork(b, k, s) THEN Nil ELSE b.finished_at
    BY <1>0 DEF Bounty
  <2>2. after.participants + 1 \in Int
    BY <1>2 DEF Bounty
  <2>3. BountyOnApproval(b, k, s) =
          [after EXCEPT !.participants = @ + 1, !.started_at = f,
                        !.finished_at = g]
    BY <1>3, <1>5, <2>1, Zenon DEF BountyOnApproval
  <2>4. [after EXCEPT !.participants = @ + 1, !.started_at = f,
                      !.finished_at = g] \in Later(b)
    BY <1>1, <2>2, StartLater, Zenon
  <2> QED BY <2>3, <2>4
<1>6. CASE b.terms.mode = "OneForAll"
  <2>1. [after EXCEPT !.occupied_slots = @ + 1] \in Later(after)
    <3> HIDE DEF after
    <3> QED BY <1>2 DEF Bounty, Later
  <2>2. BountyOnApproval(b, k, s) = [after EXCEPT !.occupied_slots = @ + 1]
    BY <1>6, Zenon DEF BountyOnApproval
  <2> QED BY <1>2, <2>1, <2>2, LaterTrans
<1>7. CASE b.terms.mode = "DifferentTasks"
  <2>1. s \in Places /\ s \in UsedPlaces(b)
    BY <1>7, UsedPlacesType DEF TakesClaims
  <2>2. {claims[j].slot : j \in Released(b, k, s)} \subseteq Places
    <3>1. ASSUME NEW j \in Released(b, k, s)
          PROVE  claims[j].slot \in UsedPlaces(b)
      BY <1>7 DEF Released, ReadyBut, ClaimsOf, Shape, SlotsNamed, Mode
    <3> QED BY <3>1, UsedPlacesType
  <2>3. PICK d \in SUBSET Places :
          d = IF b.terms.flow = "SimpleBounty" /\ after.status = "ManyClaimed"
              THEN after.completed \cup {s}
                     \cup {claims[j].slot : j \in Released(b, k, s)}
              ELSE after.completed \ {s}
    <3>1. after.completed \in SUBSET Places
      BY <1>2 DEF Bounty
    <3> HIDE DEF after
    <3> QED BY <2>1, <2>2, <3>1
  <2>4. PICK w \in [Places -> ClaimKey \cup {Nil}] :
          w = [after.slots EXCEPT ![s] = k]
    BY <1>2, <2>1 DEF Bounty
  <2>5. PICK f \in SUBSET Places : f = after.confirmed \ {s}
    BY <1>2 DEF Bounty
  <2>6. BountyOnApproval(b, k, s) =
          [after EXCEPT !.slots = w, !.confirmed = f, !.completed = d]
    BY <1>7, <2>3, <2>4, <2>5, Zenon DEF BountyOnApproval
  <2>7. [after EXCEPT !.slots = w, !.confirmed = f, !.completed = d]
          \in Later(after)
    <3> HIDE DEF after
    <3> QED BY <1>2, TaskLater, Zenon
  <2> QED BY <1>2, <2>6, <2>7, LaterTrans
<1> QED BY <1>0, <1>4, <1>5, <1>6, <1>7 DEF Modes

(* internal_claimant_approval, the part of the approved claim: it names a  *)
(* subtask that the bounty has.                                            *)
LEMMA ClaimOnApprovalHeld ==
  ASSUME Shape, NEW k \in ClaimKey, NEW c \in Claim,
         NEW b, b = bounties[k[1]], b.status # "Absent",
         TakesClaims(b, c.slot, now), NEW delayed \in Deferments \cup {Nil}
  PROVE  [ClaimOnApproval(b, k, c) EXCEPT !.kyc_delayed = delayed] \in Held(k)
<1>1. PICK s \in ClaimStatus, f \in Nat \cup {Nil} :
        ClaimOnApproval(b, k, c) = [c EXCEPT !.status = s, !.start_time = f]
  <2>1. CASE /\ b.terms.mode \in {"OneForAll", "DifferentTasks"}
             /\ StatusOnApproval(b, k, c.slot) # "ManyClaimed"
    <3>1. ClaimOnApproval(b, k, c) = [c EXCEPT !.status = "ReadyToStart"]
      BY <2>1, Zenon DEF ClaimOnApproval
    <3>2. [c EXCEPT !.status = "ReadyToStart"] =
            [c EXCEPT !.status = "ReadyToStart", !.start_time = c.start_time]
      BY Zenon DEF Claim
    <3>3. "ReadyToStart" \in ClaimStatus /\ c.start_time \in Nat \cup {Nil}
      BY DEF ClaimStatus, Claim
    <3> QED BY <3>1, <3>2, <3>3, Zenon
  <2>2. CASE ~ /\ b.terms.mode \in {"OneForAll", "DifferentTasks"}
               /\ StatusOnApproval(b, k, c.slot) # "ManyClaimed"
    <3>1. ApprovedStatus(b) \in ClaimStatus
      BY DEF ApprovedStatus, ClaimStatus
    <3>2. PICK f \in Nat \cup {Nil} :
            f = IF StatusOnApproval(b, k, c.slot) \in Running THEN now
                ELSE c.start_time
      BY DEF Shape, TypeOK, Claim
    <3>3. ClaimOnApproval(b, k, c) =
            [c EXCEPT !.status = ApprovedStatus(b), !.start_time = f]
      BY <2>2, <3>2, Zenon DEF ClaimOnApproval
    <3> QED BY <3>1, <3>3, Zenon
  <2> QED BY <2>1, <2>2
<1> DEFINE a == [c EXCEPT !.status = s, !.start_time = f]
<1>2. a \in Claim /\ a.slot = c.slot
  BY Zenon DEF Claim
<1>3. [a EXCEPT !.kyc_delayed = delayed] \in Claim
      /\ [a EXCEPT !.kyc_delayed = delayed].slot = c.slot
  <2> HIDE DEF a
  <2> QED BY <1>2 DEF Claim
<1> HIDE DEF a
<1>4. b.terms.mode = "DifferentTasks" => c.slot \in UsedPlaces(b)
  BY DEF TakesClaims
<1>5. ClaimOnApproval(b, k, c) = a
  BY <1>1 DEF a
<1> QED BY <1>3, <1>4, <1>5 DEF Held, Status, Mode

(* internal_claimant_approval as a whole, with the claims it releases.     *)
LEMMA ApproveClaimantMoves ==
  ASSUME Shape, NEW k \in ClaimKey, NEW c \in Claim,
         bounties[k[1]].status # "Absent",
         NEW delayed \in Deferments \cup {Nil},
         ApproveClaimant(k, c, delayed)
  PROVE  BountiesMove /\ ClaimsMove
<1> DEFINE b == bounties[k[1]]
<1>1. k[1] \in BountyId /\ b \in Bounty /\ now \in Nat
  BY KeyType, StoredBounty DEF Shape, TypeOK
<1>2. TakesClaims(b, c.slot, now)
  BY DEF ApproveClaimant
<1>3. BountyOnApproval(b, k, c.slot) \in Later(b)
  BY <1>1, <1>2, BountyOnApprovalLater
<1>4. BountiesMove
  BY <1>1, <1>3, BountyMoves DEF ApproveClaimant
<1>5. [ClaimOnApproval(b, k, c) EXCEPT !.kyc_delayed = delayed] \in Held(k)
  BY <1>2, ClaimOnApprovalHeld
<1>6. ASSUME NEW j \in Released(b, k, c.slot)
      PROVE  [claims[j] EXCEPT !.status = ApprovedStatus(b), !.start_time = now]
               \in Held(j)
  <2>1. j \in ClaimKey /\ claims[j].status = "ReadyToStart"
    BY DEF Released, ReadyBut, ClaimsOf
  <2>2. claims[j] \in Held(j) /\ claims[j] \in Claim
    BY <2>1, StoredClaim
  <2>3. /\ claims[j].status # "Absent"
        /\ ApprovedStatus(b) \in ClaimStatus /\ now \in Nat \cup {Nil}
    BY <1>1, <2>1 DEF ApprovedStatus, ClaimStatus
  <2> QED BY <2>2, <2>3, Zenon DEF Held, Claim
<1>7. ASSUME NEW j \in ClaimKey
      PROVE  claims[j] \in Held(j)
  BY StoredClaim
<1>8. \A j \in ClaimKey : Held(j) \subseteq Claim
  BY DEF Held
<1>9. claims' = [j \in ClaimKey |->
         IF j = k
         THEN [ClaimOnApproval(b, k, c) EXCEPT !.kyc_delayed = delayed]
         ELSE IF j \in Released(b, k, c.slot)
         THEN [claims[j] EXCEPT !.status = ApprovedStatus(b),
                                !.start_time = now]
         ELSE claims[j]]
  BY Zenon DEF ApproveClaimant
<1>10. \A j \in ClaimKey : claims'[j] \in Held(j)
  <2> HIDE DEF b
  <2> QED BY <1>5, <1>6, <1>7, <1>9, Zenon
<1>11. claims' = [j \in ClaimKey |-> claims'[j]]
  BY <1>9, Zenon
<1>12. claims' \in [ClaimKey -> Claim]
  BY <1>8, <1>10, <1>11
<1> QED BY <1>4, <1>10, <1>12 DEF ClaimsMove

----------------------------------------------------------------------------
(* The bond accounts are integers.                                         *)
BondsTyped == bonds \in BondAccounts

(* The fee accounts never go below zero: they are u128 in the code.        *)
FeesTyped ==
  fees \in [balance: Nat, locked: Nat, dao_balance: Nat, dao_locked: Nat]

(* A step that leaves the bonds alone keeps their type.                    *)
LEMMA BondsStay ==
  ASSUME Shape, UNCHANGED bonds
  PROVE  BondsTyped'
BY DEF Shape, TypeOK, BondsTyped

(* internal_create_claim, with the approval that may come with it.         *)
LEMMA CreateClaimMoves ==
  ASSUME Shape, NEW k \in ClaimKey, NEW deadline \in Nat \cup {Nil},
         NEW slot \in Places \cup {Nil}, NEW proposal \in BOOLEAN,
         NEW attached \in Nat, bounties[k[1]].status # "Absent",
         Mode(k[1]) = "DifferentTasks" => slot \in UsedPlaces(bounties[k[1]]),
         CreateClaim(k, deadline, slot, proposal, attached)
  PROVE  BountiesMove /\ ClaimsMove /\ BondsTyped'
<1>1. config.bond \in Nat
  BY DEF Shape, TypeOK, Config
<1>2. BondsTyped'
  <2>1. /\ bonds.locked_amount + config.bond \in Int
        /\ bonds.near + attached \in Int
        /\ bonds \in BondAccounts
    BY <1>1 DEF Shape, TypeOK, BondAccounts
  <2>2. bonds' = [bonds EXCEPT !.locked_amount = @ + config.bond,
                               !.near = @ + attached]
    BY DEF CreateClaim
  <2> QED BY <2>1, <2>2, Zenon DEF BondsTyped, BondAccounts
<1> DEFINE c == [NoClaim EXCEPT !.status = "New", !.deadline = deadline,
                                !.slot = slot, !.bond = config.bond,
                                !.approve_proposal = proposal]
<1>3. NoClaim \in Claim /\ "New" \in ClaimStatus
  BY DEF NoClaim, Claim, ClaimStatus
<1>4. c \in Claim /\ c.slot = slot
  BY <1>1, <1>3, Zenon DEF Claim
<1>5. \/ ApproveClaimant(k, c, Nil)
      \/ claims' = [claims EXCEPT ![k] = c] /\ UNCHANGED bounties
  BY Zenon DEF CreateClaim
<1> HIDE DEF c
<1>6. c \in Held(k)
  BY <1>4 DEF Held, Status
<1>7. CASE ApproveClaimant(k, c, Nil)
  BY <1>2, <1>4, <1>7, ApproveClaimantMoves
<1>8. CASE claims' = [claims EXCEPT ![k] = c] /\ UNCHANGED bounties
  BY <1>2, <1>6, <1>8, ClaimMoves, BountiesStay
<1> QED BY <1>5, <1>7, <1>8

(* check_if_allowed_to_create_claim_by_status lets a claim in only on a    *)
(* bounty that is there, for a subtask it has, under a key of that bounty. *)
LEMMA MayCreateClaimFacts ==
  ASSUME Shape, NEW id \in BountyId, NEW who \in Claimants, NEW slot,
         MayCreateClaim(id, who, slot)
  PROVE  /\ NextKey(id, who) \in ClaimKey
         /\ NextKey(id, who)[1] = id
         /\ bounties[id].status # "Absent"
         /\ Mode(id) = "DifferentTasks" => slot \in UsedPlaces(bounties[id])
<1>1. bounties[id].status \in OpenStatuses(bounties[id].terms.mode)
  BY DEF MayCreateClaim
<1>2. bounties[id].status # "Absent"
  BY <1>1 DEF OpenStatuses
<1> QED BY <1>2 DEF MayCreateClaim, NextKey, Mode

(* internal_add_proposal: the bond accounts stay integers, what is out     *)
(* with proposals does not fall.                                           *)
LEMMA ProposeMoves ==
  ASSUME Shape, NEW q \in Seq(Calls), NEW k \in ClaimKey,
         NEW call \in Calls, call.claim = k, NEW attached \in Nat,
         Propose(q, call, attached)
  PROVE  BondsTyped' /\ calls' \in Seq(Calls)
<1>1. PICK cost : cost = bounties[k[1]].terms.proposal_bond
  OBVIOUS
<1>2. /\ Send(q, call)
      /\ bonds' = [bonds EXCEPT !.near = @ + attached - cost,
                                !.proposals = @ + cost]
  BY <1>1, Zenon DEF Propose
<1>3. cost \in Nat
  <2>1. bounties[k[1]].terms \in Terms
    BY KeyType, StoredBounty DEF Bounty
  <2> QED BY <1>1, <2>1 DEF Terms
<1>4. /\ bonds \in BondAccounts
      /\ bonds.near + attached - cost \in Int
      /\ bonds.proposals + cost \in Nat
  BY <1>3 DEF Shape, TypeOK, BondAccounts
<1>5. BondsTyped'
  BY <1>2, <1>4, Zenon DEF BondsTyped, BondAccounts
<1> QED BY <1>2, <1>5, SendType

(* internal_add_proposal_and_create_claim: a proposal is sent or a claim   *)
(* is made.                                                                *)
LEMMA ProposeOrCreateClaimMoves ==
  ASSUME Shape, NEW q \in Seq(Calls), NEW k \in ClaimKey,
         NEW deadline \in Nat \cup {Nil}, NEW slot \in Places \cup {Nil},
         NEW attached \in Nat,
         ProposeOrCreateClaim(q, k, deadline, slot, attached),
         \/ /\ bounties[k[1]].terms.dao
            /\ ApprovalRequired(k[2], bounties[k[1]].terms)
         \/ /\ bounties[k[1]].status # "Absent"
            /\ Mode(k[1]) = "DifferentTasks" =>
                 slot \in UsedPlaces(bounties[k[1]])
  PROVE  /\ BountiesMove /\ ClaimsMove /\ BondsTyped'
         /\ calls' \in Seq(Calls)
<1> DEFINE asks == /\ bounties[k[1]].terms.dao
                   /\ ApprovalRequired(k[2], bounties[k[1]].terms)
           call == [kind |-> "addClaimantProposal", claim |-> k,
                    deadline |-> deadline, slot |-> slot]
<1>1. CASE asks
  <2>1. Propose(q, call, attached) /\ UNCHANGED <<bounties, claims>>
    BY <1>1, Zenon DEF ProposeOrCreateClaim
  <2>2. call \in Calls /\ call.claim = k
    BY DEF Calls
  <2> HIDE DEF call
  <2>3. BondsTyped' /\ calls' \in Seq(Calls)
    BY <2>1, <2>2, ProposeMoves
  <2>5. UNCHANGED bounties /\ UNCHANGED claims
    BY <2>1
  <2>6. BountiesMove /\ ClaimsMove
    BY <2>5, BountiesStay, ClaimsStay
  <2> QED BY <2>3, <2>6
<1>2. CASE ~asks
  <2>1. CreateClaim(k, deadline, slot, FALSE, attached) /\ calls' = q
    BY <1>2, Zenon DEF ProposeOrCreateClaim
  <2> QED BY <1>2, <2>1, CreateClaimMoves
<1> QED BY <1>1, <1>2

----------------------------------------------------------------------------
(* A step that leaves the fees alone keeps their type.                     *)
LEMMA FeesStay ==
  ASSUME Shape, UNCHANGED fees
  PROVE  FeesTyped'
BY DEF Shape, TypeOK, FeesTyped

(* internal_get_bounty_amount_for_payment returns integers, in a contest   *)
(* for each of its places.                                                 *)
LEMMA AmountsForPaymentType ==
  ASSUME NEW b \in Bounty, NEW place \in Places \cup {Nil},
         ~b.terms.postpaid /\ b.terms.mode = "Contest" => place \in Places
  PROVE  AmountsForPayment(b, place) \in Amounts
<1>1. /\ b.amount \in Int /\ b.platform_fee \in Int /\ b.dao_fee \in Int
      /\ b.paid_slots \in Int /\ b.occupied_slots \in Int
      /\ b.terms.slots \in Nat /\ b.terms.slots > 0
      /\ b.terms.shares \in [Places -> Nat]
  <2>1. /\ b.amount \in Int /\ b.platform_fee \in Int /\ b.dao_fee \in Int
        /\ b.paid_slots \in Int /\ b.occupied_slots \in Int
        /\ b.terms \in Terms
    BY DEF Bounty
  <2>2. b.terms.slots \in Places /\ b.terms.shares \in [Places -> Nat]
    BY <2>1 DEF Terms
  <2>3. b.terms.slots \in Nat /\ b.terms.slots > 0
    BY <2>2, TypesAssumption DEF Places
  <2> QED BY <2>1, <2>2, <2>3
<1>2. \A x \in Int : /\ x \div b.terms.slots \in Int
                     /\ x - (x \div b.terms.slots) * (b.terms.slots - 1) \in Int
  BY <1>1
<1>3. place \in Places => b.terms.shares[place] \in Int
  BY <1>1
<1>4. CASE b.terms.postpaid
  BY <1>4 DEF AmountsForPayment, Nothing, Amounts
<1>5. CASE ~b.terms.postpaid /\ b.terms.mode = "OneForAll"
  <2>1. PICK x \in Int, y \in Int, z \in Int :
          AmountsForPayment(b, place) = [pay |-> x, fee |-> y, dao |-> z]
    BY <1>1, <1>2, <1>5, Zenon DEF AmountsForPayment
  <2> QED BY <2>1 DEF Amounts
<1>6. CASE ~b.terms.postpaid /\ b.terms.mode = "Contest"
  BY <1>1, <1>2, <1>3, <1>6 DEF AmountsForPayment, Amounts
<1>7. CASE ~b.terms.postpaid /\ b.terms.mode \notin {"OneForAll", "Contest"}
  BY <1>1, <1>7 DEF AmountsForPayment, Amounts
<1> QED BY <1>4, <1>5, <1>6, <1>7

(* internal_get_bounty_amount_to_return returns integers.                  *)
LEMMA AmountsToReturnType ==
  ASSUME NEW b \in Bounty
  PROVE  AmountsToReturn(b) \in Amounts
<1>1. /\ b.amount \in Int /\ b.platform_fee \in Int /\ b.dao_fee \in Int
      /\ b.paid_slots \in Int /\ b.terms.slots \in Nat /\ b.terms.slots > 0
  BY TypesAssumption DEF Bounty, Terms, Places
<1>2. \A x \in Int :
        (x \div b.terms.slots) * (b.terms.slots - b.paid_slots) \in Int
  BY <1>1
<1>3. CASE b.terms.postpaid
  BY <1>3 DEF AmountsToReturn, Nothing, Amounts
<1>4. CASE ~b.terms.postpaid
  <2>1. PICK x \in Int, y \in Int, z \in Int :
          AmountsToReturn(b) = [pay |-> x, fee |-> y, dao |-> z]
    BY <1>1, <1>2, <1>4, Zenon DEF AmountsToReturn
  <2> QED BY <2>1 DEF Amounts
<1> QED BY <1>3, <1>4

(* commission_unlocking and refund_commission keep the fee accounts from   *)
(* going below zero, given the assertions made before them.                *)
LEMMA CommissionType ==
  ASSUME Shape, NEW a \in Amounts, LockedCovers(a)
  PROVE  /\ CommissionUnlocked(a)
              \in [balance: Nat, locked: Nat, dao_balance: Nat, dao_locked: Nat]
         /\ CommissionRefundable(a) =>
              CommissionRefunded(a)
                \in [balance: Nat, locked: Nat,
                     dao_balance: Nat, dao_locked: Nat]
<1>1. /\ fees \in [balance: Nat, locked: Nat, dao_balance: Nat,
                   dao_locked: Nat]
      /\ fees.locked - a.fee \in Nat /\ fees.dao_locked - a.dao \in Nat
  BY DEF Shape, TypeOK, Amounts, LockedCovers
<1>2. CommissionRefundable(a) =>
        fees.balance - a.fee \in Nat /\ fees.dao_balance - a.dao \in Nat
  BY DEF Shape, TypeOK, Amounts, CommissionRefundable
<1>3. CommissionUnlocked(a)
        \in [balance: Nat, locked: Nat, dao_balance: Nat, dao_locked: Nat]
  BY <1>1, Zenon DEF CommissionUnlocked
<1>4. ASSUME CommissionRefundable(a)
      PROVE  CommissionRefunded(a)
               \in [balance: Nat, locked: Nat, dao_balance: Nat, dao_locked: Nat]
  BY <1>1, <1>2, <1>4, Zenon DEF CommissionRefunded
<1> QED BY <1>3, <1>4

(* internal_bounty_completion, where it does not panic.                    *)
LEMMA CompleteMoves ==
  ASSUME Shape, NEW id \in BountyId, NEW k \in ClaimKey \cup {Nil},
         NEW amounts \in Amounts, NEW place,
         MayComplete(id, k, amounts, place), Complete(id, k, amounts, place)
  PROVE  BountiesMove /\ ClaimsMove /\ BondsTyped' /\ FeesTyped'
<1>1. bounties[id] \in Bounty /\ now \in Nat
  BY StoredBounty DEF Shape, TypeOK
<1>2. PaidBounty(bounties[id], k, place) \in Later(bounties[id])
  BY <1>1, PaidBountyLater
<1>3. BountiesMove
  BY <1>2, BountyMoves DEF Complete
<1>4. FeesTyped'
  BY CommissionType DEF Complete, MayComplete, FeesTyped
<1>5. ClaimsMove /\ BondsTyped'
  <2>1. CASE k = Nil
    BY <2>1, ClaimsStay, BondsStay DEF Complete
  <2>2. CASE k # Nil
    <3>1. k \in ClaimKey /\ claims[k].status # "Absent"
      BY <2>2 DEF MayComplete
    <3>2. CloseClaim(k, "Approved", TRUE) /\ "Approved" \in ClaimStatus
      BY <2>2 DEF Complete, ClaimStatus
    <3> QED BY <3>1, <3>2, CloseClaimMoves DEF BondsTyped
  <2> QED BY <2>1, <2>2
<1> QED BY <1>3, <1>4, <1>5

(* internal_bounty_payout: the transfer leaves, or, where nothing is to be *)
(* transferred, the bounty is completed at once.                           *)
LEMMA PayoutMoves ==
  ASSUME Shape, NEW q \in Seq(Calls), NEW id \in BountyId,
         NEW k \in ClaimKey \cup {Nil}, NEW place \in Places \cup {Nil},
         Payout(q, id, k, place)
  PROVE  /\ BountiesMove /\ ClaimsMove /\ BondsTyped' /\ FeesTyped'
         /\ calls' \in Seq(Calls)
<1> DEFINE b == bounties[id]
           amounts == AmountsForPayment(b, place)
<1>1. b \in Bounty
  BY StoredBounty
<1>2. place = Nil => b.terms.postpaid \/ b.terms.mode # "Contest"
  BY DEF Payout
<1>3. amounts \in Amounts
  BY <1>1, <1>2, AmountsForPaymentType
<1>4. CASE b.terms.postpaid \/ b.terms.mode = "DifferentTasks"
  <2>1. /\ MayComplete(id, k, amounts, place)
        /\ Complete(id, k, amounts, place)
        /\ calls' = q
    BY <1>4, Zenon DEF Payout
  <2> HIDE DEF amounts
  <2> QED BY <1>3, <2>1, CompleteMoves
<1>5. CASE ~(b.terms.postpaid \/ b.terms.mode = "DifferentTasks")
  <2> DEFINE call == [kind |-> "payout", id |-> id, claim |-> k,
                      amounts |-> amounts, place |-> place]
  <2>1. Send(q, call) /\ UNCHANGED <<bounties, claims, bonds, fees>>
    BY <1>5, Zenon DEF Payout
  <2>2. call \in Calls
    <3> HIDE DEF amounts
    <3> QED BY <1>3 DEF Calls
  <2> HIDE DEF call
  <2>3. calls' \in Seq(Calls)
    BY <2>1, <2>2, SendType
  <2>4. UNCHANGED bounties /\ UNCHANGED claims /\ UNCHANGED bonds
        /\ UNCHANGED fees
    BY <2>1
  <2> QED BY <2>3, <2>4, BountiesStay, ClaimsStay, BondsStay, FeesStay
<1> QED BY <1>4, <1>5

(* internal_bounty_cancellation, where it does not panic.                  *)
LEMMA CancellationMoves ==
  ASSUME Shape, NEW id \in BountyId,
         CommissionRefundable(AmountsToReturn(bounties[id])), Cancellation(id)
  PROVE  BountiesMove /\ FeesTyped'
<1>1. bounties[id] \in Bounty
  BY StoredBounty
<1>2. PICK s \in LaterStatus(bounties[id]) :
        s = IF bounties[id].status = "AwaitingClaims" THEN "PartiallyCompleted"
            ELSE "Canceled"
  BY <1>1, LaterStatuses DEF BountyStatus
<1>3. bounties' = [bounties EXCEPT ![id] = [bounties[id] EXCEPT !.status = s]]
  BY <1>2 DEF Cancellation
<1>4. BountiesMove
  BY <1>1, <1>3, StatusLater, BountyMoves
<1>5. AmountsToReturn(bounties[id]) \in Amounts
  BY <1>1, AmountsToReturnType
<1>6. FeesTyped'
  BY <1>5, CommissionType DEF CommissionRefundable, Cancellation, FeesTyped
<1> QED BY <1>4, <1>6

(* internal_slot_finalize: a withdrawn subtask is free again.              *)
LEMMA SlotFinalizeMoves ==
  ASSUME Shape, NEW k \in ClaimKey, claims[k].status # "Absent", NEW slot,
         SlotFinalize(k, slot)
  PROVE  BountiesMove /\ ClaimsMove /\ BondsTyped'
<1>1. k[1] \in BountyId /\ bounties[k[1]] \in Bounty
  BY KeyType, StoredBounty
<1>2. BountiesMove
  BY <1>1, ResetSlotLater, BountyMoves DEF SlotFinalize
<1>3. CloseClaim(k, "Approved", TRUE) /\ "Approved" \in ClaimStatus
  BY DEF SlotFinalize, ClaimStatus
<1> QED BY <1>2, <1>3, CloseClaimMoves DEF BondsTyped

(* internal_reject_claim, with and without the way to a dispute.           *)
LEMMA RejectClaimMoves ==
  ASSUME Shape, NEW k \in ClaimKey, claims[k].status # "Absent", RejectClaim(k)
  PROVE  BountiesMove /\ ClaimsMove /\ BondsTyped'
<1>1. CASE ResetBounty(k, "NotCompleted", TRUE)
  BY <1>1, BountyClosed DEF ClaimStatus, BondsTyped
<1>2. CASE /\ claims' = [claims EXCEPT ![k].status = "Rejected",
                                       ![k].rejected_at = now]
           /\ UNCHANGED <<bounties, bonds>>
  <2> DEFINE c == [claims[k] EXCEPT !.status = "Rejected", !.rejected_at = now]
  <2>1. claims[k] \in Held(k) /\ claims[k] \in Claim
    BY StoredClaim
  <2>2. "Rejected" \in ClaimStatus /\ now \in Nat \cup {Nil}
    BY DEF Shape, TypeOK, ClaimStatus
  <2>3. c \in Held(k)
    BY <2>1, <2>2, Zenon DEF Held, Claim
  <2>4. claims' = [claims EXCEPT ![k] = c]
    BY <1>2, Zenon DEF Shape, TypeOK
  <2>5. UNCHANGED bounties /\ UNCHANGED bonds
    BY <1>2
  <2> HIDE DEF c
  <2> QED BY <2>3, <2>4, <2>5, ClaimMoves, BountiesStay, BondsStay
<1> QED BY <1>1, <1>2, Zenon DEF RejectClaim

(* The end of a dispute: the claim fails, its subtask is accepted, or its  *)
(* reward is paid.                                                         *)
LEMMA SettleDisputeMoves ==
  ASSUME Shape, NEW q \in Seq(Calls), NEW k \in ClaimKey, NEW success,
         claims[k].status # "Absent", SettleDispute(q, k, success)
  PROVE  /\ BountiesMove /\ ClaimsMove /\ BondsTyped' /\ FeesTyped'
         /\ calls' \in Seq(Calls)
<1>1. CASE /\ ResetBounty(k, "NotCompleted", TRUE)
           /\ calls' = q
           /\ UNCHANGED fees
  BY <1>1, BountyClosed, FeesStay DEF ClaimStatus, BondsTyped
<1>2. CASE ReturnedAfterDispute(k) /\ calls' = q
  <2>1. claims[k] \in Held(k) /\ "CompletedWithDispute" \in ClaimStatus
    BY StoredClaim DEF ClaimStatus
  <2>2. claims' = [claims EXCEPT ![k] =
                     [claims[k] EXCEPT !.status = "CompletedWithDispute"]]
    BY <1>2 DEF ReturnedAfterDispute
  <2>3. ClaimsMove
    BY <2>1, <2>2, StatusHeld, ClaimMoves
  <2>4. UNCHANGED bounties /\ UNCHANGED bonds /\ UNCHANGED fees
    BY <1>2 DEF ReturnedAfterDispute
  <2> QED BY <1>2, <2>3, <2>4, BountiesStay, BondsStay, FeesStay
<1>3. CASE Payout(q, k[1], k, Nil)
  BY <1>3, KeyType, PayoutMoves
<1> QED BY <1>1, <1>2, <1>3, Zenon DEF SettleDispute

----------------------------------------------------------------------------
(* A step that keeps time, configuration and token accounts typed and      *)
(* moves bounties and claims as allowed keeps Shape: the frame of the      *)
(* proofs below, which show the premises for each action.                  *)
LEMMA ShapeStep ==
  ASSUME Shape, now' \in Nat, config' \in Config, BountiesMove, ClaimsMove,
         BondsTyped', FeesTyped', held' \in Nat, paid' \in [ClaimKey -> Int],
         refunded' \in [BountyId -> Int], calls' \in Seq(Calls)
  PROVE  Shape' /\ BountiesMove
<1>1. Unborn' /\ SlotsNamed'
  BY ShapeCarried
<1>2. TypeOK'
  BY DEF TypeOK, BountiesMove, ClaimsMove, BondsTyped, FeesTyped
<1> QED BY <1>1, <1>2 DEF Shape

(* The same for the many actions that leave time, configuration and tokens *)
(* alone.                                                                  *)
LEMMA ShapeStill ==
  ASSUME Shape, UNCHANGED <<now, config, tokens>>, BountiesMove, ClaimsMove,
         BondsTyped', FeesTyped', calls' \in Seq(Calls)
  PROVE  Shape' /\ BountiesMove
<1>1. /\ now' \in Nat /\ config' \in Config /\ held' \in Nat
      /\ paid' \in [ClaimKey -> Int] /\ refunded' \in [BountyId -> Int]
  BY DEF tokens, Shape, TypeOK
<1> QED BY <1>1, ShapeStep

(* A step that leaves the promises alone keeps their type.                 *)
LEMMA CallsStay ==
  ASSUME Shape, UNCHANGED calls
  PROVE  calls' \in Seq(Calls)
BY DEF Shape, TypeOK

(* The promises have their type.                                           *)
LEMMA CallsType ==
  ASSUME Shape
  PROVE  calls \in Seq(Calls)
BY DEF Shape, TypeOK

(* Time passing keeps Shape.                                               *)
LEMMA TickShape ==
  ASSUME Shape, Tick \/ change_config
  PROVE  Shape' /\ BountiesMove
<1>1. /\ now' \in Nat /\ config' \in Config
      /\ UNCHANGED bounties /\ UNCHANGED claims /\ UNCHANGED bonds
      /\ UNCHANGED fees /\ UNCHANGED calls
      /\ UNCHANGED <<held, paid, refunded>>
  BY BountiesAssumption DEF Tick, change_config, tokens, Shape, TypeOK
<1>2. held' \in Nat /\ paid' \in [ClaimKey -> Int]
      /\ refunded' \in [BountyId -> Int]
  BY <1>1 DEF Shape, TypeOK
<1> QED BY <1>1, <1>2, ShapeStep, BountiesStay, ClaimsStay, BondsStay,
           FeesStay, CallsStay

(* The fees taken out of a deposit are natural numbers.                    *)
LEMMA FeeType ==
  ASSUME NEW t \in Terms, NEW cfg \in Config
  PROVE  PlatformFee(t, cfg) \in Nat /\ DaoFee(t, cfg) \in Nat
<1>1. /\ t.deposit \in Nat /\ cfg.platform_pct \in Nat /\ cfg.dao_pct \in Nat
  BY DEF Terms, Config
<1>2. \A x, y, z \in Nat : (x * y) \div (Whole + z) \in Nat
  <2>1. \A x, y \in Nat : x * y \in Nat
    OBVIOUS
  <2>2. \A x, z \in Nat : x \div (Whole + z) \in Nat
    BY DEF Whole
  <2> QED BY <2>1, <2>2
<1>3. PICK d \in Nat : d = IF t.dao THEN cfg.dao_pct ELSE 0
  BY <1>1
<1>4. PlatformFee(t, cfg) \in Nat
  BY <1>1, <1>2, <1>3 DEF PlatformFee
<1>5. DaoFee(t, cfg) \in Nat
  BY <1>1, <1>2 DEF DaoFee
<1> QED BY <1>4, <1>5

(* The bounty that is not there has the type of bounties.                  *)
LEMMA NoBountyType ==
  NoBounty \in Bounty
<1>1. (CHOOSE t \in Offers : TRUE) \in Terms
  BY OffersAssumption
<1> QED BY <1>1 DEF NoBounty, Bounty, BountyStatus

(* So has a new one, when something is left of the deposit after the fees. *)
LEMMA NewBountyType ==
  ASSUME NEW t \in Terms, NEW cfg \in Config,
         NewBounty(t, cfg).amount \in Nat
  PROVE  /\ NewBounty(t, cfg) \in Bounty
         /\ NewBounty(t, cfg).status = "New"
         /\ NewBounty(t, cfg).platform_fee \in Nat
         /\ NewBounty(t, cfg).dao_fee \in Nat
<1>1. PlatformFee(t, cfg) \in Nat /\ DaoFee(t, cfg) \in Nat
  BY FeeType
<1>2. NoBounty \in Bounty /\ "New" \in BountyStatus
  BY NoBountyType DEF BountyStatus
<1>3. NewBounty(t, cfg).amount = t.deposit - PlatformFee(t, cfg) - DaoFee(t, cfg)
  BY Zenon DEF NewBounty, NoBounty
<1>4. NewBounty(t, cfg) \in Bounty /\ NewBounty(t, cfg).status = "New"
  BY <1>1, <1>2, <1>3, Zenon DEF NewBounty, Bounty
<1> QED BY <1>4 DEF Bounty

(* A configuration an administrator sets has its type.                     *)
LEMMA ConfigType ==
  ASSUME Shape
  PROVE  config \in Config /\ now \in Nat
BY DEF Shape, TypeOK

(* internal_create_bounty: the bounty was not there and, by Unborn, no     *)
(* claim was either.                                                       *)
LEMMA AddBountyMoves ==
  ASSUME Shape, NEW id \in BountyId, NEW t \in Offers, AddBounty(id, t)
  PROVE  /\ BountiesMove /\ ClaimsMove /\ BondsTyped' /\ FeesTyped'
         /\ calls' \in Seq(Calls) /\ t.deposit \in Nat
<1> DEFINE b == NewBounty(t, config)
<1>1. t \in Terms /\ config \in Config
  BY OffersAssumption, ConfigType
<1>2. b.amount \in Nat
  <2>1. /\ PlatformFee(t, config) \in Nat /\ DaoFee(t, config) \in Nat
        /\ t.deposit \in Nat
    BY <1>1, FeeType DEF Terms
  <2>2. b.amount = t.deposit - PlatformFee(t, config) - DaoFee(t, config)
    BY Zenon DEF NewBounty, NoBounty
  <2>3. b.amount > 0
    BY DEF AddBounty, ValidTerms
  <2> QED BY <2>1, <2>2, <2>3
<1>3. /\ b \in Bounty /\ b.status = "New"
      /\ b.platform_fee \in Nat /\ b.dao_fee \in Nat
  BY <1>1, <1>2, NewBountyType
<1>4. /\ bounties' = [bounties EXCEPT ![id] = b]
      /\ bounties[id].status = "Absent"
      /\ fees' = [fees EXCEPT !.balance = @ + b.platform_fee,
                             !.locked = @ + b.platform_fee,
                             !.dao_balance = @ + b.dao_fee,
                             !.dao_locked = @ + b.dao_fee]
      /\ UNCHANGED claims /\ UNCHANGED bonds /\ UNCHANGED calls
  BY DEF AddBounty
<1> HIDE DEF b
<1>5. FeesTyped'
  <2>1. /\ fees \in [balance: Nat, locked: Nat, dao_balance: Nat,
                     dao_locked: Nat]
        /\ fees.balance + b.platform_fee \in Nat
        /\ fees.locked + b.platform_fee \in Nat
        /\ fees.dao_balance + b.dao_fee \in Nat
        /\ fees.dao_locked + b.dao_fee \in Nat
    <3>1. fees \in [balance: Nat, locked: Nat, dao_balance: Nat,
                     dao_locked: Nat]
      BY DEF Shape, TypeOK
    <3>2. PICK x \in Nat, y \in Nat : x = b.platform_fee /\ y = b.dao_fee
      BY <1>3
    <3>3. /\ fees.balance + x \in Nat /\ fees.locked + x \in Nat
          /\ fees.dao_balance + y \in Nat /\ fees.dao_locked + y \in Nat
      BY <3>1
    <3> QED BY <3>1, <3>2, <3>3
  <2>2. fees' = [fees EXCEPT !.balance = @ + b.platform_fee,
                             !.locked = @ + b.platform_fee,
                             !.dao_balance = @ + b.dao_fee,
                             !.dao_locked = @ + b.dao_fee]
    BY <1>4
  <2>3. [fees EXCEPT !.balance = @ + b.platform_fee,
                     !.locked = @ + b.platform_fee,
                     !.dao_balance = @ + b.dao_fee,
                     !.dao_locked = @ + b.dao_fee]
          \in [balance: Nat, locked: Nat, dao_balance: Nat, dao_locked: Nat]
    BY <2>1, Zenon
  <2> QED BY <2>2, <2>3, Zenon DEF FeesTyped
<1>6. BountiesMove
  BY <1>3, <1>4 DEF BountiesMove, Later, Shape, TypeOK
<1> QED BY <1>1, <1>4, <1>5, <1>6, ClaimsStay, BondsStay, CallsStay DEF Terms

(* Creating a bounty, with a deposit or without, keeps Shape.              *)
LEMMA CreateShape ==
  ASSUME Shape, NEW id \in BountyId, NEW t \in Offers,
         ft_on_transfer(id, t) \/ bounty_create(id, t)
  PROVE  Shape' /\ BountiesMove
<1>1. AddBounty(id, t)
  BY DEF ft_on_transfer, bounty_create
<1>2. /\ BountiesMove /\ ClaimsMove /\ BondsTyped' /\ FeesTyped'
      /\ calls' \in Seq(Calls) /\ t.deposit \in Nat
  BY <1>1, AddBountyMoves
<1>3. UNCHANGED <<now, config, paid, refunded>>
  BY <1>1 DEF AddBounty
<1>4. held' = held + t.deposit \/ held' = held
  BY DEF ft_on_transfer, bounty_create
<1>5. /\ now' \in Nat /\ config' \in Config /\ held' \in Nat
      /\ paid' \in [ClaimKey -> Int] /\ refunded' \in [BountyId -> Int]
  BY <1>2, <1>3, <1>4, ShapeScalars
<1> QED BY <1>2, <1>5, ShapeStep

(* bounty_cancel keeps Shape.                                              *)
LEMMA CancelShape ==
  ASSUME Shape, NEW id \in BountyId, bounty_cancel(id)
  PROVE  Shape' /\ BountiesMove
<1> DEFINE b == bounties[id]
           call == [kind |-> "refund", id |-> id, amount |-> AmountToOwner(b)]
<1>1. /\ b.status \in {"New", "AwaitingClaims"}
      /\ AmountToOwner(b) \in Nat
      /\ LockedCovers(AmountsToReturn(b))
      /\ UNCHANGED <<now, config, tokens>>
      /\ UNCHANGED claims /\ UNCHANGED bonds
  BY DEF bounty_cancel, Returnable
<1>2. /\ IF AmountToOwner(b) = 0
         THEN /\ CommissionRefundable(AmountsToReturn(b))
              /\ Cancellation(id)
              /\ UNCHANGED calls
         ELSE Send(calls, call) /\ UNCHANGED <<bounties, fees>>
  BY DEF bounty_cancel
<1>3. CASE AmountToOwner(b) # 0
  <2>1. call \in Calls
    BY <1>1 DEF Calls
  <2>2. Send(calls, call) /\ UNCHANGED bounties /\ UNCHANGED fees
    BY <1>2, <1>3
  <2> HIDE DEF call
  <2>3. calls' \in Seq(Calls)
    BY <2>1, <2>2, CallsType, SendType
  <2> QED BY <1>1, <2>2, <2>3, ShapeStill, BountiesStay, ClaimsStay, BondsStay,
             FeesStay
<1>4. CASE AmountToOwner(b) = 0
  <2>1. /\ CommissionRefundable(AmountsToReturn(b))
        /\ Cancellation(id) /\ UNCHANGED calls
    BY <1>2, <1>4
  <2>2. BountiesMove /\ FeesTyped'
    BY <1>1, <2>1, CancellationMoves
  <2> QED BY <1>1, <2>1, <2>2, ShapeStill, ClaimsStay, BondsStay, CallsStay
<1> QED BY <1>3, <1>4

(* start_competition keeps Shape.                                          *)
LEMMA StartShape ==
  ASSUME Shape, NEW id \in BountyId, start_competition(id)
  PROVE  Shape' /\ BountiesMove
<1> DEFINE b == bounties[id]
<1>1. /\ UNCHANGED <<now, config, tokens>>
      /\ UNCHANGED claims /\ UNCHANGED bonds /\ UNCHANGED fees
      /\ UNCHANGED calls
  BY DEF start_competition
<1>2. /\ b \in Bounty /\ now \in Nat \cup {Nil} /\ Nil \in Nat \cup {Nil}
      /\ "ManyClaimed" \in BountyStatus /\ bounties \in [BountyId -> Bounty]
  BY StoredBounty DEF Shape, TypeOK, BountyStatus
<1> DEFINE c == [b EXCEPT !.started_at = now, !.finished_at = Nil,
                          !.status = "ManyClaimed"]
<1>3. c \in Later(b)
  BY <1>2, Zenon DEF Bounty, Later
<1>4. bounties' = [bounties EXCEPT ![id] = c]
  BY <1>2, Zenon DEF start_competition
<1> HIDE DEF c
<1>5. BountiesMove
  BY <1>3, <1>4, BountyMoves
<1> QED BY <1>1, <1>5, ShapeStill, ClaimsStay, BondsStay, FeesStay, CallsStay

(* bounty_update changes neither mode nor slots of the terms.              *)
LEMMA UpdatedTermsType ==
  ASSUME NEW t \in Terms, NEW u \in Update
  PROVE  /\ UpdatedTerms(t, u) \in Terms
         /\ UpdatedTerms(t, u).mode = t.mode
         /\ UpdatedTerms(t, u).slots = t.slots
<1>1. CASE u.field = "approval"
  <2>1. u.approval \in Approvals /\ u.whitelist \in SUBSET Accounts
    BY <1>1 DEF Update
  <2>2. UpdatedTerms(t, u) = [t EXCEPT !.approval = u.approval,
                                       !.whitelist = u.whitelist]
    BY <1>1, Zenon DEF UpdatedTerms
  <2> QED BY <2>1, <2>2, ZenonT(60) DEF Terms
<1>2. CASE u.field = "deadline"
  <2>1. u.deadline_type \in DeadlineTypes /\ u.deadline \in Nat
    BY <1>2 DEF Update
  <2>2. UpdatedTerms(t, u) = [t EXCEPT !.deadline_type = u.deadline_type,
                                       !.deadline = u.deadline]
    BY <1>2, Zenon DEF UpdatedTerms
  <2> QED BY <2>1, <2>2, ZenonT(60) DEF Terms
<1>3. CASE u.field = "reviewers"
  <2>1. u.reviewers \in SUBSET Accounts
    BY <1>3 DEF Update
  <2>2. UpdatedTerms(t, u) = [t EXCEPT !.reviewers = u.reviewers]
    BY <1>3, Zenon DEF UpdatedTerms
  <2> QED BY <2>1, <2>2, ZenonT(60) DEF Terms
<1>4. CASE u.field = "amount"
  BY <1>4 DEF UpdatedTerms
<1> QED BY <1>1, <1>2, <1>3, <1>4 DEF Update

(* bounty_update keeps Shape.                                              *)
LEMMA UpdateShape ==
  ASSUME Shape, NEW id \in BountyId, NEW u \in Updates, bounty_update(id, u)
  PROVE  Shape' /\ BountiesMove
<1> DEFINE b == bounties[id]
           terms == UpdatedTerms(b.terms, u)
<1>1. /\ UNCHANGED <<now, config, tokens>>
      /\ UNCHANGED claims /\ UNCHANGED bonds /\ UNCHANGED fees
      /\ UNCHANGED calls
  BY DEF bounty_update
<1>2. u \in Update /\ b \in Bounty /\ b.terms \in Terms
      /\ bounties \in [BountyId -> Bounty]
  BY BountiesAssumption, StoredBounty DEF Bounty, Shape, TypeOK
<1>3. /\ terms \in Terms /\ terms.mode = b.terms.mode
      /\ terms.slots = b.terms.slots
  BY <1>2, UpdatedTermsType
<1>4. PICK n \in Nat : n = IF u.field = "amount" THEN u.amount ELSE b.amount
  BY <1>2 DEF Update, Bounty
<1>5. bounties' = [bounties EXCEPT ![id].terms = terms, ![id].amount = n]
  BY <1>4, Zenon DEF bounty_update
<1> HIDE DEF terms
<1> DEFINE c == [b EXCEPT !.terms = terms, !.amount = n]
<1>6. c \in Bounty /\ c.terms = terms /\ c.status = b.status
  BY <1>2, <1>3, Zenon DEF Bounty
<1>7. bounties' = [bounties EXCEPT ![id] = c]
  BY <1>2, <1>5, Zenon
<1> HIDE DEF c
<1>8. c \in Later(b)
  BY <1>3, <1>6 DEF Later
<1>9. BountiesMove
  BY <1>7, <1>8, BountyMoves
<1> QED BY <1>1, <1>9, ShapeStill, ClaimsStay, BondsStay, FeesStay, CallsStay

(* bounty_claim keeps Shape.                                               *)
LEMMA ClaimShape ==
  ASSUME Shape, NEW id \in BountyId, NEW who \in Claimants,
         NEW deadline \in Deadlines, NEW slot \in Places \cup {Nil},
         bounty_claim(who, id, deadline, slot)
  PROVE  Shape' /\ BountiesMove
<1> DEFINE k == NextKey(id, who)
           call == [kind |-> "kyc", claim |-> k, place |-> "CreatingClaim",
                    deadline |-> deadline, slot |-> slot, delayed |-> Nil]
<1>1. /\ k \in ClaimKey /\ k[1] = id /\ bounties[id].status # "Absent"
      /\ Mode(id) = "DifferentTasks" => slot \in UsedPlaces(bounties[id])
  BY MayCreateClaimFacts DEF bounty_claim
<1>2. deadline \in Nat \cup {Nil} /\ config.bond \in Nat
  BY BountiesAssumption DEF Shape, TypeOK, Config
<1>3. /\ UNCHANGED <<now, config, tokens>>
      /\ UNCHANGED fees
  BY DEF bounty_claim
<1>4. CASE /\ Send(calls, call)
           /\ bonds' = [bonds EXCEPT !.near = @ + config.bond]
           /\ UNCHANGED <<bounties, claims>>
  <2>1. call \in Calls
    <3> HIDE DEF k
    <3> QED BY <1>1, <1>2 DEF Calls
  <2> HIDE DEF call
  <2>2. calls' \in Seq(Calls)
    BY <1>4, <2>1, CallsType, SendType
  <2>3. UNCHANGED bounties /\ UNCHANGED claims
    BY <1>4
  <2>4. BondsTyped'
    <3>1. /\ bonds.near + config.bond \in Int
          /\ bonds \in BondAccounts
      BY <1>2 DEF Shape, TypeOK, BondAccounts
    <3>2. bonds' = [bonds EXCEPT !.near = @ + config.bond]
      BY <1>4
    <3> QED BY <3>1, <3>2, Zenon DEF BondsTyped, BondAccounts
  <2> QED BY <1>3, <2>2, <2>3, <2>4, ShapeStill, BountiesStay, ClaimsStay,
             FeesStay
<1>5. CASE ProposeOrCreateClaim(calls, k, deadline, slot, config.bond)
  <2> HIDE DEF k
  <2>1. BountiesMove /\ ClaimsMove /\ BondsTyped' /\ calls' \in Seq(Calls)
    BY <1>1, <1>2, <1>5, CallsType, ProposeOrCreateClaimMoves
  <2> QED BY <1>3, <2>1, ShapeStill, FeesStay
<1>6. \/ /\ Send(calls, call)
         /\ bonds' = [bonds EXCEPT !.near = @ + config.bond]
         /\ UNCHANGED <<bounties, claims>>
      \/ ProposeOrCreateClaim(calls, k, deadline, slot, config.bond)
  BY Zenon DEF bounty_claim
<1> QED BY <1>4, <1>5, <1>6

(* bounty_approve_of_several keeps Shape.                                  *)
LEMMA ApproveSeveralShape ==
  ASSUME Shape, NEW id \in BountyId, NEW sender,
         bounty_approve_of_several(sender, id)
  PROVE  Shape' /\ BountiesMove
<1>1. Payout(calls, id, Nil, Nil) /\ UNCHANGED <<now, config, tokens>>
  BY DEF bounty_approve_of_several
<1> QED BY <1>1, CallsType, PayoutMoves, ShapeStill

(* Asking the DAO for the state of a payout proposal stores nothing.       *)
LEMMA AskPayoutProposalMoves ==
  ASSUME Shape, NEW id \in BountyId, NEW k \in ClaimKey \cup {Nil},
         AskPayoutProposal(id, k)
  PROVE  BountiesMove /\ ClaimsMove /\ BondsTyped' /\ calls' \in Seq(Calls)
<1> DEFINE call == [kind |-> "checkPayoutProposal", id |-> id, claim |-> k]
<1>1. /\ Send(calls, call)
      /\ UNCHANGED bounties /\ UNCHANGED claims /\ UNCHANGED bonds
  BY DEF AskPayoutProposal
<1>2. call \in Calls
  BY DEF Calls
<1> HIDE DEF call
<1>3. calls' \in Seq(Calls)
  BY <1>1, <1>2, CallsType, SendType
<1> QED BY <1>1, <1>3, BountiesStay, ClaimsStay, BondsStay

(* bounty_finalize without a claimant, for several tasks, keeps Shape.     *)
LEMMA FinalizeAllShape ==
  ASSUME Shape, NEW id \in BountyId, bounty_finalize_all(id)
  PROVE  Shape' /\ BountiesMove
<1>1. AskPayoutProposal(id, Nil) /\ UNCHANGED <<now, config, tokens>>
      /\ UNCHANGED fees
  BY DEF bounty_finalize_all
<1> QED BY <1>1, AskPayoutProposalMoves, ShapeStill, FeesStay

(* The return of what a proposal took keeps Shape.                         *)
LEMMA ReturnShape ==
  ASSUME Shape, NEW id \in BountyId, return_proposal_bond(id)
  PROVE  Shape' /\ BountiesMove
<1>1. PICK cost : cost = bounties[id].terms.proposal_bond
  OBVIOUS
<1>2. /\ bonds' = [bonds EXCEPT !.near = @ + cost, !.proposals = @ - cost]
      /\ bonds.proposals >= cost
      /\ UNCHANGED <<now, config, tokens>>
      /\ UNCHANGED bounties /\ UNCHANGED claims /\ UNCHANGED fees
      /\ UNCHANGED calls
  BY <1>1 DEF return_proposal_bond
<1>3. cost \in Nat
  <2>1. bounties[id].terms \in Terms
    BY StoredBounty DEF Bounty
  <2> QED BY <1>1, <2>1 DEF Terms
<1>4. /\ bonds \in BondAccounts
      /\ bonds.near + cost \in Int /\ bonds.proposals - cost \in Nat
  BY <1>2, <1>3 DEF Shape, TypeOK, BondAccounts
<1>5. BondsTyped'
  BY <1>2, <1>4, Zenon DEF BondsTyped, BondAccounts
<1> QED BY <1>2, <1>5, ShapeStill, BountiesStay, ClaimsStay, FeesStay, CallsStay

----------------------------------------------------------------------------
(* The slot of a claim on a bounty of several tasks is a place.            *)
LEMMA SlotNamed ==
  ASSUME Shape, NEW k \in ClaimKey, claims[k].status # "Absent",
         Mode(k[1]) = "DifferentTasks"
  PROVE  claims[k].slot \in Places
BY KeyType, StoredBounty, UsedPlacesType DEF Shape, SlotsNamed

(* A claim that is closed where nobody was working on it.                  *)
LEMMA ClaimLeaves ==
  ASSUME Shape, NEW k \in ClaimKey, claims[k].status # "Absent",
         NEW s \in ClaimStatus, CloseClaim(k, s, TRUE),
         \/ UNCHANGED bounties
         \/ bounties' = [bounties EXCEPT ![k[1]] = Left(bounties[k[1]], k)]
  PROVE  BountiesMove /\ ClaimsMove /\ BondsTyped'
<1>1. k[1] \in BountyId /\ bounties[k[1]] \in Bounty
  BY KeyType, StoredBounty
<1>2. Left(bounties[k[1]], k) \in Later(bounties[k[1]])
  BY <1>1, LeftLater
<1>3. BountiesMove
  BY <1>1, <1>2, BountiesStay, BountyMoves
<1> QED BY <1>3, CloseClaimMoves DEF BondsTyped

(* internal_claim_done: by SlotsNamed the subtask that is marked as        *)
(* completed is one of the places.                                         *)
LEMMA ClaimDoneMoves ==
  ASSUME Shape, NEW k \in ClaimKey, NEW proposal \in BOOLEAN,
         ClaimDone(k, proposal)
  PROVE  BountiesMove /\ ClaimsMove
<1> DEFINE b == bounties[k[1]]
<1>1. /\ k[1] \in BountyId /\ b \in Bounty
      /\ bounties \in [BountyId -> Bounty]
      /\ claims[k] \in Held(k) /\ claims[k] \in Claim
      /\ claims \in [ClaimKey -> Claim]
      /\ claims[k].status # "Absent"
  BY KeyType, StoredBounty, StoredClaim DEF ClaimDone, Shape, TypeOK
<1>2. PICK p \in BOOLEAN :
        p = IF b.terms.mode = "DifferentTasks" THEN claims[k].payout_proposal
            ELSE proposal
  BY <1>1 DEF Claim
<1> DEFINE c == [claims[k] EXCEPT !.status = "Completed", !.payout_proposal = p]
<1>3. c \in Held(k)
  <2>1. "Completed" \in ClaimStatus
    BY DEF ClaimStatus
  <2> QED BY <1>1, <2>1, Zenon DEF Held, Claim
<1>4. claims' = [claims EXCEPT ![k] = c]
  BY <1>1, <1>2, Zenon DEF ClaimDone
<1>5. ClaimsMove
  <2> HIDE DEF c
  <2> QED BY <1>3, <1>4, ClaimMoves
<1>6. CASE b.terms.mode = "DifferentTasks"
  <2>1. claims[k].slot \in Places
    BY <1>1, <1>6, SlotNamed DEF Mode
  <2>2. PICK d \in SUBSET Places, q \in BOOLEAN :
          d = b.completed \cup {claims[k].slot} /\ q = (b.proposal_id \/ proposal)
    <3>1. b.completed \cup {claims[k].slot} \in SUBSET Places
      BY <1>1, <2>1 DEF Bounty
    <3>2. (b.proposal_id \/ proposal) \in BOOLEAN
      OBVIOUS
    <3> QED BY <3>1, <3>2
  <2> DEFINE e == [b EXCEPT !.completed = d, !.proposal_id = q]
  <2>3. e \in Later(b)
    BY <1>1, Zenon DEF Bounty, Later
  <2>4. bounties' = [bounties EXCEPT ![k[1]] = e]
    BY <1>1, <1>6, <2>2, Zenon DEF ClaimDone
  <2> HIDE DEF e
  <2> QED BY <1>1, <1>5, <2>3, <2>4, BountyMoves
<1>7. CASE b.terms.mode # "DifferentTasks"
  <2>1. UNCHANGED bounties
    BY <1>7 DEF ClaimDone
  <2> QED BY <1>5, <2>1, BountiesStay
<1> QED BY <1>6, <1>7

(* internal_add_proposal_and_update_claim: the DAO is asked or the work is *)
(* done.                                                                   *)
LEMMA ProposeOrFinishMoves ==
  ASSUME Shape, NEW q \in Seq(Calls), NEW k \in ClaimKey,
         ProposeOrFinish(q, k)
  PROVE  /\ BountiesMove /\ ClaimsMove /\ BondsTyped'
         /\ calls' \in Seq(Calls)
<1> DEFINE call == [kind |-> "addPayoutProposal", claim |-> k]
<1>1. CASE Propose(q, call, 0) /\ UNCHANGED <<bounties, claims>>
  <2>1. call \in Calls /\ call.claim = k
    BY DEF Calls
  <2>2. UNCHANGED bounties /\ UNCHANGED claims
    BY <1>1
  <2> HIDE DEF call
  <2> QED BY <1>1, <2>1, <2>2, ProposeMoves, BountiesStay, ClaimsStay
<1>2. CASE ClaimDone(k, FALSE) /\ calls' = q /\ UNCHANGED bonds
  BY <1>2, ClaimDoneMoves, BondsStay
<1> QED BY <1>1, <1>2, Zenon DEF ProposeOrFinish

(* bounty_done keeps Shape.                                                *)
LEMMA DoneShape ==
  ASSUME Shape, NEW k \in ClaimKey, bounty_done(k)
  PROVE  Shape' /\ BountiesMove
<1> DEFINE call == [kind |-> "kyc", claim |-> k, place |-> "ClaimDone",
                    deadline |-> Nil, slot |-> Nil, delayed |-> Nil]
<1>1. /\ UNCHANGED <<now, config, tokens>>
      /\ UNCHANGED fees
      /\ claims[k].status # "Absent"
  BY DEF bounty_done
<1>2. CASE ResetBounty(k, "Expired", FALSE) /\ UNCHANGED calls
  <2>1. BountiesMove /\ ClaimsMove /\ BondsTyped'
    BY <1>1, <1>2, BountyClosed DEF ClaimStatus, BondsTyped
  <2> QED BY <1>1, <1>2, <2>1, ShapeStill, FeesStay, CallsStay
<1>3. CASE /\ bounties' = [bounties EXCEPT ![k[1]] = Left(@, k)]
           /\ CloseClaim(k, "NotCompleted", TRUE)
           /\ UNCHANGED calls
  <2>1. BountiesMove /\ ClaimsMove /\ BondsTyped'
    BY <1>1, <1>3, ClaimLeaves DEF ClaimStatus
  <2> QED BY <1>1, <1>3, <2>1, ShapeStill, FeesStay, CallsStay
<1>4. CASE Send(calls, call) /\ UNCHANGED <<bounties, claims, bonds>>
  <2>1. call \in Calls
    BY DEF Calls
  <2> HIDE DEF call
  <2>2. calls' \in Seq(Calls)
    BY <1>4, <2>1, CallsType, SendType
  <2>3. UNCHANGED bounties /\ UNCHANGED claims /\ UNCHANGED bonds
    BY <1>4
  <2> QED BY <1>1, <2>2, <2>3, ShapeStill, BountiesStay, ClaimsStay, BondsStay,
             FeesStay
<1>5. CASE ProposeOrFinish(calls, k)
  <2>1. BountiesMove /\ ClaimsMove /\ BondsTyped' /\ calls' \in Seq(Calls)
    BY <1>5, CallsType, ProposeOrFinishMoves
  <2> QED BY <1>1, <2>1, ShapeStill, FeesStay
<1> QED BY <1>2, <1>3, <1>4, <1>5 DEF bounty_done

(* bounty_give_up keeps Shape.                                             *)
LEMMA GiveUpShape ==
  ASSUME Shape, NEW k \in ClaimKey, bounty_give_up(k)
  PROVE  Shape' /\ BountiesMove
<1> DEFINE cheap == now - StartTime(claims[k], bounties[k[1]])
                      <= config.forgiveness
<1>1. /\ UNCHANGED <<now, config, tokens>>
      /\ UNCHANGED fees /\ UNCHANGED calls
      /\ claims[k].status # "Absent"
  BY DEF bounty_give_up
<1>2. CASE ResetBounty(k, "Canceled", cheap)
  <2> HIDE DEF cheap
  <2>1. BountiesMove /\ ClaimsMove /\ BondsTyped'
    BY <1>1, <1>2, BountyClosed DEF ClaimStatus, BondsTyped
  <2> QED BY <1>1, <2>1, ShapeStill, FeesStay, CallsStay
<1>3. CASE /\ bounties' = IF claims[k].status = "New" THEN bounties
                         ELSE [bounties EXCEPT ![k[1]] = Left(@, k)]
           /\ CloseClaim(k, "Canceled", TRUE)
  <2>1. BountiesMove /\ ClaimsMove /\ BondsTyped'
    BY <1>1, <1>3, ClaimLeaves DEF ClaimStatus
  <2> QED BY <1>1, <2>1, ShapeStill, FeesStay, CallsStay
<1> QED BY <1>2, <1>3, Zenon DEF bounty_give_up

(* withdraw keeps Shape.                                                   *)
LEMMA WithdrawShape ==
  ASSUME Shape, NEW k \in ClaimKey, withdraw(k)
  PROVE  Shape' /\ BountiesMove
<1> DEFINE slot == claims[k].slot
           call == [kind |-> "withdraw", claim |-> k, slot |-> slot,
                    amount |-> PartialAmount(k, slot)]
<1>1. /\ UNCHANGED <<now, config, tokens>>
      /\ UNCHANGED fees
      /\ claims[k].status # "Absent" /\ Mode(k[1]) = "DifferentTasks"
  BY DEF withdraw, Mode
<1>2. slot \in Places
  BY <1>1, SlotNamed
<1>3. CASE SlotFinalize(k, slot) /\ UNCHANGED calls
  <2>1. BountiesMove /\ ClaimsMove /\ BondsTyped'
    BY <1>1, <1>3, SlotFinalizeMoves
  <2> QED BY <1>1, <1>3, <2>1, ShapeStill, FeesStay, CallsStay
<1>4. CASE /\ PartialAmount(k, slot) \in Nat
           /\ Send(calls, call)
           /\ UNCHANGED <<bounties, claims, bonds>>
  <2>1. call \in Calls
    <3> HIDE DEF slot
    <3> QED BY <1>2, <1>4 DEF Calls
  <2> HIDE DEF call
  <2>2. calls' \in Seq(Calls)
    BY <1>4, <2>1, CallsType, SendType
  <2>3. UNCHANGED bounties /\ UNCHANGED claims /\ UNCHANGED bonds
    BY <1>4
  <2> QED BY <1>1, <2>2, <2>3, ShapeStill, BountiesStay, ClaimsStay, BondsStay,
             FeesStay
<1> QED BY <1>3, <1>4, Zenon DEF withdraw

(* open_dispute keeps Shape.                                               *)
LEMMA OpenDisputeShape ==
  ASSUME Shape, NEW k \in ClaimKey, open_dispute(k)
  PROVE  Shape' /\ BountiesMove
<1> DEFINE call == [kind |-> "createDispute", claim |-> k]
<1>1. /\ UNCHANGED <<now, config, tokens>>
      /\ UNCHANGED fees /\ UNCHANGED bounties /\ UNCHANGED claims
      /\ UNCHANGED bonds /\ Send(calls, call)
  BY DEF open_dispute
<1>2. call \in Calls
  BY DEF Calls
<1> HIDE DEF call
<1>3. calls' \in Seq(Calls)
  BY <1>1, <1>2, CallsType, SendType
<1> QED BY <1>1, <1>3, ShapeStill, BountiesStay, ClaimsStay, BondsStay, FeesStay

(* dispute_result keeps Shape.                                             *)
LEMMA DisputeResultShape ==
  ASSUME Shape, NEW k \in ClaimKey, NEW success, dispute_result(k, success)
  PROVE  Shape' /\ BountiesMove
<1>1. /\ UNCHANGED <<now, config, tokens>>
      /\ claims[k].status # "Absent" /\ SettleDispute(calls, k, success)
  BY DEF dispute_result
<1> QED BY <1>1, CallsType, SettleDisputeMoves, ShapeStill

(* extend_claim_deadline keeps Shape.                                      *)
LEMMA ExtendShape ==
  ASSUME Shape, NEW k \in ClaimKey, NEW deadline \in Deadlines,
         extend_claim_deadline(k, deadline)
  PROVE  Shape' /\ BountiesMove
<1> DEFINE c == [claims[k] EXCEPT !.deadline = deadline]
<1>1. /\ UNCHANGED <<now, config, tokens>>
      /\ UNCHANGED fees /\ UNCHANGED bounties /\ UNCHANGED calls
      /\ UNCHANGED bonds /\ claims' = [claims EXCEPT ![k] = c]
  BY DEF extend_claim_deadline
<1>2. claims[k] \in Held(k) /\ deadline \in Nat \cup {Nil}
  BY StoredClaim, BountiesAssumption
<1>3. c \in Held(k)
  BY <1>2, Zenon DEF Held, Claim
<1> HIDE DEF c
<1> QED BY <1>1, <1>3, ClaimMoves, ShapeStill, BountiesStay, BondsStay, FeesStay,
           CallsStay

(* Noting a payment in a claim leaves its slot alone.                      *)
LEMMA PaymentNoted ==
  ASSUME Shape, NEW k \in ClaimKey
  PROVE  /\ [claims[k] EXCEPT !.payment_at = TRUE] \in Held(k)
         /\ [claims[k] EXCEPT !.payment_confirmed_at = TRUE] \in Held(k)
<1>1. claims[k] \in Held(k) /\ TRUE \in BOOLEAN
  BY StoredClaim
<1> QED BY <1>1, Zenon DEF Held, Claim

(* mark_as_paid keeps Shape.                                               *)
LEMMA MarkShape ==
  ASSUME Shape, NEW k \in ClaimKey, NEW place \in UsedPlaces(bounties[k[1]]),
         mark_as_paid(k, place)
  PROVE  Shape' /\ BountiesMove
<1> DEFINE b == bounties[k[1]]
<1>1. /\ UNCHANGED <<now, config, tokens>>
      /\ UNCHANGED fees /\ UNCHANGED calls /\ UNCHANGED bonds
  BY DEF mark_as_paid
<1>2. k[1] \in BountyId /\ b \in Bounty /\ place \in Places
  BY KeyType, StoredBounty, UsedPlacesType
<1>3. ClaimsMove
  <2>1. UNCHANGED claims \/ claims' = [claims EXCEPT ![k].payment_at = TRUE]
    BY DEF mark_as_paid
  <2> QED BY <2>1, PaymentNoted, ClaimsStay, ClaimMoves
<1>4. BountiesMove
  <2>1. CASE b.terms.mode = "None"
    <3>1. bounties' = [bounties EXCEPT ![k[1]] = [b EXCEPT !.payment_at = TRUE]]
      BY <2>1 DEF mark_as_paid
    <3>2. [b EXCEPT !.payment_at = TRUE] \in Later(b)
      BY <1>2 DEF Bounty, Later
    <3> QED BY <1>2, <3>1, <3>2, BountyMoves
  <2>2. CASE b.terms.mode = "Contest"
    <3>1. PICK w \in [Places -> ClaimKey \cup {Nil}] :
            w = [b.winners EXCEPT ![place] = k]
      BY <1>2 DEF Bounty
    <3>2. [b EXCEPT !.winners = w] \in Later(b)
      BY <1>2 DEF Bounty, Later
    <3>3. bounties' = [bounties EXCEPT ![k[1]] = [b EXCEPT !.winners = w]]
      BY <2>2, <3>1 DEF mark_as_paid
    <3> QED BY <1>2, <3>2, <3>3, BountyMoves
  <2>3. CASE b.terms.mode \notin {"None", "Contest"}
    <3>1. UNCHANGED bounties
      BY <2>3 DEF mark_as_paid
    <3> QED BY <3>1, BountiesStay
  <2> QED BY <2>1, <2>2, <2>3
<1> QED BY <1>1, <1>3, <1>4, ShapeStill, BondsStay, FeesStay, CallsStay

(* confirm_payment keeps Shape; by SlotsNamed the confirmed subtask is one *)
(* of the places.                                                          *)
LEMMA ConfirmShape ==
  ASSUME Shape, NEW k \in ClaimKey, confirm_payment(k)
  PROVE  Shape' /\ BountiesMove
<1> DEFINE b == bounties[k[1]]
<1>1. /\ UNCHANGED <<now, config, tokens>>
      /\ UNCHANGED fees /\ UNCHANGED calls /\ UNCHANGED bonds
      /\ claims[k].status # "Absent"
  BY DEF confirm_payment, Payable
<1>2. k[1] \in BountyId /\ b \in Bounty
  BY KeyType, StoredBounty
<1>3. ClaimsMove
  <2>1. \/ UNCHANGED claims
        \/ claims' = [claims EXCEPT ![k].payment_confirmed_at = TRUE]
    BY DEF confirm_payment
  <2> QED BY <2>1, PaymentNoted, ClaimsStay, ClaimMoves
<1>4. BountiesMove
  <2>1. CASE b.terms.mode = "None"
    <3>1. bounties' = [bounties EXCEPT ![k[1]] =
                         [b EXCEPT !.payment_confirmed_at = TRUE]]
      BY <2>1 DEF confirm_payment
    <3>2. [b EXCEPT !.payment_confirmed_at = TRUE] \in Later(b)
      BY <1>2 DEF Bounty, Later
    <3> QED BY <1>2, <3>1, <3>2, BountyMoves
  <2>2. CASE b.terms.mode = "DifferentTasks"
    <3>1. claims[k].slot \in Places
      BY <1>1, <2>2, SlotNamed DEF Mode
    <3>2. PICK d \in SUBSET Places : d = b.confirmed \cup {claims[k].slot}
      BY <1>2, <3>1 DEF Bounty
    <3>3. [b EXCEPT !.confirmed = d] \in Later(b)
      BY <1>2 DEF Bounty, Later
    <3>4. bounties' = [bounties EXCEPT ![k[1]] = [b EXCEPT !.confirmed = d]]
      BY <2>2, <3>2 DEF confirm_payment
    <3> QED BY <1>2, <3>3, <3>4, BountyMoves
  <2>3. CASE b.terms.mode \notin {"None", "DifferentTasks"}
    <3>1. UNCHANGED bounties
      BY <2>3 DEF confirm_payment
    <3> QED BY <3>1, BountiesStay
  <2> QED BY <2>1, <2>2, <2>3
<1> QED BY <1>1, <1>3, <1>4, ShapeStill, BondsStay, FeesStay, CallsStay

(* A step that only sends a promise.                                       *)
LEMMA SentMoves ==
  ASSUME Shape, NEW call \in Calls, Send(calls, call),
         UNCHANGED <<bounties, claims, bonds>>
  PROVE  BountiesMove /\ ClaimsMove /\ BondsTyped' /\ calls' \in Seq(Calls)
<1>1. UNCHANGED bounties /\ UNCHANGED claims /\ UNCHANGED bonds
  OBVIOUS
<1> QED BY <1>1, CallsType, SendType, BountiesStay, ClaimsStay, BondsStay

(* bounty_finalize for one claim keeps Shape.                              *)
LEMMA FinalizeShape ==
  ASSUME Shape, NEW k \in ClaimKey, bounty_finalize(k)
  PROVE  Shape' /\ BountiesMove
<1>1. UNCHANGED <<now, config, tokens>> /\ UNCHANGED fees
      /\ k[1] \in BountyId
  BY KeyType DEF bounty_finalize
<1>2. BountiesMove /\ ClaimsMove /\ BondsTyped' /\ calls' \in Seq(Calls)
  <2>1. ASSUME NEW s \in ClaimStatus, NEW returned, claims[k].status # "Absent",
               ResetBounty(k, s, returned), UNCHANGED calls
        PROVE  BountiesMove /\ ClaimsMove /\ BondsTyped' /\ calls' \in Seq(Calls)
    BY <2>1, BountyClosed, CallsStay DEF BondsTyped
  <2>2. CASE FinalizeActive(k)
    <3>1. CASE Overdue(k) /\ ResetBounty(k, "Expired", FALSE) /\ UNCHANGED calls
      BY <2>1, <3>1 DEF Overdue, ClaimStatus
    <3>2. CASE AskPayoutProposal(k[1],
                 IF bounties[k[1]].terms.mode = "DifferentTasks" THEN Nil ELSE k)
      <4>1. PICK j \in ClaimKey \cup {Nil} : AskPayoutProposal(k[1], j)
        BY <3>2, Zenon
      <4> QED BY <1>1, <4>1, AskPayoutProposalMoves
    <3>3. CASE /\ claims[k].status = "Rejected"
               /\ ResetBounty(k, "NotCompleted", TRUE) /\ UNCHANGED calls
      BY <2>1, <3>3 DEF ClaimStatus
    <3>4. CASE /\ Send(calls, [kind |-> "getDispute", claim |-> k])
               /\ UNCHANGED <<bounties, claims, bonds>>
      <4>1. [kind |-> "getDispute", claim |-> k] \in Calls
        BY DEF Calls
      <4> QED BY <3>4, <4>1, SentMoves
    <3> QED BY <2>2, <3>1, <3>2, <3>3, <3>4, Zenon DEF FinalizeActive
  <2>3. CASE FinalizeInactive(k)
    <3>1. CASE /\ Send(calls, [kind |-> "checkClaimantProposal", claim |-> k])
               /\ UNCHANGED <<bounties, claims, bonds>>
      <4>1. [kind |-> "checkClaimantProposal", claim |-> k] \in Calls
        BY DEF Calls
      <4> QED BY <3>1, <4>1, SentMoves
    <3>2. ASSUME NEW s \in ClaimStatus, claims[k].status # "Absent",
                 CloseClaim(k, s, TRUE), UNCHANGED calls,
                 \/ UNCHANGED bounties
                 \/ bounties' = [bounties EXCEPT
                                   ![k[1]] = Left(bounties[k[1]], k)]
          PROVE  BountiesMove /\ ClaimsMove /\ BondsTyped'
                 /\ calls' \in Seq(Calls)
      BY <3>2, ClaimLeaves, CallsStay
    <3>3. CASE /\ claims[k].status = "New"
               /\ CloseClaim(k, "Canceled", TRUE)
               /\ UNCHANGED <<bounties, calls>>
      BY <3>2, <3>3 DEF ClaimStatus
    <3>4. CASE /\ claims[k].status \in {"Competes", "Completed", "ReadyToStart"}
               /\ bounties' = [bounties EXCEPT ![k[1]] = Left(@, k)]
               /\ CloseClaim(k, IF bounties[k[1]].status = "Canceled"
                                THEN "Canceled" ELSE "NotCompleted", TRUE)
               /\ UNCHANGED calls
      <4>1. PICK s \in ClaimStatus : CloseClaim(k, s, TRUE)
        BY <3>4, Zenon DEF ClaimStatus
      <4> QED BY <3>2, <3>4, <4>1
    <3> QED BY <2>3, <3>1, <3>3, <3>4 DEF FinalizeInactive
  <2> QED BY <2>2, <2>3 DEF bounty_finalize
<1> QED BY <1>1, <1>2, ShapeStill, FeesStay

(* check_if_allowed_to_approve_claim_by_status: bounty and claim are       *)
(* there.                                                                  *)
LEMMA MayDecideFacts ==
  ASSUME Shape, NEW k \in ClaimKey, MayDecide(k)
  PROVE  /\ claims[k].status # "Absent" /\ bounties[k[1]].status # "Absent"
         /\ claims[k] \in Claim
BY StoredClaim DEF MayDecide, OpenStatuses

(* accept_claimant keeps Shape.                                            *)
LEMMA AcceptShape ==
  ASSUME Shape, NEW k \in ClaimKey, NEW sender,
         NEW delayed \in Deferments \cup {Nil},
         accept_claimant(sender, k, delayed)
  PROVE  Shape' /\ BountiesMove
<1> DEFINE call == [kind |-> "kyc", claim |-> k, place |-> "DecisionOnClaim",
                    deadline |-> Nil, slot |-> Nil, delayed |-> Nil]
<1>1. /\ UNCHANGED <<now, config, tokens>> /\ UNCHANGED fees
      /\ UNCHANGED bonds /\ MayDecide(k)
  BY DEF accept_claimant
<1>2. CASE Send(calls, call) /\ UNCHANGED <<bounties, claims>>
  <2>1. call \in Calls
    BY DEF Calls
  <2> HIDE DEF call
  <2>2. BountiesMove /\ ClaimsMove /\ BondsTyped' /\ calls' \in Seq(Calls)
    BY <1>1, <1>2, <2>1, SentMoves
  <2> QED BY <1>1, <2>2, ShapeStill, FeesStay
<1>3. CASE ApproveClaimant(k, claims[k], delayed) /\ UNCHANGED calls
  <2>1. BountiesMove /\ ClaimsMove
    BY <1>1, <1>3, MayDecideFacts, ApproveClaimantMoves
  <2> QED BY <1>1, <1>3, <2>1, ShapeStill, BondsStay, FeesStay, CallsStay
<1> QED BY <1>2, <1>3, Zenon DEF accept_claimant

(* internal_rejection_and_save_claim: the claim is closed, its bond        *)
(* returned.                                                               *)
LEMMA DeclineMoves ==
  ASSUME Shape, NEW k \in ClaimKey, DeclineClaimant(k)
  PROVE  BountiesMove /\ ClaimsMove /\ BondsTyped'
<1>1. /\ MayDecide(k) /\ CloseClaim(k, "NotHired", TRUE)
      /\ UNCHANGED bounties
  BY DEF DeclineClaimant
<1> QED BY <1>1, MayDecideFacts, ClaimLeaves DEF ClaimStatus

(* decline_claimant, bounty_approve and bounty_reject keep Shape.          *)
LEMMA DecisionShape ==
  ASSUME Shape, NEW k \in ClaimKey, NEW sender, NEW place \in Places \cup {Nil},
         \/ decline_claimant(sender, k)
         \/ bounty_approve(sender, k, place)
         \/ bounty_reject(sender, k)
  PROVE  Shape' /\ BountiesMove
<1>1. CASE decline_claimant(sender, k)
  <2>1. /\ UNCHANGED <<now, config, tokens>> /\ UNCHANGED fees
        /\ UNCHANGED calls /\ DeclineClaimant(k)
    BY <1>1 DEF decline_claimant
  <2> QED BY <2>1, DeclineMoves, ShapeStill, FeesStay, CallsStay
<1>2. CASE bounty_approve(sender, k, place)
  <2>1. UNCHANGED <<now, config, tokens>> /\ Payout(calls, k[1], k, place)
    BY <1>2 DEF bounty_approve
  <2> QED BY <2>1, KeyType, CallsType, PayoutMoves, ShapeStill
<1>3. CASE bounty_reject(sender, k)
  <2>1. /\ UNCHANGED <<now, config, tokens>> /\ UNCHANGED fees
        /\ UNCHANGED calls /\ RejectClaim(k) /\ claims[k].status # "Absent"
    BY <1>3 DEF bounty_reject, MayReject
  <2> QED BY <2>1, RejectClaimMoves, ShapeStill, FeesStay, CallsStay
<1> QED BY <1>1, <1>2, <1>3

----------------------------------------------------------------------------
(* What each kind of promise carries for its callback.                     *)
LEMMA CallFacts ==
  ASSUME NEW c \in Calls
  PROVE  /\ c.kind = "payout" =>
              /\ c.id \in BountyId /\ c.claim \in ClaimKey \cup {Nil}
              /\ c.amounts \in Amounts /\ c.place \in Places \cup {Nil}
         /\ c.kind = "withdraw" =>
              c.claim \in ClaimKey /\ c.slot \in Places /\ c.amount \in Int
         /\ c.kind = "refund" => c.id \in BountyId /\ c.amount \in Int
         /\ c.kind = "fees" => c.amount \in Int
         /\ c.kind = "kyc" =>
              /\ c.claim \in ClaimKey /\ c.deadline \in Nat \cup {Nil}
              /\ c.slot \in Places \cup {Nil}
              /\ c.delayed \in Deferments \cup {Nil}
         /\ c.kind = "addClaimantProposal" =>
              /\ c.claim \in ClaimKey /\ c.deadline \in Nat \cup {Nil}
              /\ c.slot \in Places \cup {Nil}
         /\ c.kind \in {"addPayoutProposal", "checkClaimantProposal",
                        "createDispute", "getDispute"} => c.claim \in ClaimKey
         /\ c.kind = "checkPayoutProposal" =>
              c.id \in BountyId /\ c.claim \in ClaimKey \cup {Nil}
BY DEF Calls

(* The promises that are left when one is answered.                        *)
LEMMA AnsweredType ==
  ASSUME Shape, NEW i \in 1 .. Len(calls)
  PROVE  Answered(i) \in Seq(Calls) /\ calls[i] \in Calls
<1>1. calls \in Seq(Calls)
  BY CallsType
<1> QED BY <1>1, RemoveAtType DEF Answered

(* A callback that fails keeps Shape.                                      *)
LEMMA DropShape ==
  ASSUME Shape, NEW i \in 1 .. Len(calls), Drop(i)
  PROVE  Shape' /\ BountiesMove
<1>1. /\ UNCHANGED <<now, config, tokens>> /\ UNCHANGED bounties
      /\ UNCHANGED claims /\ UNCHANGED bonds /\ UNCHANGED fees
      /\ calls' = Answered(i)
  BY DEF Drop, tokens
<1> QED BY <1>1, AnsweredType, ShapeStill, BountiesStay, ClaimsStay, BondsStay,
           FeesStay

(* after_ft_transfer keeps Shape, whatever happened to the claim while the *)
(* transfer was out.                                                       *)
LEMMA PayoutAnswerShape ==
  ASSUME Shape, NEW i \in 1 .. Len(calls), after_ft_transfer(i)
  PROVE  Shape' /\ BountiesMove
<1> DEFINE call == calls[i]
<1>1. /\ call.id \in BountyId /\ call.claim \in ClaimKey \cup {Nil}
      /\ call.amounts \in Amounts /\ call.place \in Places \cup {Nil}
      /\ Answered(i) \in Seq(Calls)
  BY AnsweredType, CallFacts DEF after_ft_transfer
<1>2. /\ Transferred(call.amounts.pay)
      /\ paid' = [paid EXCEPT ![call.claim] = @ + call.amounts.pay]
      /\ calls' = Answered(i) /\ UNCHANGED <<now, config, refunded>>
  BY DEF after_ft_transfer
<1>3. call.amounts.pay \in Int
  BY <1>1 DEF Amounts
<1>4. /\ now' \in Nat /\ config' \in Config /\ held' \in Nat
      /\ refunded' \in [BountyId -> Int]
  BY <1>2, <1>3 DEF Transferred, Shape, TypeOK
<1>5. paid' \in [ClaimKey -> Int]
  <2>1. paid \in [ClaimKey -> Int]
    BY DEF Shape, TypeOK
  <2>2. PICK x : x = paid[call.claim] + call.amounts.pay
    OBVIOUS
  <2>3. call.claim \in ClaimKey => x \in Int
    BY <1>3, <2>1, <2>2
  <2>4. paid' = [paid EXCEPT ![call.claim] = x]
    BY <1>2, <2>2, Zenon
  <2> HIDE DEF call
  <2> QED BY <2>1, <2>3, <2>4
<1>6. CASE /\ MayComplete(call.id, call.claim, call.amounts, call.place)
           /\ Complete(call.id, call.claim, call.amounts, call.place)
  <2> HIDE DEF call
  <2>1. BountiesMove /\ ClaimsMove /\ BondsTyped' /\ FeesTyped'
    BY <1>1, <1>6, CompleteMoves
  <2> QED BY <1>1, <1>2, <1>4, <1>5, <2>1, ShapeStep
<1>7. CASE UNCHANGED <<bounties, claims, bonds, fees>>
  <2>1. UNCHANGED bounties /\ UNCHANGED claims /\ UNCHANGED bonds
        /\ UNCHANGED fees
    BY <1>7
  <2>2. BountiesMove /\ ClaimsMove /\ BondsTyped' /\ FeesTyped'
    BY <2>1, BountiesStay, ClaimsStay, BondsStay, FeesStay
  <2> QED BY <1>1, <1>2, <1>4, <1>5, <2>2, ShapeStep
<1> QED BY <1>6, <1>7, Zenon DEF after_ft_transfer

(* after_bounty_withdraw keeps Shape.                                      *)
LEMMA WithdrawAnswerShape ==
  ASSUME Shape, NEW i \in 1 .. Len(calls), after_bounty_withdraw(i)
  PROVE  Shape' /\ BountiesMove
<1> DEFINE call == calls[i]
<1>1. /\ call.claim \in ClaimKey /\ call.slot \in Places
      /\ call.amount \in Int /\ Answered(i) \in Seq(Calls)
  BY AnsweredType, CallFacts DEF after_bounty_withdraw
<1>2. /\ Transferred(call.amount)
      /\ paid' = [paid EXCEPT ![call.claim] = @ + call.amount]
      /\ calls' = Answered(i) /\ UNCHANGED <<now, config, refunded>>
      /\ UNCHANGED fees
  BY DEF after_bounty_withdraw
<1>3. /\ now' \in Nat /\ config' \in Config /\ held' \in Nat
      /\ refunded' \in [BountyId -> Int] /\ calls' \in Seq(Calls)
  BY <1>1, <1>2, ShapeScalars DEF Transferred
<1>4. paid' \in [ClaimKey -> Int]
  <2>1. paid \in [ClaimKey -> Int]
    BY DEF Shape, TypeOK
  <2> HIDE DEF call
  <2> QED BY <1>1, <1>2, <2>1
<1>5. FeesTyped'
  BY <1>2, FeesStay
<1>6. CASE /\ claims[call.claim].status \in {"Completed", "CompletedWithDispute"}
           /\ SlotFinalize(call.claim, call.slot)
  <2> HIDE DEF call
  <2>1. BountiesMove /\ ClaimsMove /\ BondsTyped'
    BY <1>1, <1>6, SlotFinalizeMoves
  <2> QED BY <1>3, <1>4, <1>5, <2>1, ShapeStep
<1>7. CASE UNCHANGED <<bounties, claims, bonds>>
  <2>1. UNCHANGED bounties /\ UNCHANGED claims /\ UNCHANGED bonds
    BY <1>7
  <2>2. BountiesMove /\ ClaimsMove /\ BondsTyped'
    BY <2>1, BountiesStay, ClaimsStay, BondsStay
  <2> QED BY <1>3, <1>4, <1>5, <2>2, ShapeStep
<1> QED BY <1>6, <1>7, Zenon DEF after_bounty_withdraw

(* after_refund_bounty_amount keeps Shape.                                 *)
LEMMA RefundAnswerShape ==
  ASSUME Shape, NEW i \in 1 .. Len(calls), after_refund_bounty_amount(i)
  PROVE  Shape' /\ BountiesMove
<1> DEFINE call == calls[i]
<1>1. /\ call.id \in BountyId /\ call.amount \in Int
      /\ Answered(i) \in Seq(Calls)
  BY AnsweredType, CallFacts DEF after_refund_bounty_amount
<1>2. /\ Transferred(call.amount)
      /\ refunded' = [refunded EXCEPT ![call.id] = @ + call.amount]
      /\ calls' = Answered(i) /\ UNCHANGED <<now, config, paid>>
      /\ UNCHANGED claims /\ UNCHANGED bonds
  BY DEF after_refund_bounty_amount
<1>3. /\ now' \in Nat /\ config' \in Config /\ held' \in Nat
      /\ paid' \in [ClaimKey -> Int] /\ calls' \in Seq(Calls)
  BY <1>1, <1>2, ShapeScalars DEF Transferred
<1>4. refunded' \in [BountyId -> Int]
  <2>1. refunded \in [BountyId -> Int]
    BY DEF Shape, TypeOK
  <2> HIDE DEF call
  <2> QED BY <1>1, <1>2, <2>1
<1>5. ClaimsMove /\ BondsTyped'
  BY <1>2, ClaimsStay, BondsStay
<1>6. CASE /\ CommissionRefundable(AmountsToReturn(bounties[call.id]))
           /\ Cancellation(call.id)
  <2> HIDE DEF call
  <2>1. BountiesMove /\ FeesTyped'
    BY <1>1, <1>6, CancellationMoves
  <2> QED BY <1>3, <1>4, <1>5, <2>1, ShapeStep
<1>7. CASE UNCHANGED <<bounties, fees>>
  <2>1. UNCHANGED bounties /\ UNCHANGED fees
    BY <1>7
  <2>2. BountiesMove /\ FeesTyped'
    BY <2>1, BountiesStay, FeesStay
  <2> QED BY <1>3, <1>4, <1>5, <2>2, ShapeStep
<1> QED BY <1>6, <1>7, Zenon DEF after_refund_bounty_amount

(* after_fees_payout keeps Shape: a withdrawal that would take the balance *)
(* below zero panics.                                                      *)
LEMMA FeesAnswerShape ==
  ASSUME Shape, NEW i \in 1 .. Len(calls), after_fees_payout(i)
  PROVE  Shape' /\ BountiesMove
<1> DEFINE call == calls[i]
           left == IF call.platform
                   THEN [fees EXCEPT !.balance = @ - call.amount]
                   ELSE [fees EXCEPT !.dao_balance = @ - call.amount]
<1>1. call.amount \in Int /\ Answered(i) \in Seq(Calls)
  BY AnsweredType, CallFacts DEF after_fees_payout
<1>2. /\ Transferred(call.amount)
      /\ fees' = IF left.balance >= 0 /\ left.dao_balance >= 0 THEN left
                 ELSE fees
      /\ calls' = Answered(i) /\ UNCHANGED <<now, config, paid, refunded>>
      /\ UNCHANGED bounties /\ UNCHANGED claims /\ UNCHANGED bonds
  BY Zenon DEF after_fees_payout
<1>3. /\ now' \in Nat /\ config' \in Config /\ held' \in Nat
      /\ paid' \in [ClaimKey -> Int] /\ refunded' \in [BountyId -> Int]
      /\ calls' \in Seq(Calls)
  BY <1>1, <1>2, ShapeScalars DEF Transferred
<1>4. FeesTyped'
  <2>1. fees \in [balance: Nat, locked: Nat, dao_balance: Nat, dao_locked: Nat]
    BY DEF Shape, TypeOK
  <2>2. /\ [fees EXCEPT !.balance = @ - call.amount]
             \in [balance: Int, locked: Nat, dao_balance: Nat, dao_locked: Nat]
        /\ [fees EXCEPT !.dao_balance = @ - call.amount]
             \in [balance: Nat, locked: Nat, dao_balance: Int, dao_locked: Nat]
    <3>1. PICK x \in Int : x = call.amount
      BY <1>1
    <3> HIDE DEF call
    <3>2. fees.balance - x \in Int /\ fees.dao_balance - x \in Int
      BY <2>1
    <3>3. [fees EXCEPT !.balance = fees.balance - x]
             \in [balance: Int, locked: Nat, dao_balance: Nat, dao_locked: Nat]
      BY <2>1, <3>2
    <3>4. [fees EXCEPT !.dao_balance = fees.dao_balance - x]
             \in [balance: Nat, locked: Nat, dao_balance: Int, dao_locked: Nat]
      BY <2>1, <3>2
    <3> QED BY <3>1, <3>3, <3>4
  <2>3. left \in [balance: Int, locked: Nat, dao_balance: Int, dao_locked: Nat]
    <3> HIDE DEF call
    <3> QED BY <2>2
  <2>4. left.balance >= 0 /\ left.dao_balance >= 0 =>
          left \in [balance: Nat, locked: Nat, dao_balance: Nat, dao_locked: Nat]
    <3> HIDE DEF left
    <3> QED BY <2>3
  <2> HIDE DEF left
  <2> QED BY <1>2, <2>1, <2>4 DEF FeesTyped
<1> QED BY <1>2, <1>3, <1>4, BountiesStay, ClaimsStay, BondsStay, ShapeStep

(* after_check_if_whitelisted keeps Shape at each of the three places a    *)
(* check is made.                                                          *)
LEMMA KycAnswerShape ==
  ASSUME Shape, NEW i \in 1 .. Len(calls), after_check_if_whitelisted(i)
  PROVE  Shape' /\ BountiesMove
<1> DEFINE call == calls[i]
           k == call.claim
           id == k[1]
           who == k[2]
<1>1. /\ k \in ClaimKey /\ call.deadline \in Nat \cup {Nil}
      /\ call.slot \in Places \cup {Nil}
      /\ call.delayed \in Deferments \cup {Nil}
      /\ Answered(i) \in Seq(Calls)
  BY AnsweredType, CallFacts DEF after_check_if_whitelisted
<1>2. id \in BountyId /\ who \in Claimants
  BY <1>1, KeyType
<1>3. UNCHANGED <<now, config, tokens>> /\ UNCHANGED fees
  BY DEF after_check_if_whitelisted
<1>4. CASE /\ NextKey(id, who) \in ClaimKey
           /\ \/ /\ bounties[id].terms.dao
                 /\ ApprovalRequired(who, bounties[id].terms)
              \/ MayCreateClaim(id, who, call.slot)
           /\ ProposeOrCreateClaim(Answered(i), NextKey(id, who), call.deadline,
                                   call.slot, 0)
  <2> DEFINE j == NextKey(id, who)
  <2>1. j[1] = id /\ j[2] = who
    BY DEF NextKey
  <2>2. \/ /\ bounties[j[1]].terms.dao
           /\ ApprovalRequired(j[2], bounties[j[1]].terms)
        \/ /\ bounties[j[1]].status # "Absent"
           /\ Mode(j[1]) = "DifferentTasks" =>
                call.slot \in UsedPlaces(bounties[j[1]])
    <3>1. CASE MayCreateClaim(id, who, call.slot)
      <4> HIDE DEF id, who, call
      <4> QED BY <1>2, <2>1, <3>1, MayCreateClaimFacts
    <3>2. CASE /\ bounties[id].terms.dao
               /\ ApprovalRequired(who, bounties[id].terms)
      BY <2>1, <3>2
    <3> QED BY <1>4, <3>1, <3>2
  <2> HIDE DEF j, call, id, who
  <2>3. /\ BountiesMove /\ ClaimsMove /\ BondsTyped'
        /\ calls' \in Seq(Calls)
    BY <1>1, <1>4, <2>2, ProposeOrCreateClaimMoves DEF j
  <2> QED BY <1>3, <2>3, ShapeStill, FeesStay
<1>5. CASE /\ MayDecide(k) /\ ApproveClaimant(k, claims[k], call.delayed)
           /\ calls' = Answered(i) /\ UNCHANGED bonds
  <2> HIDE DEF call, k
  <2>1. BountiesMove /\ ClaimsMove
    BY <1>1, <1>5, MayDecideFacts, ApproveClaimantMoves
  <2> QED BY <1>1, <1>3, <1>5, <2>1, ShapeStill, BondsStay, FeesStay
<1>6. CASE ProposeOrFinish(Answered(i), k)
  <2> HIDE DEF k
  <2>1. BountiesMove /\ ClaimsMove /\ BondsTyped' /\ calls' \in Seq(Calls)
    BY <1>1, <1>6, ProposeOrFinishMoves
  <2> QED BY <1>3, <2>1, ShapeStill, FeesStay
<1> QED BY <1>4, <1>5, <1>6, Zenon DEF after_check_if_whitelisted

(* after_add_proposal keeps Shape.                                         *)
LEMMA ClaimantProposalShape ==
  ASSUME Shape, NEW i \in 1 .. Len(calls), after_add_proposal(i)
  PROVE  Shape' /\ BountiesMove
<1> DEFINE call == calls[i]
           id == call.claim[1]
           who == call.claim[2]
           k == NextKey(id, who)
<1>1. /\ call.claim \in ClaimKey /\ call.deadline \in Nat \cup {Nil}
      /\ call.slot \in Places \cup {Nil}
      /\ Answered(i) \in Seq(Calls)
  BY AnsweredType, CallFacts DEF after_add_proposal
<1>2. id \in BountyId /\ who \in Claimants
  BY <1>1, KeyType
<1>3. /\ MayCreateClaim(id, who, call.slot)
      /\ CreateClaim(k, call.deadline, call.slot, TRUE, 0)
      /\ calls' = Answered(i)
      /\ UNCHANGED <<now, config, tokens>> /\ UNCHANGED fees
  BY DEF after_add_proposal
<1>4. /\ k \in ClaimKey /\ k[1] = id /\ bounties[id].status # "Absent"
      /\ Mode(id) = "DifferentTasks" => call.slot \in UsedPlaces(bounties[id])
  <2> HIDE DEF call, id, who
  <2> QED BY <1>2, <1>3, MayCreateClaimFacts
<1> HIDE DEF call, id, k
<1>5. BountiesMove /\ ClaimsMove /\ BondsTyped'
  BY <1>1, <1>3, <1>4, CreateClaimMoves
<1> QED BY <1>1, <1>3, <1>5, ShapeStill, FeesStay

(* The answers of the DAO on proposals and of the dispute contract keep    *)
(* Shape.                                                                  *)
LEMMA OtherAnswersShape ==
  ASSUME Shape, NEW i \in 1 .. Len(calls), NEW approved \in BOOLEAN,
         \/ on_added_proposal_callback(i)
         \/ after_check_approve_claimant_proposal(i, approved)
         \/ after_check_bounty_payout_proposal(i, approved)
         \/ after_create_dispute(i)
         \/ after_get_dispute(i, approved)
  PROVE  Shape' /\ BountiesMove
<1> DEFINE call == calls[i]
           k == call.claim
<1>0. Answered(i) \in Seq(Calls) /\ call \in Calls
  BY AnsweredType
<1>1. CASE on_added_proposal_callback(i)
  <2>1. /\ k \in ClaimKey /\ ClaimDone(k, TRUE) /\ calls' = Answered(i)
        /\ UNCHANGED <<now, config, tokens>> /\ UNCHANGED fees
        /\ UNCHANGED bonds
    BY <1>0, <1>1, CallFacts DEF on_added_proposal_callback
  <2> HIDE DEF k
  <2> QED BY <1>0, <2>1, ClaimDoneMoves, ShapeStill, BondsStay, FeesStay
<1>2. CASE after_check_approve_claimant_proposal(i, approved)
  <2>1. /\ k \in ClaimKey /\ calls' = Answered(i)
        /\ UNCHANGED <<now, config, tokens>> /\ UNCHANGED fees
    BY <1>0, <1>2, CallFacts DEF after_check_approve_claimant_proposal
  <2>2. \/ MayDecide(k) /\ ApproveClaimant(k, claims[k], Nil) /\ UNCHANGED bonds
        \/ DeclineClaimant(k)
    BY <1>2, Zenon DEF after_check_approve_claimant_proposal
  <2> HIDE DEF k
  <2>3. BountiesMove /\ ClaimsMove /\ BondsTyped'
    BY <2>1, <2>2, MayDecideFacts, ApproveClaimantMoves, BondsStay, DeclineMoves
  <2> QED BY <1>0, <2>1, <2>3, ShapeStill, FeesStay
<1>3. CASE after_check_bounty_payout_proposal(i, approved)
  <2>1. /\ call.id \in BountyId /\ k \in ClaimKey \cup {Nil}
        /\ UNCHANGED <<now, config, tokens>>
    BY <1>0, <1>3, CallFacts DEF after_check_bounty_payout_proposal
  <2>2. CASE approved
    <3>1. Payout(Answered(i), call.id, k, Nil)
      BY <1>3, <2>2, Zenon DEF after_check_bounty_payout_proposal
    <3> HIDE DEF k, call
    <3> QED BY <1>0, <2>1, <3>1, PayoutMoves, ShapeStill
  <2>3. CASE ~approved
    <3>1. /\ k # Nil /\ claims[k].status = "Completed" /\ RejectClaim(k)
          /\ calls' = Answered(i) /\ UNCHANGED fees
      BY <1>3, <2>3 DEF after_check_bounty_payout_proposal
    <3> HIDE DEF k
    <3> QED BY <1>0, <2>1, <3>1, RejectClaimMoves, ShapeStill, FeesStay
  <2> QED BY <2>2, <2>3
<1>4. CASE after_create_dispute(i)
  <2>1. /\ k \in ClaimKey /\ calls' = Answered(i)
        /\ claims[k].status # "Absent"
        /\ claims' = [claims EXCEPT ![k] = [claims[k] EXCEPT !.status = "Disputed"]]
        /\ UNCHANGED <<now, config, tokens>> /\ UNCHANGED fees
        /\ UNCHANGED bonds /\ UNCHANGED bounties
    BY <1>0, <1>4, CallFacts DEF after_create_dispute
  <2>2. "Disputed" \in ClaimStatus
    BY DEF ClaimStatus
  <2> HIDE DEF k
  <2>3. ClaimsMove
    BY <2>1, <2>2, StoredClaim, StatusHeld, ClaimMoves
  <2> QED BY <1>0, <2>1, <2>3, ShapeStill, BountiesStay, BondsStay, FeesStay
<1>5. CASE after_get_dispute(i, approved)
  <2>1. /\ k \in ClaimKey /\ claims[k].status # "Absent"
        /\ SettleDispute(Answered(i), k, approved)
        /\ UNCHANGED <<now, config, tokens>>
    BY <1>0, <1>5, CallFacts DEF after_get_dispute
  <2> HIDE DEF k
  <2> QED BY <1>0, <2>1, SettleDisputeMoves, ShapeStill
<1> QED BY <1>1, <1>2, <1>3, <1>4, <1>5

(* The withdrawals of fees and of withheld bonds keep Shape.               *)
LEMMA RecipientShape ==
  ASSUME Shape,
         \/ withdraw_platform_fee
         \/ withdraw_validators_dao_fee
         \/ withdraw_non_refunded_bonds
  PROVE  Shape' /\ BountiesMove
<1>0. fees \in [balance: Nat, locked: Nat, dao_balance: Nat, dao_locked: Nat]
  BY DEF Shape, TypeOK
<1>1. ASSUME NEW available \in Int, NEW platform \in BOOLEAN,
             SendFees(available, platform)
      PROVE  Shape' /\ BountiesMove
  <2> DEFINE call == [kind |-> "fees", amount |-> available,
                      platform |-> platform]
  <2>1. call \in Calls
    BY DEF Calls
  <2>2. /\ Send(calls, call) /\ UNCHANGED <<bounties, claims, bonds>>
        /\ UNCHANGED fees /\ UNCHANGED <<now, config, tokens>>
    BY <1>1 DEF SendFees
  <2> HIDE DEF call
  <2> QED BY <2>1, <2>2, SentMoves, ShapeStill, FeesStay
<1>2. CASE withdraw_platform_fee
  <2>1. fees.balance - fees.locked \in Int
    BY <1>0
  <2> QED BY <1>1, <1>2, <2>1, Zenon DEF withdraw_platform_fee
<1>3. CASE withdraw_validators_dao_fee
  <2>1. fees.dao_balance - fees.dao_locked \in Int
    BY <1>0
  <2> QED BY <1>1, <1>3, <2>1, Zenon DEF withdraw_validators_dao_fee
<1>4. CASE withdraw_non_refunded_bonds
  <2>1. /\ bonds \in BondAccounts
        /\ bonds.near - bonds.unlocked_amount \in Int /\ 0 \in Int
    BY DEF Shape, TypeOK, BondAccounts
  <2>2. /\ bonds' = [bonds EXCEPT !.unlocked_amount = 0,
                                  !.near = @ - bonds.unlocked_amount]
        /\ UNCHANGED <<now, config, tokens>>
        /\ UNCHANGED bounties /\ UNCHANGED claims /\ UNCHANGED fees
        /\ UNCHANGED calls
    BY <1>4 DEF withdraw_non_refunded_bonds
  <2>3. BondsTyped'
    BY <2>1, <2>2, Zenon DEF BondsTyped, BondAccounts
  <2> QED BY <2>2, <2>3, ShapeStill, BountiesStay, ClaimsStay, FeesStay, CallsStay
<1> QED BY <1>2, <1>3, <1>4

(* Every action on a bounty keeps Shape.                                   *)
LEMMA OnBountyShape ==
  ASSUME Shape, NEW id \in BountyId, OnBounty(id)
  PROVE  Shape' /\ BountiesMove
BY CreateShape, CancelShape, StartShape, UpdateShape, ClaimShape,
   ApproveSeveralShape, FinalizeAllShape, ReturnShape DEF OnBounty

(* Every action on a claim keeps Shape.                                    *)
LEMMA OnClaimShape ==
  ASSUME Shape, NEW k \in ClaimKey, OnClaim(k)
  PROVE  Shape' /\ BountiesMove
<1>1. UsedPlaces(bounties[k[1]]) \subseteq Places
  BY KeyType, StoredBounty, UsedPlacesType
<1>2. CASE \/ bounty_done(k) \/ bounty_give_up(k) \/ withdraw(k)
           \/ open_dispute(k)
           \/ \E success \in BOOLEAN : dispute_result(k, success)
           \/ \E deadline \in Deadlines : extend_claim_deadline(k, deadline)
           \/ \E place \in UsedPlaces(bounties[k[1]]) : mark_as_paid(k, place)
           \/ confirm_payment(k) \/ bounty_finalize(k)
  BY <1>2, DoneShape, GiveUpShape, WithdrawShape, OpenDisputeShape,
     DisputeResultShape, ExtendShape, MarkShape, ConfirmShape, FinalizeShape
<1>3. ASSUME NEW sender \in Accounts, NEW delayed \in Deferments \cup {Nil},
             accept_claimant(sender, k, delayed)
      PROVE  Shape' /\ BountiesMove
  BY <1>3, AcceptShape
<1>4. ASSUME NEW sender \in Accounts,
             \/ decline_claimant(sender, k)
             \/ \E place \in UsedPlaces(bounties[k[1]]) \cup {Nil} :
                   bounty_approve(sender, k, place)
             \/ bounty_reject(sender, k)
      PROVE  Shape' /\ BountiesMove
  <2>1. PICK place \in Places \cup {Nil} :
          \/ decline_claimant(sender, k)
          \/ bounty_approve(sender, k, place)
          \/ bounty_reject(sender, k)
    BY <1>1, <1>4
  <2> QED BY <2>1, DecisionShape
<1> QED BY <1>2, <1>3, <1>4 DEF OnClaim, ClaimCall

(* Every answer to a promise keeps Shape.                                  *)
LEMMA AnswerShape ==
  ASSUME Shape, NEW i \in 1 .. Len(calls), Answer(i)
  PROVE  Shape' /\ BountiesMove
<1>1. CASE \/ Drop(i) \/ after_ft_transfer(i) \/ after_bounty_withdraw(i)
           \/ after_refund_bounty_amount(i) \/ after_fees_payout(i)
           \/ after_check_if_whitelisted(i) \/ after_add_proposal(i)
  BY <1>1, DropShape, PayoutAnswerShape, WithdrawAnswerShape,
     RefundAnswerShape, FeesAnswerShape, KycAnswerShape, ClaimantProposalShape
<1>2. ASSUME NEW approved \in BOOLEAN,
             \/ on_added_proposal_callback(i)
             \/ after_check_approve_claimant_proposal(i, approved)
             \/ after_check_bounty_payout_proposal(i, approved)
             \/ after_create_dispute(i)
             \/ after_get_dispute(i, approved)
      PROVE  Shape' /\ BountiesMove
  BY <1>2, OtherAnswersShape
<1>3. TRUE \in BOOLEAN
  OBVIOUS
<1> QED BY <1>1, <1>2, <1>3 DEF Answer

(* The contract starts in Shape: there are neither bounties nor claims.    *)
LEMMA InitShape == Init => Shape
<1> SUFFICES ASSUME Init PROVE Shape
  OBVIOUS
<1>1. NoBounty \in Bounty /\ NoBounty.status = "Absent"
  BY NoBountyType DEF NoBounty
<1>2. NoClaim \in Claim /\ NoClaim.status = "Absent"
  BY DEF NoClaim, Claim, ClaimStatus
<1>3. /\ bounties = [id \in BountyId |-> NoBounty]
      /\ claims = [k \in ClaimKey |-> NoClaim]
  BY DEF Init
<1>4. bounties \in [BountyId -> Bounty] /\ claims \in [ClaimKey -> Claim]
  BY <1>1, <1>2, <1>3
<1>5. /\ now \in Nat /\ config \in Config
      /\ bonds \in BondAccounts
      /\ fees \in [balance: Nat, locked: Nat, dao_balance: Nat, dao_locked: Nat]
      /\ held \in Nat /\ paid \in [ClaimKey -> Int]
      /\ refunded \in [BountyId -> Int] /\ calls \in Seq(Calls)
  BY BountiesAssumption DEF Init, BondAccounts
<1>6. \A k \in ClaimKey : claims[k].status = "Absent"
  BY <1>2, <1>3
<1> QED BY <1>4, <1>5, <1>6 DEF Shape, TypeOK, Unborn, SlotsNamed

(* Every step keeps Shape, and every bounty within Later.                  *)
LEMMA NextShape == Shape /\ [Next]_vars => Shape' /\ BountiesMove
<1> SUFFICES ASSUME Shape, [Next]_vars PROVE Shape' /\ BountiesMove
  OBVIOUS
<1>1. CASE Next
  <2>1. CASE Tick \/ change_config
    BY <2>1, TickShape
  <2>2. CASE \E id \in BountyId : OnBounty(id)
    BY <2>2, OnBountyShape
  <2>3. CASE \E k \in ClaimKey : OnClaim(k)
    BY <2>3, OnClaimShape
  <2>4. CASE \/ withdraw_platform_fee \/ withdraw_validators_dao_fee
             \/ withdraw_non_refunded_bonds
    BY <2>4, RecipientShape
  <2>5. CASE \E i \in 1 .. Len(calls) : Answer(i)
    BY <2>5, AnswerShape
  <2> QED BY <1>1, <2>1, <2>2, <2>3, <2>4, <2>5 DEF Next
<1>2. CASE UNCHANGED vars
  <2>1. Shape'
    BY <1>2 DEF vars, Shape, TypeOK, Unborn, SlotsNamed, Mode, UsedPlaces
  <2>2. BountiesMove
    BY <1>2, BountiesStay DEF vars
  <2> QED BY <2>1, <2>2
<1> QED BY <1>1, <1>2

(* In every run, for any accounts, bounties, terms, configurations and     *)
(* bounds, the state has its type, no claim is there before its bounty,    *)
(* and every claim on a bounty of several tasks names one of its subtasks, *)
(* however calls and answers interleave (bounty_claim,                     *)
(* after_check_if_whitelisted, after_add_proposal, and all that store a    *)
(* claim).                                                                 *)
THEOREM ShapeAlways == Spec => []Shape
BY InitShape, NextShape, PTL DEF Spec

(* In every run, for every value of the constants, the state has its type: *)
(* in particular the fee accounts of FeeStats, u128 in the code, and the   *)
(* tokens held never go below zero, and no handler stores a slot, a status *)
(* or a time that its record cannot hold.                                  *)
THEOREM TypeCorrect == Spec => []TypeOK
<1>1. Shape => TypeOK
  BY DEF Shape
<1> QED BY <1>1, ShapeAlways, PTL

(* No step takes a bounty away or changes the mode or the number of slots  *)
(* it was created with, whatever bounty_update and the callbacks do to it: *)
(* the runtime data of its mode keep their meaning.                        *)
THEOREM BountiesKept == Spec => [][BountiesMove]_vars
<1>1. Shape /\ [Next]_vars => [BountiesMove]_vars
  BY NextShape
<1> QED BY <1>1, ShapeAlways, PTL DEF Spec

-----------------------------------------------------------------------------
(***************************************************************************)
(* A bounty for one claimant has one claimant, for every value of the      *)
(* constants (OneWorker), and its status says whether it has one           *)
(* (ClaimedWhenActive).  The hazard is that a claim is approved, paid,     *)
(* rejected or expired in the callback of a promise, with any calls in     *)
(* between, on the word of what the promise carried.                       *)
(*                                                                         *)
(* Neither property is inductive.  Work adds that a bounty that is open or *)
(* done has no active claim, that none of its claims has the status of a   *)
(* contest's claim, and that the promises for a payment carry a claim of   *)
(* the very bounty they name.  The proof shows of each internal function,  *)
(* then of each action (the lemmas ...Steps), that what it does to a       *)
(* bounty for one claimant is one of three things (Step), and that the     *)
(* promises it sends are sound.  That a bounty never changes its mode,     *)
(* which keeps a promise sound while it is out, is BountiesMove,           *)
(* above.                                                                  *)
(***************************************************************************)

(* A bounty that is there and takes several claims: the properties of this *)
(* module say nothing of it.                                               *)
Shared(id) == Status(id) # "Absent" /\ Mode(id) # "None"

(* What a bounty for one claimant keeps, and what one that is not there    *)
(* has: at most one active claim, exactly while it is Claimed (a cancelled *)
(* bounty has one only if it was cancelled while the decision on a claim   *)
(* was on its way), and no claim in a status that only a contest gives.    *)
Lone(id) ==
  /\ Status(id) \in {"Absent", "New", "Claimed", "Completed", "Canceled"}
  /\ \A j, k \in ClaimsOf(id, Active) : j = k
  /\ Status(id) = "Claimed" => ClaimsOf(id, Active) # {}
  /\ Status(id) \in {"Absent", "New", "Completed"} => ClaimsOf(id, Active) = {}
  /\ ClaimsOf(id, {"Competes"}) = {}

(* Every bounty for one claimant is in order.                              *)
Alone == \A id \in BountyId : Shared(id) \/ Lone(id)

(* A promise that was made for a claim carries a claim of the bounty it    *)
(* names: after_ft_transfer and after_check_bounty_payout_proposal act on  *)
(* the two of them without comparing them. Only a bounty of several        *)
(* claimants is paid without a claim, or withdrawn from, and only one that *)
(* is there is refunded.                                                   *)
Sound(c) ==
  /\ c.kind \in {"payout", "checkPayoutProposal"} =>
       \/ c.claim \in ClaimKey /\ c.claim[1] = c.id
       \/ c.claim = Nil /\ Shared(c.id)
  /\ c.kind = "withdraw" => Shared(c.claim[1])
  /\ c.kind = "refund" => Status(c.id) # "Absent"

(* A queue of promises with nothing else in it.                            *)
SoundSeq(q) == q \in Seq(Calls) /\ \A j \in 1 .. Len(q) : Sound(q[j])

(* The promises that are out are sound.                                    *)
Addressed == SoundSeq(calls)

(* The inductive invariant of this module.                                 *)
Work == Shape /\ Alone /\ Addressed

----------------------------------------------------------------------------
(* The step changes the status of no other claim on the bounty.            *)
Others(k) ==
  \A j \in ClaimKey :
     j[1] = k[1] /\ j # k => claims'[j].status = claims[j].status

(* The step hires nobody on bounty id and ends nobody's work there: the    *)
(* bounty is created, cancelled or left alone, and claims move only among  *)
(* the active statuses or among the others.                                *)
Quiet(id) ==
  /\ \/ bounties'[id].status = Status(id)
     \/ Status(id) # "Absent" /\ bounties'[id].status = "Canceled"
     \/ Status(id) = "Absent" /\ bounties'[id].status = "New"
  /\ \A k \in ClaimKey : k[1] = id =>
       /\ claims'[k].status \in Active <=> claims[k].status \in Active
       /\ claims'[k].status = "Competes" => claims[k].status = "Competes"

(* The step ends the work of claim k, and the bounty is open again or done *)
(* (internal_reset_bounty_to_initial_state, internal_bounty_completion).   *)
Ends(k) ==
  /\ claims[k].status \in Active /\ claims'[k].status \in Over
  /\ bounties'[k[1]].status \in {"New", "Completed"}
  /\ Others(k)

(* The step puts claim k to work on an open bounty                         *)
(* (internal_claimant_approval).                                           *)
Hires(k) ==
  /\ Status(k[1]) = "New" /\ bounties'[k[1]].status = "Claimed"
  /\ claims'[k].status \in Active
  /\ Others(k)

(* What a step may do to a bounty for one claimant.                        *)
Step(id) ==
  \/ Quiet(id)
  \/ \E k \in ClaimKey : k[1] = id /\ (Ends(k) \/ Hires(k))

(* The step does no more than that to any of them.                         *)
Steps == \A id \in BountyId : ~Shared(id) => Step(id)

(* The step changes no status on any other bounty than `at'.               *)
Apart(at) ==
  /\ \A id \in BountyId : id # at => bounties'[id].status = Status(id)
  /\ \A k \in ClaimKey : k[1] # at => claims'[k].status = claims[k].status

(* A step of one of the three kinds keeps a bounty in order: an ending     *)
(* finds the one active claim, a hiring finds none.                        *)
LEMMA LoneKept ==
  ASSUME NEW id \in BountyId, Lone(id), Step(id)
  PROVE  Lone(id)'
<1>1. CASE Quiet(id)
  <2>1. ClaimsOf(id, Active)' = ClaimsOf(id, Active)
    BY <1>1 DEF Quiet, ClaimsOf, Active
  <2>2. ClaimsOf(id, {"Competes"})' = {}
    BY <1>1 DEF Quiet, ClaimsOf, Lone
  <2> QED BY <1>1, <2>1, <2>2 DEF Quiet, Lone, Status
<1>2. ASSUME NEW k \in ClaimKey, k[1] = id, Ends(k)
      PROVE  Lone(id)'
  <2>1. \A j \in ClaimsOf(id, Active) : j = k
    BY <1>2 DEF Lone, Ends, ClaimsOf
  <2>2. ClaimsOf(id, Active)' = {}
    BY <1>2, <2>1 DEF Ends, Others, ClaimsOf, Over, Active
  <2>3. ClaimsOf(id, {"Competes"})' = {}
    BY <1>2 DEF Lone, Ends, Others, ClaimsOf, Over
  <2> QED BY <1>2, <2>2, <2>3 DEF Ends, Lone, Status
<1>3. ASSUME NEW k \in ClaimKey, k[1] = id, Hires(k)
      PROVE  Lone(id)'
  <2>1. ClaimsOf(id, Active) = {}
    BY <1>3 DEF Lone, Hires
  <2>2. \A j \in ClaimsOf(id, Active)' : j = k
    BY <1>3, <2>1 DEF Hires, Others, ClaimsOf, Active
  <2>3. k \in ClaimsOf(id, Active)'
    BY <1>3 DEF Hires, ClaimsOf, Active
  <2>4. ClaimsOf(id, {"Competes"})' = {}
    BY <1>3 DEF Lone, Hires, Others, ClaimsOf, Active
  <2> QED BY <1>3, <2>2, <2>3, <2>4 DEF Hires, Lone, Status
<1> QED BY <1>1, <1>2, <1>3 DEF Step

(* A bounty of several claimants stays one (BountiesMove).                 *)
LEMMA SharedKept ==
  ASSUME BountiesMove, NEW id \in BountyId, Shared(id)
  PROVE  Shared(id)'
BY DEF BountiesMove, Later, Shared, Status, Mode

(* So a promise that is sound stays sound, whatever happens while it is    *)
(* out.                                                                    *)
LEMMA SoundKept ==
  ASSUME BountiesMove, NEW c \in Calls, Sound(c)
  PROVE  Sound(c)'
<1>1. c.kind \in {"payout", "checkPayoutProposal"} => c.id \in BountyId
  BY CallFacts
<1>2. c.kind = "withdraw" => c.claim[1] \in BountyId
  BY CallFacts, KeyType
<1>3. ASSUME c.kind = "refund"
      PROVE  Status(c.id)' # "Absent"
  <2>1. c.id \in BountyId /\ Status(c.id) # "Absent"
    BY <1>3, CallFacts DEF Sound
  <2> QED BY <2>1 DEF BountiesMove, Later, Status
<1> QED BY <1>1, <1>2, <1>3, SharedKept DEF Sound

(* What every action is shown to do is enough for Work.                    *)
LEMMA WorkKept ==
  ASSUME Work, BountiesMove, Shape', Steps, SoundSeq(calls')
  PROVE  Work'
<1>1. Alone'
  <2>1. ASSUME NEW id \in BountyId
        PROVE  Shared(id)' \/ Lone(id)'
    BY LoneKept, SharedKept DEF Work, Alone, Steps
  <2> QED BY <2>1 DEF Alone
<1>2. Addressed'
  <2>1. ASSUME NEW j \in 1 .. Len(calls'), NEW c, c = calls'[j]
        PROVE  Sound(c)'
    <3>1. c \in Calls /\ Sound(c)
      BY <2>1 DEF SoundSeq
    <3> QED BY <3>1, SoundKept
  <2>2. calls' \in Seq(Calls)
    BY DEF SoundSeq
  <2> QED BY <2>1, <2>2
          DEF SoundSeq, Addressed, Sound, Shared, Status, Mode
<1> QED BY <1>1, <1>2 DEF Work

(* A step that keeps to one bounty has to be looked at there only.         *)
LEMMA Elsewhere ==
  ASSUME NEW at \in BountyId, Apart(at), ~Shared(at) => Step(at)
  PROVE  Steps
<1>1. ASSUME NEW id \in BountyId, id # at
      PROVE  Quiet(id)
  BY <1>1 DEF Apart, Quiet, Active
<1> QED BY <1>1 DEF Steps, Step

(* A step that changes no status is within Steps.                          *)
LEMMA StatusesStay ==
  ASSUME \A id \in BountyId : bounties'[id].status = Status(id),
         \A k \in ClaimKey : claims'[k].status = claims[k].status
  PROVE  Steps
BY DEF Steps, Step, Quiet, Active

(* So is one that leaves bounties and claims alone.                        *)
LEMMA Untouched ==
  ASSUME UNCHANGED bounties, UNCHANGED claims
  PROVE  Steps
BY StatusesStay DEF Status

(* A claim that is not being worked on leaves the status of its bounty as  *)
(* it is.                                                                  *)
LEMMA LeftStatus ==
  ASSUME NEW b \in Bounty, NEW k \in ClaimKey
  PROVE  Left(b, k).status = b.status
BY DEF Left, ResetSlot, Bounty

(* Storing one claim and its bounty touches no other bounty, and no other  *)
(* claim of this one.                                                      *)
LEMMA ApartAt ==
  ASSUME Work, NEW k \in ClaimKey,
         \/ UNCHANGED bounties
         \/ \E b : bounties' = [bounties EXCEPT ![k[1]] = b],
         \E c : claims' = [claims EXCEPT ![k] = c]
  PROVE  Apart(k[1]) /\ Others(k)
BY DEF Work, Shape, TypeOK, Apart, Others, Status

(* internal_claim_closure gives the claim the status it is called with.    *)
LEMMA ClosedClaim ==
  ASSUME Work, NEW k \in ClaimKey, NEW s, NEW returned,
         CloseClaim(k, s, returned)
  PROVE  /\ claims'[k].status = s
         /\ \E c : claims' = [claims EXCEPT ![k] = c]
<1>1. claims \in [ClaimKey -> Claim] /\ claims[k] \in Claim
  BY DEF Work, Shape, TypeOK
<1>2. claims' = [claims EXCEPT ![k] = [claims[k] EXCEPT !.status = s]]
  BY DEF CloseClaim
<1>3. [claims[k] EXCEPT !.status = s].status = s
  BY <1>1 DEF Claim
<1> QED BY <1>1, <1>2, <1>3

(* Closing a claim that is not active is within Steps, as bounty_give_up,  *)
(* internal_rejection_and_save_claim and internal_finalize_some_claim do   *)
(* it.                                                                     *)
LEMMA CloseIdle ==
  ASSUME Work, NEW k \in ClaimKey, NEW s \in Over, NEW returned,
         ~Shared(k[1]) => claims[k].status \notin Active,
         \/ UNCHANGED bounties
         \/ bounties' = [bounties EXCEPT ![k[1]] = Left(bounties[k[1]], k)],
         CloseClaim(k, s, returned)
  PROVE  Steps
<1>1. Apart(k[1]) /\ Others(k) /\ claims'[k].status = s
  BY ClosedClaim, ApartAt
<1>2. bounties'[k[1]].status = Status(k[1])
  BY LeftStatus, KeyType DEF Work, Shape, TypeOK, Status
<1>3. s \notin Active /\ s # "Competes"
  BY DEF Over, Active
<1>4. ~Shared(k[1]) => Quiet(k[1])
  BY <1>1, <1>2, <1>3 DEF Quiet, Others, Active
<1> QED BY <1>1, <1>4, Elsewhere, KeyType DEF Step

(* A claim on a bounty for one claimant never competes, and its bounty is  *)
(* there.                                                                  *)
LEMMA LoneClaim ==
  ASSUME Work, NEW k \in ClaimKey, ~Shared(k[1])
  PROVE  /\ Lone(k[1]) /\ claims[k].status # "Competes"
         /\ claims[k].status # "Absent" =>
              Status(k[1]) # "Absent" /\ Mode(k[1]) = "None"
<1>1. Lone(k[1])
  BY KeyType DEF Work, Alone
<1>2. claims[k].status # "Competes"
  BY <1>1 DEF Lone, ClaimsOf
<1> QED BY <1>1, <1>2 DEF Work, Shape, Unborn, Shared, Status, Mode

(* Giving an active claim up with internal_reset_bounty_to_initial_state   *)
(* is within Steps.                                                        *)
LEMMA ResetEnds ==
  ASSUME Work, NEW k \in ClaimKey, NEW s \in Over, NEW returned,
         ~Shared(k[1]) => claims[k].status \in Active,
         ResetBounty(k, s, returned)
  PROVE  Steps
<1>0. CloseClaim(k, s, returned)
      /\ bounties' = [bounties EXCEPT ![k[1]] = Reopened(bounties[k[1]], k)]
  BY DEF ResetBounty
<1>1. Apart(k[1]) /\ Others(k) /\ claims'[k].status = s
  BY <1>0, ClosedClaim, ApartAt
<1>2. ASSUME ~Shared(k[1])
      PROVE  Ends(k)
  <2>1. claims[k].status \in Active /\ claims[k].status # "Absent"
    BY <1>2 DEF Active
  <2>2. bounties[k[1]].terms.mode = "None"
    BY <1>2, <2>1, LoneClaim DEF Mode
  <2>3. Reopened(bounties[k[1]], k) = [bounties[k[1]] EXCEPT !.status = "New"]
    BY <2>2 DEF Reopened
  <2>4. bounties[k[1]] \in Bounty /\ k[1] \in BountyId
        /\ bounties \in [BountyId -> Bounty]
    BY KeyType DEF Work, Shape, TypeOK
  <2>5. [bounties[k[1]] EXCEPT !.status = "New"].status = "New"
    BY <2>4 DEF Bounty
  <2>6. bounties'[k[1]].status = "New"
    BY <1>0, <2>3, <2>4, <2>5
  <2> QED BY <1>1, <2>1, <2>6 DEF Ends
<1> QED BY <1>1, <1>2, Elsewhere, KeyType DEF Step

(* internal_bounty_completion is within Steps, in the call or in the       *)
(* callback of the transfer: MayComplete has looked at the claim again.    *)
LEMMA CompleteEnds ==
  ASSUME Work, NEW id \in BountyId, NEW k, NEW amounts, NEW place,
         \/ k \in ClaimKey /\ k[1] = id
         \/ k = Nil /\ Shared(id),
         MayComplete(id, k, amounts, place),
         Complete(id, k, amounts, place)
  PROVE  Steps
<1>0. bounties' = [bounties EXCEPT ![id] = PaidBounty(bounties[id], k, place)]
  BY DEF Complete
<1>1. CASE k = Nil
  <2>1. Shared(id) /\ UNCHANGED claims
    BY <1>1, NilAssumption DEF Complete
  <2>2. Apart(id)
    BY <1>0, <2>1 DEF Work, Shape, TypeOK, Apart, Status
  <2> QED BY <2>1, <2>2, Elsewhere
<1>2. CASE k # Nil
  <2>1. k \in ClaimKey /\ k[1] = id /\ CloseClaim(k, "Approved", TRUE)
    BY <1>2 DEF Complete
  <2>2. Apart(id) /\ Others(k) /\ claims'[k].status = "Approved"
    BY <1>0, <2>1, ClosedClaim, ApartAt
  <2>3. ASSUME ~Shared(id)
        PROVE  Ends(k)
    <3>1. Lone(id)
      BY <2>3 DEF Work, Alone
    <3>2. /\ \/ bounties[id].status \in Running
             \/ bounties[id].terms.mode = "DifferentTasks"
          /\ bounties[id].terms.mode = "DifferentTasks" =>
               bounties[id].status = "ManyClaimed"
      BY DEF MayComplete
    <3>3. bounties[id].terms.mode = "None"
      BY <2>3, <3>2 DEF Shared, Status, Mode, Running
    <3>4. claims[k].status \in Active
      BY <3>3 DEF MayComplete, Active
    <3>5. PaidBounty(bounties[id], k, place) =
            [bounties[id] EXCEPT !.status = "Completed"]
      BY <3>3 DEF PaidBounty
    <3>6. bounties[id] \in Bounty /\ bounties \in [BountyId -> Bounty]
      BY DEF Work, Shape, TypeOK
    <3>7. [bounties[id] EXCEPT !.status = "Completed"].status = "Completed"
      BY <3>6 DEF Bounty
    <3>8. bounties'[id].status = "Completed"
      BY <1>0, <3>5, <3>6, <3>7
    <3> QED BY <2>1, <2>2, <3>4, <3>8 DEF Ends, Over
  <2> QED BY <2>1, <2>2, <2>3, Elsewhere DEF Step
<1> QED BY <1>1, <1>2

(* Moving a claim from one active status to another is within Steps.       *)
LEMMA StaysActive ==
  ASSUME Work, NEW k \in ClaimKey, Apart(k[1]), Others(k),
         bounties'[k[1]].status = Status(k[1]),
         ~Shared(k[1]) => /\ claims[k].status \in Active
                          /\ claims'[k].status \in Active
  PROVE  Steps
<1>1. ~Shared(k[1]) => Quiet(k[1])
  BY DEF Quiet, Others, Active
<1> QED BY <1>1, Elsewhere, KeyType DEF Step

(* A step that keeps to a bounty of several claimants is within Steps.     *)
LEMMA OnlyShared ==
  ASSUME Work, NEW k \in ClaimKey, Apart(k[1]), Shared(k[1])
  PROVE  Steps
BY Elsewhere, KeyType

----------------------------------------------------------------------------
(* Sending a sound promise leaves a queue of sound promises.               *)
LEMMA SoundSent ==
  ASSUME Shape', NEW q, SoundSeq(q), NEW call, Sound(call), Send(q, call)
  PROVE  SoundSeq(calls')
<1>1. calls' \in Seq(Calls)
  BY DEF Shape, TypeOK
<1>2. calls' = Append(q, call) /\ q \in Seq(Calls)
  BY DEF Send, SoundSeq
<1>3. ASSUME NEW j \in 1 .. Len(calls')
      PROVE  Sound(calls'[j])
  <2>1. \/ j \in 1 .. Len(q) /\ calls'[j] = q[j]
        \/ calls'[j] = call
    BY <1>2, <1>3
  <2> QED BY <2>1 DEF SoundSeq
<1> QED BY <1>1, <1>3 DEF SoundSeq

(* Taking an answered promise out does too, and the one that was answered  *)
(* was sound.                                                              *)
LEMMA SoundLeft ==
  ASSUME Work, NEW i \in 1 .. Len(calls)
  PROVE  SoundSeq(Answered(i)) /\ Sound(calls[i]) /\ calls[i] \in Calls
<1>1. calls \in Seq(Calls) /\ \A j \in 1 .. Len(calls) : Sound(calls[j])
  BY DEF Work, Addressed, SoundSeq
<1>2. Answered(i) \in Seq(Calls)
  BY AnsweredType DEF Work
<1>3. ASSUME NEW j \in 1 .. Len(Answered(i))
      PROVE  \E m \in 1 .. Len(calls) : Answered(i)[j] = calls[m]
  <2>1. Answered(i) =
          SubSeq(calls, 1, i - 1) \o SubSeq(calls, i + 1, Len(calls))
    BY DEF Answered, RemoveAt
  <2> DEFINE head == SubSeq(calls, 1, i - 1)
             tail == SubSeq(calls, i + 1, Len(calls))
  <2>2. /\ Len(calls) \in Nat /\ i \in Int
        /\ \A m \in 1 .. Len(calls) : calls[m] \in Calls
    BY <1>1
  <2>3. /\ head \in Seq(Calls) /\ Len(head) = i - 1
        /\ \A m \in 1 .. i - 1 : head[m] = calls[m]
    BY <1>1
  <2>4. /\ tail \in Seq(Calls) /\ Len(tail) = Len(calls) - i
        /\ \A m \in 1 .. Len(calls) - i : tail[m] = calls[m + i]
    <3>1. \A m \in i + 1 .. Len(calls) : calls[m] \in Calls
      BY <2>2
    <3>2. /\ tail \in Seq(Calls)
          /\ Len(tail) = IF i + 1 <= Len(calls) THEN Len(calls) - (i + 1) + 1
                                             ELSE 0
          /\ \A m \in 1 .. Len(calls) - (i + 1) + 1 :
               tail[m] = calls[i + 1 + m - 1]
      BY <2>2, <3>1, SubSeqProperties
    <3> HIDE DEF tail
    <3>3. Len(tail) = Len(calls) - i
      BY <2>2, <3>2
    <3>4. ASSUME NEW m \in 1 .. Len(calls) - i
          PROVE  tail[m] = calls[m + i]
      <4>1. /\ m \in 1 .. Len(calls) - (i + 1) + 1
            /\ i + 1 + m - 1 = m + i
        BY <2>2
      <4>2. tail[m] = calls[i + 1 + m - 1]
        BY <3>2, <4>1
      <4> QED BY <4>1, <4>2
    <3> QED BY <3>2, <3>3, <3>4
  <2> HIDE DEF head, tail
  <2>5. /\ Len(Answered(i)) = Len(calls) - 1
        /\ \A m \in 1 .. Len(calls) - 1 :
             Answered(i)[m] = IF m < i THEN head[m] ELSE tail[m - i + 1]
    <3>1. Answered(i) = head \o tail
      BY <2>1 DEF head, tail
    <3>2. /\ Len(head \o tail) = Len(head) + Len(tail)
          /\ \A m \in 1 .. Len(head) + Len(tail) : (head \o tail)[m] =
               IF m <= Len(head) THEN head[m] ELSE tail[m - Len(head)]
      BY <2>3, <2>4, ConcatProperties
    <3>3. Len(head) = i - 1 /\ Len(tail) = Len(calls) - i
      BY <2>3, <2>4
    <3>4. Len(Answered(i)) = Len(calls) - 1
      BY <2>2, <3>1, <3>2, <3>3
    <3>5. ASSUME NEW m \in 1 .. Len(calls) - 1
          PROVE  Answered(i)[m] = IF m < i THEN head[m] ELSE tail[m - i + 1]
      <4>1. /\ m \in 1 .. Len(head) + Len(tail)
            /\ m <= Len(head) <=> m < i
            /\ m - Len(head) = m - i + 1
        BY <2>2, <3>3, <3>5
      <4>2. Answered(i)[m] = IF m <= Len(head) THEN head[m]
                                               ELSE tail[m - Len(head)]
        BY <3>1, <3>2, <4>1
      <4> QED BY <4>1, <4>2
    <3> QED BY <3>4, <3>5
  <2>6. j \in 1 .. Len(calls) - 1
    BY <1>3, <2>5
  <2>7. Answered(i)[j] = IF j < i THEN head[j] ELSE tail[j - i + 1]
    BY <2>5, <2>6
  <2>8. CASE j < i
    BY <2>2, <2>8, <2>3, <2>6, <2>7
  <2>9. CASE j >= i
    <3>1. Answered(i)[j] = tail[j - i + 1]
      <4>1. ~(j < i)
        BY <2>2, <2>9, <2>6
      <4> QED BY <2>7, <4>1
    <3>2. j - i + 1 \in 1 .. Len(calls) - i
          /\ (j - i + 1) + i = j + 1 /\ j + 1 \in 1 .. Len(calls)
      BY <2>2, <2>9, <2>6
    <3>3. tail[j - i + 1] = calls[j + 1]
      BY <2>4, <3>2
    <3> QED BY <3>1, <3>2, <3>3
  <2>10. j \in Int /\ i \in Int
    BY <1>2
  <2> QED BY <2>8, <2>9, <2>10
<1> QED BY <1>1, <1>2, <1>3 DEF SoundSeq

(* A step that sends nothing and answers nothing keeps the queue sound.    *)
LEMMA SoundStill ==
  ASSUME Work, UNCHANGED calls
  PROVE  SoundSeq(calls')
BY DEF Work, Addressed

----------------------------------------------------------------------------
(* internal_claimant_approval is within Steps, as long as a bounty for one *)
(* claimant is New when it runs.                                           *)
LEMMA ApproveHires ==
  ASSUME Work, NEW k \in ClaimKey, NEW c \in Claim,
         NEW delayed \in Deferments \cup {Nil},
         ~Shared(k[1]) => Status(k[1]) = "New",
         ApproveClaimant(k, c, delayed)
  PROVE  Steps
<1> DEFINE b == bounties[k[1]]
           approved ==
             [ClaimOnApproval(b, k, c) EXCEPT !.kyc_delayed = delayed]
<1>1. /\ k[1] \in BountyId /\ b \in Bounty
      /\ bounties \in [BountyId -> Bounty] /\ claims \in [ClaimKey -> Claim]
  BY KeyType DEF Work, Shape, TypeOK
<1>2. bounties' = [bounties EXCEPT ![k[1]] = BountyOnApproval(b, k, c.slot)]
  BY DEF ApproveClaimant
<1>3. /\ claims'[k] = approved
      /\ \A j \in ClaimKey :
           j # k /\ j \notin Released(b, k, c.slot) => claims'[j] = claims[j]
  BY Zenon DEF ApproveClaimant
<1>4. \A j \in Released(b, k, c.slot) : j[1] = k[1]
  BY DEF Released, ReadyBut, ClaimsOf
<1>5. Apart(k[1])
  BY <1>1, <1>2, <1>3, <1>4 DEF Apart, Status
<1>6. ASSUME ~Shared(k[1])
      PROVE  Hires(k)
  <2>1. Status(k[1]) = "New" /\ b.status = "New" /\ b.terms.mode = "None"
    BY <1>6 DEF Shared, Status, Mode
  <2>2. StatusOnApproval(b, k, c.slot) = "Claimed"
    BY <2>1 DEF StatusOnApproval
  <2>3. BountyOnApproval(b, k, c.slot) = [b EXCEPT !.status = "Claimed"]
    BY <2>1, <2>2, Zenon DEF BountyOnApproval
  <2>4. bounties'[k[1]].status = "Claimed"
    BY <1>1, <1>2, <2>3 DEF Bounty
  <2>5. Others(k)
    <3>1. Released(b, k, c.slot) = {}
      BY <2>1 DEF Released
    <3> QED BY <1>3, <3>1 DEF Others
  <2>6. approved.status \in {"Completed", "InProgress"}
    <3>1. PICK f : ClaimOnApproval(b, k, c) =
                     [c EXCEPT !.status = ApprovedStatus(b), !.start_time = f]
      BY <2>1, <2>2, Zenon DEF ClaimOnApproval
    <3>2. ClaimOnApproval(b, k, c).status = ApprovedStatus(b)
          /\ approved.status = ClaimOnApproval(b, k, c).status
      BY <3>1, Zenon DEF Claim
    <3>3. ApprovedStatus(b) \in {"Completed", "InProgress"}
      BY <2>1 DEF ApprovedStatus
    <3> QED BY <3>2, <3>3
  <2> HIDE DEF approved
  <2> QED BY <1>3, <2>1, <2>4, <2>5, <2>6 DEF Hires, Active
<1> QED BY <1>1, <1>5, <1>6, Elsewhere DEF Step

(* So is internal_create_claim, which approves where no approval is asked  *)
(* for.                                                                    *)
LEMMA CreateSteps ==
  ASSUME Work, NEW k \in ClaimKey, NEW deadline \in Nat \cup {Nil},
         NEW slot \in Places \cup {Nil}, NEW proposal \in BOOLEAN,
         NEW attached,
         ~Shared(k[1]) => Status(k[1]) = "New",
         CreateClaim(k, deadline, slot, proposal, attached)
  PROVE  Steps
<1> DEFINE c == [NoClaim EXCEPT !.status = "New", !.deadline = deadline,
                                !.slot = slot, !.bond = config.bond,
                                !.approve_proposal = proposal]
<1>1. /\ NoClaim \in Claim /\ "New" \in ClaimStatus /\ config.bond \in Nat
  BY DEF NoClaim, Claim, ClaimStatus, Work, Shape, TypeOK, Config
<1>2. c \in Claim /\ c.status = "New"
  BY <1>1, Zenon DEF Claim
<1>3. \/ ApproveClaimant(k, c, Nil)
      \/ claims' = [claims EXCEPT ![k] = c] /\ UNCHANGED bounties
  BY Zenon DEF CreateClaim
<1> HIDE DEF c
<1>4. CASE ApproveClaimant(k, c, Nil)
  BY <1>2, <1>4, ApproveHires
<1>5. CASE claims' = [claims EXCEPT ![k] = c] /\ UNCHANGED bounties
  <2>1. Apart(k[1]) /\ Others(k)
    BY <1>5, ApartAt
  <2>2. claims'[k].status = "New"
    BY <1>2, <1>5 DEF Work, Shape, TypeOK
  <2>3. ~Shared(k[1]) => claims[k].status \notin Active
    BY LoneClaim DEF Lone, ClaimsOf
  <2>4. ~Shared(k[1]) => Quiet(k[1])
    BY <1>5, <2>1, <2>2, <2>3 DEF Quiet, Others, Active, Status
  <2> QED BY <2>1, <2>4, Elsewhere, KeyType DEF Step
<1> QED BY <1>3, <1>4, <1>5

(* check_if_allowed_to_create_claim_by_status sees to it that a bounty for *)
(* one claimant is New.                                                    *)
LEMMA MayCreateNew ==
  ASSUME NEW id, NEW who, NEW slot, MayCreateClaim(id, who, slot)
  PROVE  ~Shared(id) => Status(id) = "New"
BY DEF MayCreateClaim, OpenStatuses, Shared, Status, Mode

(* So does check_if_allowed_to_approve_claim_by_status.                    *)
LEMMA MayDecideNew ==
  ASSUME NEW k, MayDecide(k)
  PROVE  ~Shared(k[1]) => Status(k[1]) = "New"
BY DEF MayDecide, OpenStatuses, Shared, Status, Mode

(* internal_add_proposal_and_create_claim is within Steps: the status was  *)
(* checked, or it asks the validators DAO first.                           *)
LEMMA ProposeOrCreateSteps ==
  ASSUME Work, Shape', NEW q, SoundSeq(q), NEW k \in ClaimKey,
         NEW deadline \in Nat \cup {Nil}, NEW slot \in Places \cup {Nil},
         NEW attached,
         ProposeOrCreateClaim(q, k, deadline, slot, attached),
         \/ /\ bounties[k[1]].terms.dao
            /\ ApprovalRequired(k[2], bounties[k[1]].terms)
         \/ ~Shared(k[1]) => Status(k[1]) = "New"
  PROVE  Steps /\ SoundSeq(calls')
<1> DEFINE asks == /\ bounties[k[1]].terms.dao
                   /\ ApprovalRequired(k[2], bounties[k[1]].terms)
           call == [kind |-> "addClaimantProposal", claim |-> k,
                    deadline |-> deadline, slot |-> slot]
<1>1. CASE asks
  <2>1. Send(q, call) /\ UNCHANGED <<bounties, claims>>
    BY <1>1, Zenon DEF ProposeOrCreateClaim, Propose
  <2>2. Sound(call)
    BY DEF Sound
  <2> HIDE DEF call
  <2> QED BY <2>1, <2>2, SoundSent, Untouched
<1>2. CASE ~asks
  <2>1. CreateClaim(k, deadline, slot, FALSE, attached) /\ calls' = q
    BY <1>2, Zenon DEF ProposeOrCreateClaim
  <2>2. FALSE \in BOOLEAN
    OBVIOUS
  <2> QED BY <1>2, <2>1, <2>2, CreateSteps
<1> QED BY <1>1, <1>2

(* internal_claim_done is within Steps: the claim stays active.            *)
LEMMA DoneSteps ==
  ASSUME Work, NEW k \in ClaimKey, NEW proposal \in BOOLEAN,
         ClaimDone(k, proposal)
  PROVE  Steps
<1>1. /\ claims \in [ClaimKey -> Claim] /\ bounties \in [BountyId -> Bounty]
      /\ claims[k] \in Claim /\ k[1] \in BountyId /\ bounties[k[1]] \in Bounty
  BY KeyType DEF Work, Shape, TypeOK
<1>2. PICK p : claims' = [claims EXCEPT ![k] =
                 [claims[k] EXCEPT !.status = "Completed",
                                   !.payout_proposal = p]]
  BY Zenon DEF ClaimDone
<1>3. [claims[k] EXCEPT !.status = "Completed", !.payout_proposal = p].status
        = "Completed"
  BY <1>1, Zenon DEF Claim
<1>4. claims'[k].status = "Completed"
  BY <1>1, <1>2, <1>3
<1> DEFINE moved ==
             /\ \/ UNCHANGED bounties
                \/ \E b : bounties' = [bounties EXCEPT ![k[1]] = b]
             /\ bounties'[k[1]].status = Status(k[1])
<1>5. ASSUME bounties[k[1]].terms.mode = "DifferentTasks"
      PROVE  moved
  <2>1. PICK d, o : d = bounties[k[1]].completed \cup {claims[k].slot}
                    /\ o = (bounties[k[1]].proposal_id \/ proposal)
    OBVIOUS
  <2> DEFINE e == [bounties[k[1]] EXCEPT !.completed = d, !.proposal_id = o]
  <2>2. bounties' = [bounties EXCEPT ![k[1]] = e]
    BY <1>1, <1>5, <2>1, Zenon DEF ClaimDone
  <2>3. e.status = bounties[k[1]].status
    BY <1>1, Zenon DEF Bounty
  <2> HIDE DEF e
  <2>4. bounties'[k[1]].status = Status(k[1])
    BY <1>1, <2>2, <2>3 DEF Status
  <2> QED BY <2>2, <2>4
<1>6. ASSUME bounties[k[1]].terms.mode # "DifferentTasks"
      PROVE  moved
  BY <1>6 DEF ClaimDone, Status
<1>7. moved
  BY <1>5, <1>6
<1>8. Apart(k[1]) /\ Others(k)
  BY <1>2, <1>7, ApartAt
<1>9. ~Shared(k[1]) => claims[k].status \in Active
  BY LoneClaim DEF ClaimDone, Active
<1>10. bounties'[k[1]].status = Status(k[1])
  BY <1>7
<1>11. claims'[k].status \in Active
  BY <1>4 DEF Active
<1> HIDE DEF moved
<1> QED BY <1>8, <1>9, <1>10, <1>11, StaysActive

(* So is internal_add_proposal_and_update_claim.                           *)
LEMMA ProposeOrFinishSteps ==
  ASSUME Work, Shape', NEW q, SoundSeq(q), NEW k \in ClaimKey,
         ProposeOrFinish(q, k)
  PROVE  Steps /\ SoundSeq(calls')
<1> DEFINE call == [kind |-> "addPayoutProposal", claim |-> k]
<1>1. \/ Send(q, call) /\ UNCHANGED <<bounties, claims>>
      \/ ClaimDone(k, FALSE) /\ calls' = q
  BY Zenon DEF ProposeOrFinish, Propose
<1>2. Sound(call) /\ FALSE \in BOOLEAN
  BY DEF Sound
<1> HIDE DEF call
<1> QED BY <1>1, <1>2, SoundSent, Untouched, DoneSteps

(* internal_bounty_payout completes the bounty or sends a sound promise.   *)
LEMMA PayoutSteps ==
  ASSUME Work, Shape', NEW q, SoundSeq(q), NEW id \in BountyId, NEW k,
         \/ k \in ClaimKey /\ k[1] = id
         \/ k = Nil /\ Shared(id),
         NEW place, Payout(q, id, k, place)
  PROVE  Steps /\ SoundSeq(calls')
<1> DEFINE amounts == AmountsForPayment(bounties[id], place)
           call == [kind |-> "payout", id |-> id, claim |-> k,
                    amounts |-> amounts, place |-> place]
<1>1. \/ /\ MayComplete(id, k, amounts, place)
         /\ Complete(id, k, amounts, place)
         /\ calls' = q
      \/ Send(q, call) /\ UNCHANGED <<bounties, claims, bonds, fees>>
  BY Zenon DEF Payout
<1> HIDE DEF amounts
<1>2. Sound(call)
  BY DEF Sound
<1> HIDE DEF call
<1> QED BY <1>1, <1>2, CompleteEnds, SoundSent, Untouched

(* internal_reject_claim leaves the claim Rejected, which is active, or    *)
(* ends it.                                                                *)
LEMMA RejectSteps ==
  ASSUME Work, NEW k \in ClaimKey, claims[k].status \in Active,
         RejectClaim(k)
  PROVE  Steps
<1>1. \/ /\ claims' = [claims EXCEPT ![k] =
              [claims[k] EXCEPT !.status = "Rejected", !.rejected_at = now]]
         /\ UNCHANGED <<bounties, bonds>>
      \/ ResetBounty(k, "NotCompleted", TRUE)
  BY Zenon DEF RejectClaim
<1>2. CASE /\ claims' = [claims EXCEPT ![k] =
                [claims[k] EXCEPT !.status = "Rejected", !.rejected_at = now]]
           /\ UNCHANGED <<bounties, bonds>>
  <2>1. claims \in [ClaimKey -> Claim] /\ claims[k] \in Claim
    BY DEF Work, Shape, TypeOK
  <2>2. [claims[k] EXCEPT !.status = "Rejected", !.rejected_at = now].status
          = "Rejected"
    BY <2>1, Zenon DEF Claim
  <2>3. claims'[k].status \in Active
    BY <1>2, <2>1, <2>2 DEF Active
  <2>4. Apart(k[1]) /\ Others(k)
    BY <1>2, ApartAt
  <2> QED BY <1>2, <2>3, <2>4, StaysActive DEF Status
<1>3. CASE ResetBounty(k, "NotCompleted", TRUE)
  BY <1>3, ResetEnds DEF Over
<1> QED BY <1>1, <1>2, <1>3

(* The result of a dispute ends the claim, returns it on a bounty of       *)
(* several tasks, or pays it.                                              *)
LEMMA SettleSteps ==
  ASSUME Work, Shape', NEW q, SoundSeq(q), NEW k \in ClaimKey,
         claims[k].status = "Disputed", NEW success,
         SettleDispute(q, k, success)
  PROVE  Steps /\ SoundSeq(calls')
<1>1. \/ ResetBounty(k, "NotCompleted", TRUE) /\ calls' = q
      \/ /\ bounties[k[1]].terms.mode = "DifferentTasks"
         /\ ReturnedAfterDispute(k) /\ calls' = q
      \/ Payout(q, k[1], k, Nil)
  BY Zenon DEF SettleDispute
<1>2. CASE ResetBounty(k, "NotCompleted", TRUE) /\ calls' = q
  BY <1>2, ResetEnds DEF Over, Active
<1>3. CASE /\ bounties[k[1]].terms.mode = "DifferentTasks"
           /\ ReturnedAfterDispute(k) /\ calls' = q
  <2>1. Shared(k[1])
    BY <1>3, LoneClaim DEF Mode
  <2>2. /\ UNCHANGED bounties
        /\ claims' = [claims EXCEPT ![k] =
             [claims[k] EXCEPT !.status = "CompletedWithDispute"]]
    BY <1>3, Zenon DEF ReturnedAfterDispute
  <2>3. Apart(k[1])
    BY <2>2, ApartAt
  <2> QED BY <1>3, <2>1, <2>3, OnlyShared
<1>4. CASE Payout(q, k[1], k, Nil)
  BY <1>4, PayoutSteps, KeyType
<1> QED BY <1>1, <1>2, <1>3, <1>4

(* internal_bounty_cancellation is within Steps even when a claimant was   *)
(* hired while the refund was out.                                         *)
LEMMA CancelSteps ==
  ASSUME Work, NEW id \in BountyId, Status(id) # "Absent",
         Cancellation(id), UNCHANGED claims
  PROVE  Steps
<1>1. PICK s : /\ bounties' = [bounties EXCEPT ![id] =
                                 [bounties[id] EXCEPT !.status = s]]
               /\ s = IF Status(id) = "AwaitingClaims"
                      THEN "PartiallyCompleted" ELSE "Canceled"
  BY Zenon DEF Cancellation, Status
<1>2. bounties \in [BountyId -> Bounty] /\ bounties[id] \in Bounty
  BY DEF Work, Shape, TypeOK
<1>3. bounties'[id].status = s
  BY <1>1, <1>2 DEF Bounty
<1>4. ~Shared(id) => s = "Canceled"
  BY <1>1 DEF Work, Alone, Lone
<1>5. ~Shared(id) => Quiet(id)
  BY <1>3, <1>4 DEF Quiet, Active
<1>6. Apart(id)
  BY <1>1, <1>2 DEF Apart, Status
<1> QED BY <1>5, <1>6, Elsewhere DEF Step

(* internal_slot_finalize concerns bounties of several tasks only.         *)
LEMMA SlotSteps ==
  ASSUME Work, NEW k \in ClaimKey, Shared(k[1]), NEW slot,
         SlotFinalize(k, slot)
  PROVE  Steps
<1>1. /\ CloseClaim(k, "Approved", TRUE)
      /\ \E b : bounties' = [bounties EXCEPT ![k[1]] = b]
  BY DEF SlotFinalize
<1>2. Apart(k[1])
  BY <1>1, ClosedClaim, ApartAt
<1> QED BY <1>2, OnlyShared

----------------------------------------------------------------------------
(* A step that leaves bounties, claims and promises alone.                 *)
LEMMA QuietSteps ==
  ASSUME Work, UNCHANGED bounties, UNCHANGED claims, UNCHANGED calls
  PROVE  Steps /\ SoundSeq(calls')
BY Untouched, SoundStill

(* The clock and the administrator's calls.                                *)
LEMMA TickSteps ==
  ASSUME Work, Tick \/ change_config \/ withdraw_non_refunded_bonds
  PROVE  Steps /\ SoundSeq(calls')
BY QuietSteps DEF Tick, change_config, withdraw_non_refunded_bonds

(* The withdrawals of the fees.                                            *)
LEMMA FeeSteps ==
  ASSUME Work, Shape', withdraw_platform_fee \/ withdraw_validators_dao_fee
  PROVE  Steps /\ SoundSeq(calls')
<1>1. PICK available, platform : SendFees(available, platform)
  BY DEF withdraw_platform_fee, withdraw_validators_dao_fee
<1> DEFINE call == [kind |-> "fees", amount |-> available,
                    platform |-> platform]
<1>2. Send(calls, call) /\ UNCHANGED bounties /\ UNCHANGED claims
  BY <1>1 DEF SendFees
<1>3. Sound(call) /\ SoundSeq(calls)
  BY DEF Sound, Work, Addressed
<1> HIDE DEF call
<1> QED BY <1>2, <1>3, SoundSent, Untouched

(* ft_on_transfer and bounty_create: a bounty without claims.              *)
LEMMA BirthSteps ==
  ASSUME Work, NEW id \in BountyId, NEW t \in Offers,
         ft_on_transfer(id, t) \/ bounty_create(id, t)
  PROVE  Steps /\ SoundSeq(calls')
<1> DEFINE b == NewBounty(t, config)
<1>1. /\ Status(id) = "Absent"
      /\ bounties' = [bounties EXCEPT ![id] = b]
      /\ UNCHANGED claims /\ UNCHANGED calls
  BY DEF ft_on_transfer, bounty_create, AddBounty, Status
<1>2. b.status = "New"
  BY Zenon DEF NewBounty, NoBounty
<1> HIDE DEF b
<1>3. bounties'[id].status = "New" /\ Apart(id)
  BY <1>1, <1>2 DEF Work, Shape, TypeOK, Apart, Status
<1>4. Quiet(id)
  BY <1>1, <1>3 DEF Quiet, Active
<1> QED BY <1>1, <1>3, <1>4, Elsewhere, SoundStill DEF Step

(* bounty_cancel, with or without a refund.                                *)
LEMMA CancelCallSteps ==
  ASSUME Work, Shape', NEW id \in BountyId, bounty_cancel(id)
  PROVE  Steps /\ SoundSeq(calls')
<1> DEFINE call == [kind |-> "refund", id |-> id,
                    amount |-> AmountToOwner(bounties[id])]
<1>1. /\ UNCHANGED claims
      /\ \/ Cancellation(id) /\ UNCHANGED calls
         \/ Send(calls, call) /\ UNCHANGED bounties
  BY Zenon DEF bounty_cancel
<1>0. Status(id) # "Absent"
  BY DEF bounty_cancel, Status
<1>2. Sound(call) /\ SoundSeq(calls)
  BY <1>0 DEF Sound, Work, Addressed
<1> HIDE DEF call
<1> QED BY <1>0, <1>1, <1>2, CancelSteps, SoundStill, SoundSent, Untouched

(* start_competition concerns contests only.                               *)
LEMMA StartSteps ==
  ASSUME Work, NEW id \in BountyId, start_competition(id)
  PROVE  Steps /\ SoundSeq(calls')
<1>1. Shared(id)
  BY DEF start_competition, Shared, Status, Mode
<1>2. /\ UNCHANGED claims /\ UNCHANGED calls
      /\ bounties' = [bounties EXCEPT ![id] =
            [bounties[id] EXCEPT !.started_at = now, !.finished_at = Nil,
                                 !.status = "ManyClaimed"]]
  BY Zenon DEF start_competition
<1>3. Apart(id)
  BY <1>2 DEF Work, Shape, TypeOK, Apart, Status
<1> QED BY <1>1, <1>2, <1>3, Elsewhere, SoundStill

(* bounty_update changes no status.                                        *)
LEMMA UpdateSteps ==
  ASSUME Work, NEW id \in BountyId, NEW u \in Updates, bounty_update(id, u)
  PROVE  Steps /\ SoundSeq(calls')
<1>1. PICK t, a : bounties' = [bounties EXCEPT ![id] =
                     [bounties[id] EXCEPT !.terms = t, !.amount = a]]
  BY Zenon DEF bounty_update
<1>2. bounties \in [BountyId -> Bounty] /\ bounties[id] \in Bounty
  BY DEF Work, Shape, TypeOK
<1>3. [bounties[id] EXCEPT !.terms = t, !.amount = a].status
        = bounties[id].status
  BY <1>2, Zenon DEF Bounty
<1>4. \A i \in BountyId : bounties'[i].status = Status(i)
  BY <1>1, <1>2, <1>3 DEF Status
<1>5. UNCHANGED claims /\ UNCHANGED calls
  BY DEF bounty_update
<1> QED BY <1>4, <1>5, StatusesStay, SoundStill

(* bounty_claim asks the KYC contract or the DAO, or creates the claim.    *)
LEMMA ClaimSteps ==
  ASSUME Work, Shape', NEW id \in BountyId, NEW who \in Claimants,
         NEW deadline \in Deadlines, NEW slot \in Places \cup {Nil},
         bounty_claim(who, id, deadline, slot)
  PROVE  Steps /\ SoundSeq(calls')
<1> DEFINE k == NextKey(id, who)
           call == [kind |-> "kyc", claim |-> k, place |-> "CreatingClaim",
                    deadline |-> deadline, slot |-> slot, delayed |-> Nil]
<1>1. /\ k \in ClaimKey /\ k[1] = id
      /\ ~Shared(id) => Status(id) = "New"
  BY MayCreateNew, MayCreateClaimFacts DEF bounty_claim, Work
<1>2. \/ Send(calls, call) /\ UNCHANGED <<bounties, claims>>
      \/ ProposeOrCreateClaim(calls, k, deadline, slot, config.bond)
  BY Zenon DEF bounty_claim
<1>3. Sound(call) /\ SoundSeq(calls) /\ deadline \in Nat \cup {Nil}
  BY BountiesAssumption DEF Sound, Work, Addressed
<1> HIDE DEF k, call
<1>4. CASE Send(calls, call) /\ UNCHANGED <<bounties, claims>>
  BY <1>3, <1>4, SoundSent, Untouched
<1>5. CASE ProposeOrCreateClaim(calls, k, deadline, slot, config.bond)
  BY <1>1, <1>3, <1>5, ProposeOrCreateSteps
<1> QED BY <1>2, <1>4, <1>5

(* Asking the DAO for its vote sends a sound promise.                      *)
LEMMA AskSteps ==
  ASSUME Work, Shape', NEW id, NEW k, AskPayoutProposal(id, k),
         \/ k \in ClaimKey /\ k[1] = id
         \/ k = Nil /\ Shared(id)
  PROVE  Steps /\ SoundSeq(calls')
<1> DEFINE call == [kind |-> "checkPayoutProposal", id |-> id, claim |-> k]
<1>1. Send(calls, call) /\ UNCHANGED bounties /\ UNCHANGED claims
  BY DEF AskPayoutProposal
<1>2. Sound(call) /\ SoundSeq(calls)
  BY DEF Sound, Work, Addressed
<1> HIDE DEF call
<1> QED BY <1>1, <1>2, SoundSent, Untouched

(* The calls that name a bounty and no claim of it.                        *)
LEMMA OnBountySteps ==
  ASSUME Work, Shape', NEW id \in BountyId, OnBounty(id)
  PROVE  Steps /\ SoundSeq(calls')
<1>1. ASSUME NEW sender, bounty_approve_of_several(sender, id)
      PROVE  Steps /\ SoundSeq(calls')
  <2>1. Shared(id)
    BY <1>1 DEF bounty_approve_of_several, Shared, Status, Mode, Running
  <2>2. Payout(calls, id, Nil, Nil) /\ SoundSeq(calls)
    BY <1>1 DEF bounty_approve_of_several, Work, Addressed
  <2> QED BY <2>1, <2>2, PayoutSteps
<1>2. CASE bounty_finalize_all(id)
  <2>1. Shared(id)
    BY <1>2 DEF bounty_finalize_all, TasksProposed, Shared, Status, Mode
  <2> QED BY <1>2, <2>1, AskSteps DEF bounty_finalize_all
<1>3. CASE return_proposal_bond(id)
  <2>1. UNCHANGED bounties /\ UNCHANGED claims /\ UNCHANGED calls
    BY <1>3 DEF return_proposal_bond
  <2> QED BY <2>1, Untouched, SoundStill
<1> QED BY <1>1, <1>2, <1>3, BirthSteps, CancelCallSteps, StartSteps, UpdateSteps,
        ClaimSteps DEF OnBounty

----------------------------------------------------------------------------
(* A call that does nothing but send a sound promise.                      *)
LEMMA SentSteps ==
  ASSUME Work, Shape', NEW call, Sound(call), Send(calls, call),
         UNCHANGED bounties, UNCHANGED claims
  PROVE  Steps /\ SoundSeq(calls')
<1>1. SoundSeq(calls)
  BY DEF Work, Addressed
<1> QED BY <1>1, SoundSent, Untouched

(* bounty_done, in each of its four outcomes.                              *)
LEMMA BountyDoneSteps ==
  ASSUME Work, Shape', NEW k \in ClaimKey, bounty_done(k)
  PROVE  Steps /\ SoundSeq(calls')
<1> DEFINE call == [kind |-> "kyc", claim |-> k, place |-> "ClaimDone",
                    deadline |-> Nil, slot |-> Nil, delayed |-> Nil]
<1>1. claims[k].status \in {"InProgress", "Competes"}
  BY DEF bounty_done
<1>2. ~Shared(k[1]) => claims[k].status = "InProgress"
  BY <1>1, LoneClaim
<1>3. \/ ResetBounty(k, "Expired", FALSE) /\ UNCHANGED calls
      \/ /\ claims[k].status = "Competes"
         /\ bounties' = [bounties EXCEPT ![k[1]] = Left(bounties[k[1]], k)]
         /\ CloseClaim(k, "NotCompleted", TRUE) /\ UNCHANGED calls
      \/ Send(calls, call) /\ UNCHANGED <<bounties, claims>>
      \/ ProposeOrFinish(calls, k)
  BY Zenon DEF bounty_done
<1>4. Sound(call) /\ SoundSeq(calls)
  BY DEF Sound, Work, Addressed
<1> HIDE DEF call
<1>5. CASE ResetBounty(k, "Expired", FALSE) /\ UNCHANGED calls
  BY <1>2, <1>5, ResetEnds, SoundStill DEF Over, Active
<1>6. CASE /\ claims[k].status = "Competes"
           /\ bounties' = [bounties EXCEPT ![k[1]] = Left(bounties[k[1]], k)]
           /\ CloseClaim(k, "NotCompleted", TRUE) /\ UNCHANGED calls
  BY <1>2, <1>6, CloseIdle, SoundStill DEF Over
<1>7. CASE Send(calls, call) /\ UNCHANGED <<bounties, claims>>
  BY <1>4, <1>7, SentSteps
<1>8. CASE ProposeOrFinish(calls, k)
  BY <1>4, <1>8, ProposeOrFinishSteps
<1> QED BY <1>3, <1>5, <1>6, <1>7, <1>8

(* bounty_give_up, before and after the work has begun.                    *)
LEMMA GiveUpSteps ==
  ASSUME Work, NEW k \in ClaimKey, bounty_give_up(k)
  PROVE  Steps /\ SoundSeq(calls')
<1> DEFINE forgiven == now - StartTime(claims[k], bounties[k[1]])
                         <= config.forgiveness
<1>1. /\ UNCHANGED calls
      /\ \/ /\ claims[k].status \in {"InProgress", "Competes"}
            /\ ResetBounty(k, "Canceled", forgiven)
         \/ /\ claims[k].status # "InProgress"
            /\ \/ UNCHANGED bounties
               \/ bounties' =
                    [bounties EXCEPT ![k[1]] = Left(bounties[k[1]], k)]
            /\ CloseClaim(k, "Canceled", TRUE)
  BY Zenon DEF bounty_give_up
<1>2. \/ claims[k].status \in {"New", "InProgress", "Competes", "ReadyToStart"}
      \/ claims[k].status = "Completed" /\ Mode(k[1]) = "Contest"
  BY DEF bounty_give_up, Mode
<1> HIDE DEF forgiven
<1>3. ~Shared(k[1]) =>
         claims[k].status \in {"New", "InProgress", "ReadyToStart"}
  BY <1>2, LoneClaim
<1>4. CASE /\ claims[k].status \in {"InProgress", "Competes"}
           /\ ResetBounty(k, "Canceled", forgiven)
  <2>1. ~Shared(k[1]) => claims[k].status \in Active
    BY <1>3, <1>4 DEF Active
  <2> QED BY <1>1, <1>4, <2>1, ResetEnds, SoundStill DEF Over
<1>5. CASE /\ claims[k].status # "InProgress"
           /\ \/ UNCHANGED bounties
              \/ bounties' =
                   [bounties EXCEPT ![k[1]] = Left(bounties[k[1]], k)]
           /\ CloseClaim(k, "Canceled", TRUE)
  <2>1. ~Shared(k[1]) => claims[k].status \notin Active
    BY <1>3, <1>5 DEF Active
  <2> QED BY <1>1, <1>5, <2>1, CloseIdle, SoundStill DEF Over
<1> QED BY <1>1, <1>4, <1>5

(* withdraw, paid at once or by a promise.                                 *)
LEMMA WithdrawSteps ==
  ASSUME Work, Shape', NEW k \in ClaimKey, withdraw(k)
  PROVE  Steps /\ SoundSeq(calls')
<1>1. PICK slot : \/ SlotFinalize(k, slot) /\ UNCHANGED calls
                  \/ \E a : /\ Send(calls, [kind |-> "withdraw", claim |-> k,
                                            slot |-> slot, amount |-> a])
                          /\ UNCHANGED <<bounties, claims>>
  BY Zenon DEF withdraw
<1>2. Shared(k[1])
  BY DEF withdraw, Shared, Status, Mode
<1>3. ASSUME NEW a, Send(calls, [kind |-> "withdraw", claim |-> k,
                                 slot |-> slot, amount |-> a]),
             UNCHANGED <<bounties, claims>>
      PROVE  Steps /\ SoundSeq(calls')
  <2>1. Sound([kind |-> "withdraw", claim |-> k, slot |-> slot, amount |-> a])
    BY <1>2 DEF Sound
  <2> QED BY <1>3, <2>1, SentSteps
<1> QED BY <1>1, <1>2, <1>3, SlotSteps, SoundStill

(* open_dispute and dispute_result.                                        *)
LEMMA DisputeSteps ==
  ASSUME Work, Shape', NEW k \in ClaimKey,
         open_dispute(k) \/ \E success \in BOOLEAN : dispute_result(k, success)
  PROVE  Steps /\ SoundSeq(calls')
<1>1. CASE open_dispute(k)
  <2> DEFINE call == [kind |-> "createDispute", claim |-> k]
  <2>1. Send(calls, call) /\ UNCHANGED bounties /\ UNCHANGED claims
    BY <1>1 DEF open_dispute
  <2>2. Sound(call)
    BY DEF Sound
  <2> HIDE DEF call
  <2> QED BY <2>1, <2>2, SentSteps
<1>2. ASSUME NEW success, dispute_result(k, success)
      PROVE  Steps /\ SoundSeq(calls')
  BY <1>2, SettleSteps DEF dispute_result, Work, Addressed
<1> QED BY <1>1, <1>2

(* extend_claim_deadline, mark_as_paid and confirm_payment change no       *)
(* status.                                                                 *)
LEMMA PaymentSteps ==
  ASSUME Work, NEW k \in ClaimKey,
         \/ \E deadline \in Deadlines : extend_claim_deadline(k, deadline)
         \/ \E place \in UsedPlaces(bounties[k[1]]) : mark_as_paid(k, place)
         \/ confirm_payment(k)
  PROVE  Steps /\ SoundSeq(calls')
<1>0. /\ bounties \in [BountyId -> Bounty] /\ claims \in [ClaimKey -> Claim]
      /\ k[1] \in BountyId
  BY KeyType DEF Work, Shape, TypeOK
<1>1. UNCHANGED calls
  BY DEF extend_claim_deadline, mark_as_paid, confirm_payment
<1>2. \/ UNCHANGED claims
      \/ \E d : claims' = [claims EXCEPT ![k].deadline = d]
      \/ claims' = [claims EXCEPT ![k].payment_at = TRUE]
      \/ claims' = [claims EXCEPT ![k].payment_confirmed_at = TRUE]
  BY Zenon DEF extend_claim_deadline, mark_as_paid, confirm_payment
<1>3. \A j \in ClaimKey : claims'[j].status = claims[j].status
  BY <1>0, <1>2 DEF Claim
<1>4. \/ UNCHANGED bounties
      \/ bounties' = [bounties EXCEPT ![k[1]].payment_at = TRUE]
      \/ \E w : bounties' = [bounties EXCEPT ![k[1]].winners = w]
      \/ bounties' = [bounties EXCEPT ![k[1]].payment_confirmed_at = TRUE]
      \/ \E d : bounties' = [bounties EXCEPT ![k[1]].confirmed = d]
  BY DEF extend_claim_deadline, mark_as_paid, confirm_payment
<1>5. \A id \in BountyId : bounties'[id].status = Status(id)
  <2>1. CASE UNCHANGED bounties
    BY <2>1 DEF Status
  <2>2. CASE bounties' = [bounties EXCEPT ![k[1]].payment_at = TRUE]
    BY <1>0, <2>2 DEF Bounty, Status
  <2>3. ASSUME NEW w, bounties' = [bounties EXCEPT ![k[1]].winners = w]
        PROVE  \A id \in BountyId : bounties'[id].status = Status(id)
    BY <1>0, <2>3 DEF Bounty, Status
  <2>4. CASE bounties' = [bounties EXCEPT ![k[1]].payment_confirmed_at = TRUE]
    BY <1>0, <2>4 DEF Bounty, Status
  <2>5. ASSUME NEW d, bounties' = [bounties EXCEPT ![k[1]].confirmed = d]
        PROVE  \A id \in BountyId : bounties'[id].status = Status(id)
    BY <1>0, <2>5 DEF Bounty, Status
  <2> QED BY <1>4, <2>1, <2>2, <2>3, <2>4, <2>5, Zenon
<1> QED BY <1>1, <1>3, <1>5, StatusesStay, SoundStill

(* bounty_finalize of an active claim (internal_finalize_active_claim).    *)
LEMMA FinalizeActiveSteps ==
  ASSUME Work, Shape', NEW k \in ClaimKey, FinalizeActive(k)
  PROVE  Steps /\ SoundSeq(calls')
<1> DEFINE isTask == bounties[k[1]].terms.mode = "DifferentTasks"
           call == [kind |-> "getDispute", claim |-> k]
<1>1. \/ Overdue(k) /\ ResetBounty(k, "Expired", FALSE) /\ UNCHANGED calls
      \/ AwaitsDao(k) /\ AskPayoutProposal(k[1], IF isTask THEN Nil ELSE k)
      \/ /\ claims[k].status = "Rejected"
         /\ ResetBounty(k, "NotCompleted", TRUE) /\ UNCHANGED calls
      \/ Send(calls, call) /\ UNCHANGED <<bounties, claims, bonds>>
  BY Zenon DEF FinalizeActive
<1>2. Sound(call)
  BY DEF Sound
<1> HIDE DEF call
<1>3. CASE Overdue(k) /\ ResetBounty(k, "Expired", FALSE) /\ UNCHANGED calls
  <2>1. ~Shared(k[1]) => claims[k].status \in Active
    BY <1>3, LoneClaim DEF Overdue, Active
  <2> QED BY <1>3, <2>1, ResetEnds, SoundStill DEF Over
<1>4. CASE AwaitsDao(k) /\ AskPayoutProposal(k[1], IF isTask THEN Nil ELSE k)
  <2>1. isTask => Shared(k[1])
    BY <1>4 DEF AwaitsDao, Running, Shared, Status, Mode
  <2>2. PICK j : j = (IF isTask THEN Nil ELSE k)
    OBVIOUS
  <2>3. (j \in ClaimKey /\ j[1] = k[1]) \/ (j = Nil /\ Shared(k[1]))
    BY <2>1, <2>2
  <2>4. AskPayoutProposal(k[1], j)
    BY <1>4, <2>2
  <2> HIDE DEF isTask
  <2> QED BY <2>3, <2>4, AskSteps
<1>5. CASE /\ claims[k].status = "Rejected"
           /\ ResetBounty(k, "NotCompleted", TRUE) /\ UNCHANGED calls
  BY <1>5, ResetEnds, SoundStill DEF Over, Active
<1>6. CASE Send(calls, call) /\ UNCHANGED <<bounties, claims, bonds>>
  BY <1>2, <1>6, SentSteps
<1> QED BY <1>1, <1>3, <1>4, <1>5, <1>6

(* bounty_finalize of a claim that is not active (the rest of              *)
(* internal_finalize_some_claim).                                          *)
LEMMA FinalizeInactiveSteps ==
  ASSUME Work, Shape', NEW k \in ClaimKey, FinalizeInactive(k)
  PROVE  Steps /\ SoundSeq(calls')
<1> DEFINE call == [kind |-> "checkClaimantProposal", claim |-> k]
           s == IF bounties[k[1]].status = "Canceled" THEN "Canceled"
                                                      ELSE "NotCompleted"
<1>1. \/ Send(calls, call) /\ UNCHANGED <<bounties, claims, bonds>>
      \/ /\ claims[k].status = "New" /\ CloseClaim(k, "Canceled", TRUE)
         /\ UNCHANGED <<bounties, calls>>
      \/ /\ \/ Mode(k[1]) = "Contest" /\ Status(k[1]) # "Absent"
            \/ claims[k].status = "ReadyToStart"
         /\ bounties' = [bounties EXCEPT ![k[1]] = Left(bounties[k[1]], k)]
         /\ CloseClaim(k, s, TRUE) /\ UNCHANGED calls
  BY Zenon DEF FinalizeInactive, Mode, Status
<1>2. Sound(call)
  BY DEF Sound
<1>3. s \in Over
  BY DEF Over
<1> HIDE DEF call, s
<1>4. CASE Send(calls, call) /\ UNCHANGED <<bounties, claims, bonds>>
  BY <1>2, <1>4, SentSteps
<1>5. CASE /\ claims[k].status = "New" /\ CloseClaim(k, "Canceled", TRUE)
           /\ UNCHANGED <<bounties, calls>>
  BY <1>5, CloseIdle, SoundStill DEF Over, Active
<1>6. CASE /\ \/ Mode(k[1]) = "Contest" /\ Status(k[1]) # "Absent"
              \/ claims[k].status = "ReadyToStart"
           /\ bounties' = [bounties EXCEPT ![k[1]] = Left(bounties[k[1]], k)]
           /\ CloseClaim(k, s, TRUE) /\ UNCHANGED calls
  <2>1. ~Shared(k[1]) => claims[k].status \notin Active
    BY <1>6 DEF Shared, Active
  <2> QED BY <1>3, <1>6, <2>1, CloseIdle, SoundStill
<1> QED BY <1>1, <1>4, <1>5, <1>6

(* accept_claimant, decline_claimant, bounty_approve, bounty_reject.       *)
LEMMA DecisionSteps ==
  ASSUME Work, Shape', NEW k \in ClaimKey, NEW sender,
         \/ \E delayed \in Deferments \cup {Nil} :
               accept_claimant(sender, k, delayed)
         \/ decline_claimant(sender, k)
         \/ \E place : bounty_approve(sender, k, place)
         \/ bounty_reject(sender, k)
  PROVE  Steps /\ SoundSeq(calls')
<1>0. SoundSeq(calls)
  BY DEF Work, Addressed
<1>1. ASSUME NEW delayed \in Deferments \cup {Nil},
             accept_claimant(sender, k, delayed)
      PROVE  Steps /\ SoundSeq(calls')
  <2> DEFINE call == [kind |-> "kyc", claim |-> k, place |-> "DecisionOnClaim",
                      deadline |-> Nil, slot |-> Nil, delayed |-> Nil]
  <2>1. /\ MayDecide(k)
        /\ \/ Send(calls, call) /\ UNCHANGED <<bounties, claims>>
           \/ ApproveClaimant(k, claims[k], delayed) /\ UNCHANGED calls
    BY <1>1, Zenon DEF accept_claimant
  <2>2. Sound(call)
    BY DEF Sound
  <2> HIDE DEF call
  <2>3. /\ claims[k] \in Claim
        /\ ~Shared(k[1]) => Status(k[1]) = "New"
    BY <2>1, MayDecideFacts, MayDecideNew DEF Work
  <2> QED BY <2>1, <2>2, <2>3, SentSteps, ApproveHires, SoundStill
<1>2. CASE decline_claimant(sender, k)
  <2>1. /\ claims[k].status = "New" /\ CloseClaim(k, "NotHired", TRUE)
        /\ UNCHANGED bounties /\ UNCHANGED calls
    BY <1>2 DEF decline_claimant, DeclineClaimant, MayDecide
  <2> QED BY <2>1, CloseIdle, SoundStill DEF Over, Active
<1>3. ASSUME NEW place, bounty_approve(sender, k, place)
      PROVE  Steps /\ SoundSeq(calls')
  <2>1. Payout(calls, k[1], k, place)
    BY <1>3 DEF bounty_approve
  <2> QED BY <1>0, <2>1, PayoutSteps, KeyType
<1>4. CASE bounty_reject(sender, k)
  <2>1. RejectClaim(k) /\ claims[k].status \in Active /\ UNCHANGED calls
    BY <1>4 DEF bounty_reject, MayReject, Active
  <2> QED BY <2>1, RejectSteps, SoundStill
<1> QED BY <1>1, <1>2, <1>3, <1>4

(* The calls that name a claim.                                            *)
LEMMA OnClaimSteps ==
  ASSUME Work, Shape', NEW k \in ClaimKey, OnClaim(k)
  PROVE  Steps /\ SoundSeq(calls')
<1>1. CASE bounty_finalize(k)
  BY <1>1, FinalizeActiveSteps, FinalizeInactiveSteps DEF bounty_finalize
<1>2. ASSUME NEW sender \in Accounts,
             \/ \E delayed \in Deferments \cup {Nil} :
                   accept_claimant(sender, k, delayed)
             \/ decline_claimant(sender, k)
             \/ \E place \in UsedPlaces(bounties[k[1]]) \cup {Nil} :
                   bounty_approve(sender, k, place)
             \/ bounty_reject(sender, k)
      PROVE  Steps /\ SoundSeq(calls')
  BY <1>2, DecisionSteps
<1> QED BY <1>1, <1>2, BountyDoneSteps, GiveUpSteps, WithdrawSteps,
        DisputeSteps, PaymentSteps DEF OnClaim, ClaimCall

----------------------------------------------------------------------------
(* The callbacks of the transfers to a claimant. The claim and the bounty  *)
(* they act on are those of the promise, and Sound says they belong        *)
(* together.                                                               *)
LEMMA TransferSteps ==
  ASSUME Work, Shape', NEW i \in 1 .. Len(calls),
         after_ft_transfer(i) \/ after_bounty_withdraw(i)
  PROVE  Steps /\ SoundSeq(calls')
<1>0. /\ SoundSeq(Answered(i)) /\ Sound(calls[i])
      /\ calls[i] \in Calls
  BY SoundLeft
<1>1. CASE after_ft_transfer(i)
  <2>1. PICK id, k, amounts, place :
           /\ calls[i].kind = "payout" /\ calls' = Answered(i)
           /\ id = calls[i].id /\ k = calls[i].claim
           /\ amounts = calls[i].amounts /\ place = calls[i].place
           /\ \/ MayComplete(id, k, amounts, place)
                 /\ Complete(id, k, amounts, place)
              \/ UNCHANGED <<bounties, claims, bonds, fees>>
    BY <1>1, Zenon DEF after_ft_transfer
  <2>2. id \in BountyId
    BY <1>0, <2>1, CallFacts
  <2>3. (k \in ClaimKey /\ k[1] = id) \/ (k = Nil /\ Shared(id))
    BY <1>0, <2>1 DEF Sound
  <2>4. Steps
    BY <2>1, <2>2, <2>3, CompleteEnds, Untouched
  <2> QED BY <1>0, <2>1, <2>4
<1>2. CASE after_bounty_withdraw(i)
  <2>1. PICK k, slot :
           /\ calls[i].kind = "withdraw" /\ calls' = Answered(i)
           /\ k = calls[i].claim
           /\ SlotFinalize(k, slot) \/ UNCHANGED <<bounties, claims, bonds>>
    BY <1>2, Zenon DEF after_bounty_withdraw
  <2>2. k \in ClaimKey /\ Shared(k[1])
    BY <1>0, <2>1, CallFacts DEF Sound
  <2>3. Steps
    BY <2>1, <2>2, SlotSteps, Untouched
  <2> QED BY <1>0, <2>1, <2>3
<1> QED BY <1>1, <1>2

(* A callback that fails, and those of the transfers to the owner and to   *)
(* the recipients of the fees.                                             *)
LEMMA OwnersAnswerSteps ==
  ASSUME Work, Shape', NEW i \in 1 .. Len(calls),
         \/ Drop(i) \/ after_fees_payout(i)
         \/ after_refund_bounty_amount(i)
  PROVE  Steps /\ SoundSeq(calls')
<1>0. SoundSeq(Answered(i)) /\ Sound(calls[i]) /\ calls[i] \in Calls
  BY SoundLeft
<1>1. calls' = Answered(i) /\ UNCHANGED claims
  BY DEF Drop, after_fees_payout, after_refund_bounty_amount
<1>2. CASE Drop(i) \/ after_fees_payout(i)
  BY <1>0, <1>1, <1>2, Untouched DEF Drop, after_fees_payout
<1>3. CASE after_refund_bounty_amount(i)
  <2>1. calls[i].id \in BountyId /\ Status(calls[i].id) # "Absent"
    BY <1>0, <1>3, CallFacts DEF after_refund_bounty_amount, Sound
  <2>2. Cancellation(calls[i].id) \/ UNCHANGED bounties
    BY <1>3, Zenon DEF after_refund_bounty_amount
  <2> QED BY <1>0, <1>1, <2>1, <2>2, CancelSteps, Untouched
<1> QED BY <1>2, <1>3

(* after_check_if_whitelisted: each of its three places looks at the       *)
(* status again, or asks the DAO.                                          *)
LEMMA KycAnswerSteps ==
  ASSUME Work, Shape', NEW i \in 1 .. Len(calls), after_check_if_whitelisted(i)
  PROVE  Steps /\ SoundSeq(calls')
<1>0. SoundSeq(Answered(i)) /\ calls[i] \in Calls
  BY SoundLeft
<1>1. PICK k, deadline, slot, delayed :
         /\ k = calls[i].claim /\ deadline = calls[i].deadline
         /\ slot = calls[i].slot /\ delayed = calls[i].delayed
  OBVIOUS
<1>2. /\ k \in ClaimKey /\ deadline \in Nat \cup {Nil}
      /\ slot \in Places \cup {Nil} /\ delayed \in Deferments \cup {Nil}
  BY <1>0, <1>1, CallFacts DEF after_check_if_whitelisted
<1> DEFINE j == NextKey(k[1], k[2])
<1>3. \/ /\ j \in ClaimKey
         /\ \/ /\ bounties[k[1]].terms.dao
               /\ ApprovalRequired(k[2], bounties[k[1]].terms)
            \/ MayCreateClaim(k[1], k[2], slot)
         /\ ProposeOrCreateClaim(Answered(i), j, deadline, slot, 0)
      \/ /\ MayDecide(k) /\ ApproveClaimant(k, claims[k], delayed)
         /\ calls' = Answered(i)
      \/ ProposeOrFinish(Answered(i), k)
  BY <1>1, Zenon DEF after_check_if_whitelisted
<1>4. j[1] = k[1] /\ j[2] = k[2]
  BY DEF NextKey
<1> HIDE DEF j
<1>5. CASE /\ j \in ClaimKey
           /\ \/ /\ bounties[k[1]].terms.dao
                 /\ ApprovalRequired(k[2], bounties[k[1]].terms)
              \/ MayCreateClaim(k[1], k[2], slot)
           /\ ProposeOrCreateClaim(Answered(i), j, deadline, slot, 0)
  <2>1. \/ /\ bounties[j[1]].terms.dao
           /\ ApprovalRequired(j[2], bounties[j[1]].terms)
        \/ ~Shared(j[1]) => Status(j[1]) = "New"
    BY <1>4, <1>5, MayCreateNew
  <2> QED BY <1>0, <1>2, <1>5, <2>1, ProposeOrCreateSteps
<1>6. CASE /\ MayDecide(k) /\ ApproveClaimant(k, claims[k], delayed)
           /\ calls' = Answered(i)
  <2>1. /\ claims[k] \in Claim
        /\ ~Shared(k[1]) => Status(k[1]) = "New"
    BY <1>2, <1>6, MayDecideFacts, MayDecideNew DEF Work
  <2> QED BY <1>0, <1>2, <1>6, <2>1, ApproveHires
<1>7. CASE ProposeOrFinish(Answered(i), k)
  BY <1>0, <1>2, <1>7, ProposeOrFinishSteps
<1> QED BY <1>3, <1>5, <1>6, <1>7

(* The callbacks of the proposals that the DAO has stored.                 *)
LEMMA ProposalSteps ==
  ASSUME Work, Shape', NEW i \in 1 .. Len(calls),
         after_add_proposal(i) \/ on_added_proposal_callback(i)
  PROVE  Steps /\ SoundSeq(calls')
<1>0. SoundSeq(Answered(i)) /\ calls[i] \in Calls
  BY SoundLeft
<1>1. CASE after_add_proposal(i)
  <2>1. PICK k, deadline, slot :
           /\ k = calls[i].claim /\ deadline = calls[i].deadline
           /\ slot = calls[i].slot
    OBVIOUS
  <2> DEFINE j == NextKey(k[1], k[2])
  <2>2. /\ MayCreateClaim(k[1], k[2], slot)
        /\ CreateClaim(j, deadline, slot, TRUE, 0)
        /\ calls' = Answered(i)
    BY <1>1, <2>1 DEF after_add_proposal
  <2>3. /\ k \in ClaimKey /\ deadline \in Nat \cup {Nil}
        /\ slot \in Places \cup {Nil}
    BY <1>0, <1>1, <2>1, CallFacts DEF after_add_proposal
  <2>4. j \in ClaimKey /\ j[1] = k[1]
    BY <2>2 DEF MayCreateClaim, NextKey
  <2>5. ~Shared(j[1]) => Status(j[1]) = "New"
    BY <2>2, <2>4, MayCreateNew
  <2> HIDE DEF j
  <2>6. Steps
    BY <2>2, <2>3, <2>4, <2>5, CreateSteps
  <2> QED BY <1>0, <2>2, <2>6
<1>2. CASE on_added_proposal_callback(i)
  <2>1. calls[i].claim \in ClaimKey
    BY <1>0, <1>2, CallFacts DEF on_added_proposal_callback
  <2>2. Steps
    BY <1>2, <2>1, DoneSteps DEF on_added_proposal_callback
  <2> QED BY <1>0, <1>2, <2>2 DEF on_added_proposal_callback
<1> QED BY <1>1, <1>2

(* The callbacks of the votes of the DAO.                                  *)
LEMMA VoteSteps ==
  ASSUME Work, Shape', NEW i \in 1 .. Len(calls), NEW approved \in BOOLEAN,
         \/ after_check_approve_claimant_proposal(i, approved)
         \/ after_check_bounty_payout_proposal(i, approved)
  PROVE  Steps /\ SoundSeq(calls')
<1>0. /\ SoundSeq(Answered(i)) /\ Sound(calls[i])
      /\ calls[i] \in Calls
  BY SoundLeft
<1>1. CASE after_check_approve_claimant_proposal(i, approved)
  <2>1. PICK k : k = calls[i].claim
    OBVIOUS
  <2>2. k \in ClaimKey
    BY <1>0, <1>1, <2>1, CallFacts DEF after_check_approve_claimant_proposal
  <2>3. /\ \/ MayDecide(k) /\ ApproveClaimant(k, claims[k], Nil)
           \/ DeclineClaimant(k)
        /\ calls' = Answered(i)
    BY <1>1, <2>1 DEF after_check_approve_claimant_proposal
  <2>4. CASE MayDecide(k) /\ ApproveClaimant(k, claims[k], Nil)
    <3>1. /\ claims[k] \in Claim
          /\ ~Shared(k[1]) => Status(k[1]) = "New"
      BY <2>2, <2>4, MayDecideFacts, MayDecideNew DEF Work
    <3> QED BY <1>0, <2>2, <2>3, <2>4, <3>1, ApproveHires
  <2>5. CASE DeclineClaimant(k)
    <3>1. /\ claims[k].status = "New" /\ CloseClaim(k, "NotHired", TRUE)
          /\ UNCHANGED bounties
      BY <2>5 DEF DeclineClaimant, MayDecide
    <3> QED BY <1>0, <2>2, <2>3, <3>1, CloseIdle DEF Over, Active
  <2> QED BY <2>3, <2>4, <2>5
<1>2. CASE after_check_bounty_payout_proposal(i, approved)
  <2>1. PICK id, k :
           /\ calls[i].kind = "checkPayoutProposal"
           /\ id = calls[i].id /\ k = calls[i].claim
           /\ \/ Payout(Answered(i), id, k, Nil)
              \/ /\ k # Nil /\ claims[k].status = "Completed"
                 /\ RejectClaim(k) /\ calls' = Answered(i)
    BY <1>2, Zenon DEF after_check_bounty_payout_proposal
  <2>2. id \in BountyId
    BY <1>0, <2>1, CallFacts
  <2>3. (k \in ClaimKey /\ k[1] = id) \/ (k = Nil /\ Shared(id))
    BY <1>0, <2>1 DEF Sound
  <2>4. CASE Payout(Answered(i), id, k, Nil)
    BY <1>0, <2>2, <2>3, <2>4, PayoutSteps
  <2>5. CASE /\ k # Nil /\ claims[k].status = "Completed"
             /\ RejectClaim(k) /\ calls' = Answered(i)
    BY <1>0, <2>3, <2>5, RejectSteps DEF Active
  <2> QED BY <2>1, <2>4, <2>5
<1> QED BY <1>1, <1>2

(* after_create_dispute and after_get_dispute.                             *)
LEMMA DisputeAnswerSteps ==
  ASSUME Work, Shape', NEW i \in 1 .. Len(calls),
         \/ after_create_dispute(i)
         \/ \E success \in BOOLEAN : after_get_dispute(i, success)
  PROVE  Steps /\ SoundSeq(calls')
<1>0. SoundSeq(Answered(i)) /\ calls[i] \in Calls
  BY SoundLeft
<1>1. PICK k : k = calls[i].claim
  OBVIOUS
<1>2. k \in ClaimKey
  BY <1>0, <1>1, CallFacts DEF after_create_dispute, after_get_dispute
<1>3. CASE after_create_dispute(i)
  <2>1. /\ claims[k].status = "Rejected" /\ UNCHANGED bounties
        /\ claims' = [claims EXCEPT ![k] =
                        [claims[k] EXCEPT !.status = "Disputed"]]
        /\ calls' = Answered(i)
    BY <1>1, <1>3, Zenon DEF after_create_dispute
  <2>2. claims \in [ClaimKey -> Claim] /\ claims[k] \in Claim
    BY <1>2 DEF Work, Shape, TypeOK
  <2>3. claims'[k].status = "Disputed"
    BY <1>2, <2>1, <2>2 DEF Claim
  <2>4. Apart(k[1]) /\ Others(k)
    BY <1>2, <2>1, ApartAt
  <2>5. Steps
    BY <1>2, <2>1, <2>3, <2>4, StaysActive DEF Active, Status
  <2> QED BY <1>0, <2>1, <2>5
<1>4. ASSUME NEW success \in BOOLEAN, after_get_dispute(i, success)
      PROVE  Steps /\ SoundSeq(calls')
  <2>1. claims[k].status = "Disputed" /\ SettleDispute(Answered(i), k, success)
    BY <1>1, <1>4 DEF after_get_dispute
  <2> QED BY <1>0, <1>2, <2>1, SettleSteps
<1> QED BY <1>3, <1>4

(* Every callback.                                                         *)
LEMMA AnswerSteps ==
  ASSUME Work, Shape', NEW i \in 1 .. Len(calls), Answer(i)
  PROVE  Steps /\ SoundSeq(calls')
BY OwnersAnswerSteps, TransferSteps, KycAnswerSteps, ProposalSteps, VoteSteps,
   DisputeAnswerSteps DEF Answer

----------------------------------------------------------------------------
(* Work holds in the initial state.                                        *)
LEMMA InitWork == Init => Work
<1> SUFFICES ASSUME Init PROVE Work
  OBVIOUS
<1>1. Shape
  BY InitShape
<1>2. ASSUME NEW id \in BountyId
      PROVE  Lone(id)
  <2>1. /\ Status(id) = "Absent"
        /\ \A k \in ClaimKey : claims[k].status = "Absent"
    BY DEF Init, Status, NoBounty, NoClaim
  <2> QED BY <2>1 DEF Lone, ClaimsOf, Active
<1>3. Addressed
  BY DEF Init, Addressed, SoundSeq
<1> QED BY <1>1, <1>2, <1>3 DEF Work, Alone

(* Every step does to the bounties for one claimant what Steps says, and   *)
(* keeps Work.                                                             *)
LEMMA NextSteps ==
  ASSUME Work, [Next]_vars
  PROVE  Work' /\ Steps /\ BountiesMove
<1>1. Shape' /\ BountiesMove
  BY NextShape DEF Work
<1>2. CASE Next
  <2>1. Steps /\ SoundSeq(calls')
    BY <1>1, <1>2, TickSteps, FeeSteps, OnBountySteps, OnClaimSteps,
       AnswerSteps DEF Next
  <2> QED BY <1>1, <2>1, WorkKept
<1>3. CASE UNCHANGED vars
  <2>1. Steps /\ SoundSeq(calls')
    BY <1>3, QuietSteps DEF vars
  <2> QED BY <1>1, <2>1, WorkKept
<1> QED BY <1>2, <1>3

LEMMA NextWork == Work /\ [Next]_vars => Work'
BY NextSteps

(* Work has both properties of the bounties for one claimant.              *)
LEMMA WorkHires == Work => OneWorker /\ ClaimedWhenActive
<1> SUFFICES ASSUME Work PROVE OneWorker /\ ClaimedWhenActive
  OBVIOUS
<1>1. ASSUME NEW id \in BountyId, HasMode(id, "None")
      PROVE  Lone(id)
  BY <1>1 DEF HasMode, Work, Alone, Shared
<1>2. OneWorker
  <2>1. ASSUME NEW j \in ClaimKey, NEW k \in ClaimKey, j[1] = k[1],
               HasMode(k[1], "None"),
               claims[j].status \in Active, claims[k].status \in Active
        PROVE  j = k
    <3>1. Lone(k[1])
      BY <1>1, <2>1, KeyType
    <3> QED BY <2>1, <3>1 DEF Lone, ClaimsOf
  <2> QED BY <2>1 DEF OneWorker
<1>3. ClaimedWhenActive
  BY <1>1 DEF ClaimedWhenActive, Lone
<1> QED BY <1>2, <1>3

(* A bounty for one claimant never has two active claims at once, for      *)
(* every number of bounties, accounts, claims and promises:                *)
(* internal_find_active_claim never has a choice, and a transfer, a vote,  *)
(* a KYC answer or a dispute result that comes late never leaves a second  *)
(* claimant at work.                                                       *)
THEOREM OneWorkerAlways == Spec => []OneWorker
<1>1. Work => OneWorker
  BY WorkHires
<1> QED BY <1>1, InitWork, NextWork, PTL DEF Spec

(* Such a bounty is Claimed exactly while it has an active claim, unless   *)
(* it was cancelled: the status the owner sees and the statuses of the     *)
(* claims, which no handler compares, never disagree.                      *)
THEOREM ClaimedWhenActiveAlways == Spec => []ClaimedWhenActive
<1>1. Work => ClaimedWhenActive
  BY WorkHires
<1> QED BY <1>1, InitWork, NextWork, PTL DEF Spec

=============================================================================
