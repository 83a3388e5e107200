SPECIFICATION FairSpec
CONSTANTS
  Nil = Nil
  owner = owner
  alice = alice
  bob = bob
  dao = dao
  DAO = dao
  Accounts <- MCAccounts
  BountyId <- Ids1
  Id = 0
  Claimants <- MCClaimants
  MaxClaims = 1
  MaxSlots = 1
  Offers <- SingleOffers
  Configs <- OneConfig
  FirstConfig <- Config1
  Deadlines = {Nil}
  Updates <- NoUpdates
  HasDisputes = TRUE
  MaxTime = 2
  MaxCalls = 2
  MaxNear = 3
INVARIANTS OneWorker ClaimedWhenActive BondsLocked
PROPERTIES BountyIsHiring ClaimLifecycle OverIsOver OverdueEnds LosersReleased
CHECK_DEADLOCK FALSE
