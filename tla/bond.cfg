SPECIFICATION Spec
CONSTANTS
  Nil = Nil
  owner = owner
  alice = alice
  bob = bob
  dao = dao
  DAO = dao
  Accounts <- MCAccounts
  BountyId <- Ids1
  Claimants <- MCClaimants
  MaxClaims = 1
  MaxSlots = 2
  Offers <- KycOffers
  Configs <- TwoConfigs
  FirstConfig <- Config1
  Deadlines = {0}
  Updates <- NoUpdates
  HasDisputes = FALSE
  MaxTime = 0
  MaxCalls = 1
  MaxNear = 3
INVARIANTS BondsBacked
CHECK_DEADLOCK FALSE
