SPECIFICATION Spec
CONSTANTS
  Nil = Nil
  owner = owner
  alice = alice
  bob = bob
  dao = dao
  DAO = dao
  Accounts <- MCAccounts
  BountyId <- Ids1
  Claimants <- MCClaimants
  MaxClaims = 1
  MaxSlots = 2
  Offers <- ServiceOffers
  Configs <- OneConfig
  FirstConfig <- Config1
  Deadlines = {0}
  Updates <- NoUpdates
  HasDisputes = TRUE
  MaxTime = 1
  MaxCalls = 2
  MaxNear = 3
SYMMETRY Symmetry
INVARIANTS BondsBacked OneWorker SlotsHeld
PROPERTIES ClaimLifecycle
CHECK_DEADLOCK FALSE
