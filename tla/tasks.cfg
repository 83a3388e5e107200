SPECIFICATION Spec
CONSTANTS
  Nil = Nil
  owner = owner
  alice = alice
  bob = bob
  dao = dao
  DAO = dao
  Accounts <- MCAccounts
  BountyId <- Ids1
  Claimants <- MCClaimants
  MaxClaims = 2
  MaxSlots = 2
  Offers <- TaskOffers
  Configs <- TwoConfigs
  FirstConfig <- Config1
  Deadlines = {0}
  Updates <- NoUpdates
  HasDisputes = TRUE
  MaxTime = 0
  MaxCalls = 2
  MaxNear = 2
SYMMETRY Symmetry
INVARIANTS SlotsHeld AcceptedTogether BondsLocked
CHECK_DEADLOCK FALSE
