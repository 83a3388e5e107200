SPECIFICATION Spec
CONSTANTS
  Nil = Nil
  owner = owner
  alice = alice
  bob = bob
  dao = dao
  DAO = dao
  Accounts <- MCAccounts
  BountyId <- Ids2
  Claimants <- MCClaimants
  MaxClaims = 1
  MaxSlots = 2
  Offers <- ContestOnly
  Configs <- OneConfig
  FirstConfig <- Config1
  Deadlines = {0}
  Updates <- NoUpdates
  HasDisputes = FALSE
  MaxTime = 0
  MaxCalls = 1
  MaxNear = 3
SYMMETRY Symmetry
INVARIANTS CanceledUnpaid
CHECK_DEADLOCK FALSE
