SPECIFICATION Spec
CONSTANTS
  Nil = Nil
  owner = owner
  alice = alice
  bob = bob
  dao = dao
  DAO = dao
  Accounts <- MCAccounts
  BountyId <- Ids1
  Claimants <- MCClaimants
  MaxClaims = 1
  MaxSlots = 2
  Offers <- PlaceOffers
  Configs <- OneConfig
  FirstConfig <- Config1
  Deadlines = {Nil}
  Updates <- NoUpdates
  HasDisputes = TRUE
  MaxTime = 2
  MaxCalls = 2
  MaxNear = 2
SYMMETRY Symmetry
INVARIANTS OccupiedSlotsAgree PauseAgrees ParticipantsAgree StartKnown ApprovedIsPaid
CHECK_DEADLOCK FALSE
