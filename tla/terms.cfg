SPECIFICATION Spec
CONSTANTS
  Nil = Nil
  owner = owner
  alice = alice
  bob = bob
  dao = dao
  DAO = dao
  Accounts <- MCAccounts
  BountyId <- Ids1
  Claimants <- OneClaimant
  MaxClaims = 1
  MaxSlots = 2
  Offers <- TermsOffers
  Configs <- OneConfig
  FirstConfig <- Config1
  Deadlines = {Nil, 0, 1}
  Updates <- AllUpdates
  HasDisputes = FALSE
  MaxTime = 2
  MaxCalls = 1
  MaxNear = 3
INVARIANTS ConfirmedFirst PaymentHasClaim HiredOnWhitelist
PROPERTIES TimeNotTaken
CHECK_DEADLOCK FALSE
