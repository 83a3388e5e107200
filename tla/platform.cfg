SPECIFICATION PlatformSpec
CONSTANTS
  Nil = Nil
  owner = owner
  alice = alice
  bob = bob
  dao = dao
  DAO = dao
  idn = idn
  check = check
  service1 = service1
  service2 = service2
  Accounts <- MCAccounts
  BountyId <- Ids1
  Claimants <- OneClaimant
  MaxClaims = 1
  MaxSlots = 2
  Offers <- PlatformOffers
  Configs <- FreeConfigs
  FirstConfig <- FreeConfig
  Deadlines = {0}
  Updates <- NoUpdates
  HasDisputes = FALSE
  MaxTime = 1
  MaxCalls = 2
  MaxNear = 2
  Deployments <- MCDeployments
  MaxEvents = 6
  Providers <- MCProviders
  Profiles <- MCProfiles
  Expiries = {1}
  MaxChanges = 2
  FirstProviders <- MCFirstProviders
  FirstProfiles <- MCFirstProfiles
  FirstDefault = service1
INVARIANTS WorkersCleared KycRecordedOnce EndsWithinHires
CHECK_DEADLOCK FALSE
