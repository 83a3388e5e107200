SPECIFICATION FairJointSpec
CONSTANTS
  Nil = Nil
  owner = owner
  alice = alice
  bob = bob
  dao = dao
  DAO = dao
  Accounts <- MCParties
  BountyId <- Ids1
  Claimants <- OneClaimant
  MaxClaims = 1
  MaxSlots = 1
  Offers <- DisputeOffers
  Configs <- FreeConfigs
  FirstConfig <- FreeConfig
  Deadlines = {Nil}
  Updates <- NoUpdates
  HasDisputes = TRUE
  MaxTime = 1
  MaxCalls = 2
  MaxNear = 1
  Periods <- MCPeriods
  FirstPeriods <- NoWait
  Statuses = {"Live"}
  MaxDisputes = 2
  MaxArguments = 0
  MaxProposals = 1
  MaxRequests = 1
INVARIANTS DisputedHasDispute LossSettled
PROPERTIES BountiesImplemented DisputesImplemented DisputeLeft
CHECK_DEADLOCK FALSE
