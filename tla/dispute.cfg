SPECIFICATION FairSpec
CONSTANTS
  Nil = Nil
  owner = owner
  alice = alice
  Accounts <- MCParties
  Claims <- MCClaims
  Periods <- MCPeriods
  FirstPeriods <- Short
  MaxTime = 3
  Statuses = {"Live"}
  MaxDisputes = 1
  MaxArguments = 1
  MaxProposals = 2
  MaxRequests = 2
INVARIANTS ProposalKnown VerdictFollowed AllHeard
PROPERTIES EndsOnce DisputeEnds
CHECK_DEADLOCK FALSE
