----------------------------- MODULE MCPlatform -----------------------------
(***************************************************************************)
(* An instance of Platform for TLC: one claimant of each bounty, an        *)
(* identity check by one provider, and two services.                       *)
(***************************************************************************)
EXTENDS MCBounties, Platform

CONSTANTS idn, check, service1, service2

MCProviders ==
  [name: {idn}, enabled: {"Enabled", "NewChecksNotAllowed", "Disabled"}]
Profile(service, enabled) ==
  [name |-> service, account |-> service,
   checks |-> {[provider |-> idn, check |-> check, enabled |-> enabled]}]
MCProfiles ==
  {Profile(service1, "Disabled"), Profile(service2, "Enabled"),
   [Profile(service2, "Enabled") EXCEPT !.account = service1]}
MCFirstProviders == <<[name |-> idn, enabled |-> "Enabled"]>>
MCFirstProfiles  == <<Profile(service1, "Enabled")>>

MCDeployments == {{"kyc"}, {"reputation"}}

(* A contest whose prizes are the whole reward, without fees.              *)
FreeContest ==
  [Contest EXCEPT !.shares = [p \in Places |-> IF p = 1 THEN 12 ELSE 9]]

(* KYC checks when a claim is made, when it is approved and when the work  *)
(* is done.                                                                *)
CheckedOffers ==
  {[Plain EXCEPT !.kyc = "WhenCreatingClaim"],
   [Plain EXCEPT !.kyc = "DuringClaimApproval"],
   [Plain EXCEPT !.kyc = "DuringClaimApproval",
                 !.approval = "ApprovalByWhitelist", !.whitelist = {alice}],
   [FreeContest EXCEPT !.kyc = "DuringClaimApproval"]}
UncheckedOffers ==
  {Plain,
   [FreeContest EXCEPT !.start = "MinAmountToStart", !.min_slots = 2]}
PlatformOffers == CheckedOffers \cup UncheckedOffers

============================================================================
