----------------------------- MODULE MCDisputes -----------------------------
(***************************************************************************)
(* An instance of BountiesDisputes for TLC: a bounty for one claimant, who *)
(* disputes the rejection of the work.                                     *)
(***************************************************************************)
EXTENDS MCBounties, BountiesDisputes

NoWait    == [argument_period |-> 0, decision_period |-> 0]
MCPeriods == {NoWait}
MCParties == {owner, alice, dao}

(* The work is done when it is claimed.                                    *)
DisputeOffers ==
  {[Plain EXCEPT !.approval = "WithoutApproval", !.flow = "SimpleBounty",
                 !.stretch = FALSE, !.deadline_type = "WithoutDeadline"]}

============================================================================
