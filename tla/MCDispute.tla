----------------------------- MODULE MCDispute ------------------------------
(***************************************************************************)
(* An instance of DisputesSafety for TLC: a dispute between two parties,   *)
(* and time for arguments and for the vote that an administrator changes.  *)
(***************************************************************************)
EXTENDS DisputesSafety

CONSTANTS owner, alice

MCParties == {owner, alice}
MCClaims  == {<<0, alice, 0>>}

Short        == [argument_period |-> 0, decision_period |-> 0]
LongDecision == [argument_period |-> 0, decision_period |-> 1]
MCPeriods    == {Short, LongDecision}

============================================================================
