------------------------------ MODULE MCHiring ------------------------------
(***************************************************************************)
(* An instance of BountyHiring for TLC.                                    *)
(***************************************************************************)
EXTENDS MCBounties, BountyHiring

=============================================================================
