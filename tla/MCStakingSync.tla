--------------------------- MODULE MCStakingSync ---------------------------
(* A small instance of StakingSync for TLC. *)
EXTENDS StakingSync

CONSTANTS guardian1, guardian2, nft, alice, bob
=============================================================================
