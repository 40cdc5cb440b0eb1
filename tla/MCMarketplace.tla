--------------------------- MODULE MCMarketplace ---------------------------
(* Small instances of Marketplace for TLC. *)
EXTENDS Marketplace, TLC

CONSTANTS alice, bob, carol, one, two

MCUser == {alice, bob, carol}
MCToken == {one, two}

\* Users and tokens are interchangeable.
MCSymmetry == Permutations(MCUser) \cup Permutations(MCToken)
=============================================================================
