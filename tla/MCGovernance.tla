---------------------------- MODULE MCGovernance ----------------------------
(* Small instances of Governance for TLC. *)
EXTENDS Governance, TLC

CONSTANTS self, other, large, small

\* Neither account has 75% of the pool; the small one counted twice is worth
\* more than the large one, and with it 80%.
MCWorth == (large :> 60) @@ (small :> 40)
=============================================================================
