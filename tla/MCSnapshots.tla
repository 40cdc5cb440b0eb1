----------------------------- MODULE MCSnapshots -----------------------------
(* An agent, a guardian and the two images it may be started from for TLC. *)
EXTENDS Snapshots, TLC

CONSTANTS agent, guardian, thisImage, otherImage

\* APPROVED_MEASUREMENTS is unset, or names one of the two images.
EnvironmentValues == {{}, {thisImage}}
=============================================================================
