----------------------------- MODULE AgentLease -----------------------------
(***************************************************************************)
(* What a guardian promises about the agent in charge of the fund: one     *)
(* agent is registered at a time, another one only after the registration  *)
(* was given up, and snapshots are taken only from agents that were        *)
(* registered since the guardian started.  AgentFailover implements it.    *)
(***************************************************************************)
CONSTANTS Agent, Nobody

VARIABLES
    holder,  \* the registered agent, or Nobody
    trusted  \* agents whose snapshots are taken

leaseVars == <<holder, trusted>>

LeaseInit == holder = Nobody /\ trusted = {}

\* Who is registered becomes trusted, unless the registration came without the
\* agent's keys.
Grant(a) ==
    /\ holder = Nobody /\ holder' = a
    /\ trusted' \in {trusted, trusted \cup {a}}

\* The registration is given up; its agent stays trusted.
GiveUp == holder' = Nobody /\ UNCHANGED trusted

\* The guardian starts anew.
Forget == holder' = Nobody /\ trusted' = {}

LeaseNext == (\E a \in Agent : Grant(a)) \/ GiveUp \/ Forget

LeaseSpec == LeaseInit /\ [][LeaseNext]_leaseVars
=============================================================================
