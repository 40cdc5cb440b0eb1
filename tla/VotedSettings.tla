---------------------------- MODULE VotedSettings ----------------------------
(***************************************************************************)
(* What the holders may rely on when they vote about the fund: limits and  *)
(* lists of an agent change, and it is paused, only by a change that a     *)
(* vote carried before or, when an agent takes over, by going back to what *)
(* was saved of the fund.  An agent may lift a pause and choose a strategy *)
(* by itself.  How changes travel, how often they are sent and when they   *)
(* arrive is left open.  AgentLink implements it.                          *)
(***************************************************************************)

CONSTANTS
    Agent,
    Settings,       \* what an agent's settings can be
    Effect(_, _)    \* what a change makes of them

VARIABLES
    settings,  \* of each agent
    snapshot,  \* what is saved of the fund
    mandate    \* the changes that some vote carried

votedVars == <<settings, snapshot, mandate>>

VotedInit == settings = [a \in Agent |-> snapshot] /\ mandate = {}

\* A mandate is not taken back: a change under way may still arrive.
Carry == mandate \subseteq mandate' /\ UNCHANGED <<settings, snapshot>>

Apply(a, c) ==
    /\ c \in mandate /\ Effect(settings[a], c) \in Settings
    /\ settings' = [settings EXCEPT ![a] = Effect(@, c)]
    /\ UNCHANGED <<snapshot, mandate>>

LiftPause(a) ==
    /\ settings' = [settings EXCEPT ![a].paused = FALSE]
    /\ UNCHANGED <<snapshot, mandate>>

ChooseStrategy(a) ==
    /\ \E s \in Settings : settings' = [settings EXCEPT ![a].strategy = s.strategy]
    /\ UNCHANGED <<snapshot, mandate>>

Save(a) == snapshot' = settings[a] /\ UNCHANGED <<settings, mandate>>

GoBack(a) ==
    /\ settings' = [settings EXCEPT ![a] = snapshot]
    /\ UNCHANGED <<snapshot, mandate>>

VotedNext ==
    \/ Carry
    \/ \E a \in Agent :
        \/ LiftPause(a) \/ ChooseStrategy(a) \/ Save(a) \/ GoBack(a)
        \/ \E c \in mandate : Apply(a, c)

VotedSpec == VotedInit /\ [][VotedNext]_votedVars
=============================================================================
