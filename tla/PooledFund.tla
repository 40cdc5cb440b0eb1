----------------------------- MODULE PooledFund -----------------------------
(***************************************************************************)
(* What the fund's ledger promises its investors, whatever its tables look *)
(* like: an investor's claim on the pool changes only by the investor's    *)
(* own deposit, by the market (which moves every claim in the same         *)
(* direction), by the investor's own exit, and upwards by somebody else's  *)
(* exit fee; an exit is final; nothing moves while the fund is paused.     *)
(* FundLedger implements it.                                               *)
(***************************************************************************)
EXTENDS Integers

CONSTANT Investor

VARIABLES
    claim,       \* each investor's part of the pool, in cents
    membership,  \* "absent", "active" or "withdrawn"
    frozen       \* the fund is paused

pooledVars == <<claim, membership, frozen>>

Members == {i \in Investor : membership[i] = "active"}

PooledInit ==
    /\ claim = [i \in Investor |-> 0]
    /\ membership = [i \in Investor |-> "absent"]
    /\ frozen = FALSE

OthersKeep(i) == \A j \in Investor \ {i} : claim'[j] = claim[j]

Join(i) ==
    /\ ~frozen
    /\ membership[i] = "absent"
    /\ membership' = [membership EXCEPT ![i] = "active"]
    /\ claim'[i] > 0
    /\ OthersKeep(i)
    /\ UNCHANGED frozen

Deposit(i) ==
    /\ ~frozen
    /\ i \in Members
    /\ claim'[i] > claim[i]
    /\ OthersKeep(i)
    /\ UNCHANGED <<membership, frozen>>

\* A realised profit or loss; a loss takes nobody below zero.
Market ==
    /\ ~frozen
    /\ \/ \A i \in Members : claim'[i] >= claim[i]
       \/ \A i \in Members : claim'[i] <= claim[i] /\ claim'[i] >= 0
    /\ \A i \in Investor \ Members : claim'[i] = claim[i]
    /\ UNCHANGED <<membership, frozen>>

Leave(i) ==
    /\ ~frozen
    /\ i \in Members
    /\ membership' = [membership EXCEPT ![i] = "withdrawn"]
    /\ claim'[i] = 0
    /\ \A j \in Members \ {i} : claim'[j] >= claim[j]
    /\ \A j \in Investor \ Members : claim'[j] = claim[j]
    /\ UNCHANGED frozen

FreezeOrThaw ==
    /\ frozen' = ~frozen
    /\ UNCHANGED <<claim, membership>>

PooledNext ==
    \/ \E i \in Investor : Join(i) \/ Deposit(i) \/ Leave(i)
    \/ Market
    \/ FreezeOrThaw

PooledSpec == PooledInit /\ [][PooledNext]_pooledVars
=============================================================================
