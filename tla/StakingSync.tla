----------------------------- MODULE StakingSync -----------------------------
(***************************************************************************)
(* Stakes of NFTs with guardians as the agent sees them.  The guardians    *)
(* keep the stakes (guardian-network/src/guardian/nft-staking.ts, the      *)
(* staking routes of api/routes.ts) and ask the agent who owns a token     *)
(* (sentry/nft-verifier.ts); the agent relays its users' requests          *)
(* (staking tools of tools.ts, staking-client.ts) and keeps a copy of the  *)
(* stakes, which an hourly job of cron.ts brings up to date.               *)
(*                                                                         *)
(* Requests are cut at their awaits.  A request that times out at the      *)
(* agent after 10 s goes on at the guardian, which takes up to 5 s for     *)
(* each token.  Values, names and the guardians' votes are left out: a     *)
(* vote lock is a refusal that may come at any time.                       *)
(***************************************************************************)
EXTENDS Integers, FiniteSets

CONSTANTS
    Guardian, Token, User,
    Nobody,     \* no owner, no copy
    MaxCalls,   \* bound: requests of users
    MaxMoves,   \* bound: withdrawals and swaps of accounts
    MaxFaults   \* bound: timeouts, guardians that do not answer, failed lookups

ASSUME NobodyAssumption == Nobody \notin User \cup Guardian
ASSUME CallAssumption == MaxCalls \in Nat /\ MaxMoves \in Nat /\ MaxFaults \in Nat

VARIABLES
    owner,     \* of each account, Nobody when it is withdrawn
    stakes,    \* nft_stakes of each guardian
    verified,  \* discovered guardians that were verified; all are discovered
    copy,      \* nft_staking_state: where the agent believes a token is staked
    tool,      \* the staking tool under way: users' messages come one by one
    stakings,  \* staking requests the guardians are working on
    sync,      \* the job under way: guardians to ask, and the answer it waits for
    calls, moves, faults

fund == <<owner, moves>>
stakingVars == <<fund, stakes, verified, copy, tool, stakings, sync, calls, faults>>

\* A row of nft_stakes: "left" is is_active = 0, cooling the seven days after.
Row == [state: {"none", "active", "left"}, by: User \cup {Nobody}, cooling: BOOLEAN]
NoRow == [state |-> "none", by |-> Nobody, cooling |-> FALSE]

\* A row of nft_staking_state.
Copied == [guardian: Guardian, by: User, delegated: BOOLEAN]

\* POST /staking/stake at a guardian: tokens to do, the one whose owner it has
\* asked for, what it heard, and what it has staked.
Request == [id: 1..MaxCalls, guardian: Guardian, by: User, todo: SUBSET Token,
            asked: SUBSET Token, proof: {"none", "yes", "no"}, staked: SUBSET Token]

IdleTool == [step |-> "idle", guardian |-> Nobody, by |-> Nobody, rows |-> {}]
IdleSync == [step |-> "idle", todo |-> {}, at |-> Nobody, heard |-> {}]

StakedAt(g) == {t \in Token : stakes[g][t].state = "active"}
Owned(u)  == {t \in Token : owner[t] = u}
CopiedFor(u) == {t \in Token : copy[t] # Nobody /\ copy[t].by = u}
CopiedAt(g)  == {t \in Token : copy[t] # Nobody /\ copy[t].guardian = g}

StakingInit ==
    /\ owner \in [Token -> User] /\ moves = 0
    /\ stakes = [g \in Guardian |-> [t \in Token |-> NoRow]]
    /\ verified = {}
    /\ copy = [t \in Token |-> Nobody]
    /\ tool = IdleTool /\ stakings = {} /\ sync = IdleSync
    /\ calls = 0 /\ faults = 0

Fault == faults < MaxFaults /\ faults' = faults + 1

-----------------------------------------------------------------------------
(* Staking *)

\* stake_nft: the tokens are checked to be the user's; a guardian named by the
\* user need not be a verified one.
StakeNFT(u, g) ==
    /\ tool.step = "idle" /\ calls < MaxCalls /\ calls' = calls + 1
    /\ \E tokens \in SUBSET Owned(u) \ {{}} :
         stakings' = stakings \cup
             {[id |-> calls + 1, guardian |-> g, by |-> u, todo |-> tokens,
               asked |-> {}, proof |-> "none", staked |-> {}]}
    /\ tool' = [IdleTool EXCEPT !.step = "staking", !.guardian = g, !.by = u]
    /\ UNCHANGED <<fund, stakes, verified, copy, sync, faults>>

Becomes(r, q) == stakings' = (stakings \ {r}) \cup {q}

\* stakeNFTs takes the next token: refused in its cooldown, else looked up.
TakeToken(r) ==
    /\ r.asked = {} /\ r.todo # {}
    /\ \E t \in r.todo :
         Becomes(r, [r EXCEPT !.todo = @ \ {t},
                              !.asked = IF stakes[r.guardian][t].cooling THEN {} ELSE {t}])
    /\ UNCHANGED <<fund, stakes, verified, copy, tool, sync, calls, faults>>

\* verifyOwnership: the agent says who owns the token, or does not answer.
OwnerAnswered(r) ==
    /\ r.asked # {} /\ r.proof = "none"
    /\ \/ /\ Becomes(r, [r EXCEPT !.proof = IF \A t \in r.asked : owner[t] = r.by THEN "yes" ELSE "no"])
          /\ UNCHANGED faults
       \/ Becomes(r, [r EXCEPT !.proof = "no"]) /\ Fault
    /\ UNCHANGED <<fund, stakes, verified, copy, tool, sync, calls>>

\* Bug: the new stake inherits the cooldown of the row it is written over.
EndTokenKeepsCooldown(r) ==
    /\ r.proof # "none"
    /\ IF r.proof = "yes"
       THEN stakes' = [stakes EXCEPT ![r.guardian] =
                [t \in Token |-> IF t \in r.asked THEN [@[t] EXCEPT !.state = "active", !.by = r.by] ELSE @[t]]]
       ELSE UNCHANGED stakes
    /\ Becomes(r, [r EXCEPT !.asked = {}, !.proof = "none",
                            !.staked = IF r.proof = "yes" THEN @ \cup r.asked ELSE @])
    /\ UNCHANGED <<fund, verified, copy, tool, sync, calls, faults>>

\* The answer arrives, and the stake is written over whatever row there is.
EndToken(r) ==
    /\ r.proof # "none"
    /\ IF r.proof = "yes"
       THEN stakes' = [stakes EXCEPT ![r.guardian] =
                [t \in Token |-> IF t \in r.asked
                                 THEN [state |-> "active", by |-> r.by, cooling |-> FALSE] ELSE @[t]]]
       ELSE UNCHANGED stakes
    /\ Becomes(r, [r EXCEPT !.asked = {}, !.proof = "none",
                            !.staked = IF r.proof = "yes" THEN @ \cup r.asked ELSE @])
    /\ UNCHANGED <<fund, verified, copy, tool, sync, calls, faults>>

\* The response: copied when the tool still waits for it.
StakeReturns(r) ==
    /\ r.todo = {} /\ r.asked = {}
    /\ stakings' = stakings \ {r}
    /\ IF tool.step = "staking" /\ r.id = calls
       THEN /\ tool' = IdleTool
            /\ copy' = [t \in Token |-> IF t \in r.staked
                           THEN [guardian |-> r.guardian, by |-> r.by, delegated |-> FALSE] ELSE copy[t]]
       ELSE UNCHANGED <<tool, copy>>
    /\ UNCHANGED <<fund, stakes, verified, sync, calls, faults>>

\* Ten seconds without a response, or the guardian cannot be reached.
ToolTimesOut ==
    /\ tool.step # "idle" /\ Fault
    /\ tool' = IdleTool
    /\ UNCHANGED <<fund, stakes, verified, copy, stakings, sync, calls>>

-----------------------------------------------------------------------------
(* Unstaking and delegating *)

UnstakeNFT(u, g) ==
    /\ tool.step = "idle" /\ calls < MaxCalls /\ calls' = calls + 1
    /\ tool' = [IdleTool EXCEPT !.step = "unstaking", !.guardian = g, !.by = u]
    /\ UNCHANGED <<fund, stakes, verified, copy, stakings, sync, faults>>

Left(row) == [row EXCEPT !.state = "left", !.cooling = TRUE]

\* POST /staking/unstake: all stakes of the user, unless votes lock them.
UnstakeHandled ==
    /\ tool.step = "unstaking"
    /\ \/ /\ stakes' = [stakes EXCEPT ![tool.guardian] =
                 [t \in Token |-> IF t \in StakedAt(tool.guardian) /\ @[t].by = tool.by THEN Left(@[t]) ELSE @[t]]]
          /\ tool' = [tool EXCEPT !.step = "unstaked"]
       \/ tool' = IdleTool /\ UNCHANGED stakes
    /\ UNCHANGED <<fund, verified, copy, stakings, sync, calls, faults>>

UnstakeReturns ==
    /\ tool.step = "unstaked"
    /\ copy' = [t \in Token |-> IF t \in CopiedFor(tool.by) \cap CopiedAt(tool.guardian) THEN Nobody ELSE copy[t]]
    /\ tool' = IdleTool
    /\ UNCHANGED <<fund, stakes, verified, stakings, sync, calls, faults>>

\* delegate_voting_power: for what the copy shows as staked; the rows it read
\* are written back, delegated, when the guardian has accepted.
DelegateVotingPower(u) ==
    /\ tool.step = "idle" /\ calls < MaxCalls /\ calls' = calls + 1
    /\ CopiedFor(u) # {}
    /\ tool' = [IdleTool EXCEPT !.step = "delegating", !.by = u,
                                !.rows = {[token |-> t, row |-> copy[t]] : t \in CopiedFor(u)}]
    /\ UNCHANGED <<fund, stakes, verified, copy, stakings, sync, faults>>

DelegateReturns ==
    /\ tool.step = "delegating"
    /\ copy' = [t \in Token |-> IF \E r \in tool.rows : r.token = t
                   THEN [(CHOOSE r \in tool.rows : r.token = t).row EXCEPT !.delegated = TRUE] ELSE copy[t]]
    /\ tool' = IdleTool
    /\ UNCHANGED <<fund, stakes, verified, stakings, sync, calls, faults>>

-----------------------------------------------------------------------------
(* The hourly job of the agent, and the guardians' own *)

StartSync ==
    /\ sync.step = "idle" /\ verified # {}
    /\ sync' = [IdleSync EXCEPT !.step = "next", !.todo = verified]
    /\ UNCHANGED <<fund, stakes, verified, copy, tool, stakings, calls, faults>>

Proceed(left) == sync' = IF left = {} THEN IdleSync ELSE [IdleSync EXCEPT !.step = "next", !.todo = left]

\* GET /staking/guardian: the guardian's stakes at that moment; or no answer.
SyncRead(g) ==
    /\ sync.step = "next" /\ g \in sync.todo
    /\ \/ /\ sync' = [sync EXCEPT !.step = "heard", !.at = g, !.todo = @ \ {g},
                                  !.heard = {[token |-> t, by |-> stakes[g][t].by] : t \in StakedAt(g)}]
          /\ UNCHANGED faults
       \/ Proceed(sync.todo \ {g}) /\ Fault
    /\ UNCHANGED <<fund, stakes, verified, copy, tool, stakings, calls>>

\* Bug: what the guardian no longer names stays in the copy.
MergedKeepsOld(g, heard) ==
    [t \in Token |->
        IF \E h \in heard : h.token = t
        THEN [guardian |-> g, by |-> (CHOOSE h \in heard : h.token = t).by, delegated |-> FALSE]
        ELSE copy[t]]

\* What the guardian said is copied, and what it did not name is cleared where
\* the copy shows it with this guardian.
Merged(g, heard) ==
    [t \in Token |->
        IF \E h \in heard : h.token = t
        THEN [guardian |-> g, by |-> (CHOOSE h \in heard : h.token = t).by, delegated |-> FALSE]
        ELSE IF t \in CopiedAt(g) THEN Nobody ELSE copy[t]]

SyncApply ==
    /\ sync.step = "heard"
    /\ copy' = Merged(sync.at, sync.heard)
    /\ Proceed(sync.todo)
    /\ UNCHANGED <<fund, stakes, verified, tool, stakings, calls, faults>>

\* Bug: a token nobody owns any more is not looked at.
ReverifyOwnedOnly(g, t) ==
    /\ t \in StakedAt(g) /\ owner[t] # Nobody /\ stakes[g][t].by # owner[t]
    /\ stakes' = [stakes EXCEPT ![g][t] = Left(@)]
    /\ UNCHANGED <<fund, verified, copy, tool, stakings, sync, calls, faults>>

\* reverify for one stake: whoever is not known to own it loses it.
Reverify(g, t) ==
    /\ t \in StakedAt(g)
    /\ \/ stakes[g][t].by # owner[t] /\ UNCHANGED faults
       \/ stakes[g][t].by = owner[t] /\ Fault
    /\ stakes' = [stakes EXCEPT ![g][t] = Left(@)]
    /\ UNCHANGED <<fund, verified, copy, tool, stakings, sync, calls>>

CooldownEnds(g, t) ==
    /\ stakes[g][t].cooling
    /\ stakes' = [stakes EXCEPT ![g][t].cooling = FALSE]
    /\ UNCHANGED <<fund, verified, copy, tool, stakings, sync, calls, faults>>

\* A guardian is verified by the agent.
VerifyGuardian(g) ==
    /\ g \notin verified /\ verified' = verified \cup {g}
    /\ UNCHANGED <<fund, stakes, copy, tool, stakings, sync, calls, faults>>

\* An account is withdrawn, sold or swapped.
Move(t, u) ==
    /\ moves < MaxMoves /\ owner[t] # Nobody /\ owner[t] # u
    /\ owner' = [owner EXCEPT ![t] = u] /\ moves' = moves + 1
    /\ UNCHANGED <<stakes, verified, copy, tool, stakings, sync, calls, faults>>

HandleStaking(r) == TakeToken(r) \/ OwnerAnswered(r) \/ EndToken(r) \/ StakeReturns(r)
HandleTool == UnstakeHandled \/ UnstakeReturns \/ DelegateReturns
Sync == StartSync \/ (\E g \in Guardian : SyncRead(g)) \/ SyncApply

StakingNext ==
    \/ \E u \in User, g \in Guardian : StakeNFT(u, g) \/ UnstakeNFT(u, g)
    \/ \E u \in User : DelegateVotingPower(u)
    \/ \E r \in stakings : HandleStaking(r)
    \/ HandleTool \/ ToolTimesOut \/ Sync
    \/ \E g \in Guardian, t \in Token : Reverify(g, t) \/ CooldownEnds(g, t)
    \/ \E g \in Guardian : VerifyGuardian(g)
    \/ \E t \in Token, u \in User \cup {Nobody} : Move(t, u)

\* The jobs run on their timers, and every request is answered or times out.
StakingFairness ==
    /\ WF_stakingVars(Sync) /\ WF_stakingVars(HandleTool)
    /\ WF_stakingVars(\E r \in stakings : HandleStaking(r))
    /\ \A g \in Guardian, t \in Token : WF_stakingVars(Reverify(g, t))

StakingSpec == StakingInit /\ [][StakingNext]_stakingVars /\ StakingFairness
-----------------------------------------------------------------------------
(* Properties *)

\* The state is what the tables and suspended calls can hold: only a stake that
\* was left is cooling down.
StakingTypeOK ==
    /\ owner \in [Token -> User \cup {Nobody}]
    /\ stakes \in [Guardian -> [Token -> Row]]
    /\ \A g \in Guardian, t \in Token :
         /\ stakes[g][t].state = "none" <=> stakes[g][t].by = Nobody
         /\ stakes[g][t].cooling => stakes[g][t].state = "left"
    /\ verified \subseteq Guardian
    /\ \A t \in Token : copy[t] # Nobody => copy[t] \in Copied
    /\ stakings \subseteq Request
    /\ tool.step \in {"idle", "staking", "unstaking", "unstaked", "delegating"}
    /\ sync.step \in {"idle", "next", "heard"} /\ sync.todo \subseteq verified

\* The copy is right about every verified guardian.
CopyIsRight ==
    /\ \A t \in Token : copy[t] # Nobody /\ copy[t].guardian \in verified =>
           LET row == stakes[copy[t].guardian][t] IN row.state = "active" /\ row.by = copy[t].by
    /\ \A g \in verified : \A t \in StakedAt(g) : copy[t] # Nobody

\* Once requests and ownership come to rest, the hourly job makes the copy
\* right and keeps it so, whatever responses were lost, arrived after the job
\* had read, or wrote old rows back.
CopyConverges == <>[]CopyIsRight

\* A stake does not outlast the ownership it stands for: not even one whose
\* token changed hands between the lookup and the writing of the stake.
StakesEndWithOwnership ==
    \A g \in Guardian, t \in Token, u \in User :
        stakes[g][t].state = "active" /\ stakes[g][t].by = u /\ owner[t] # u
            ~> stakes[g][t].state # "active" \/ stakes[g][t].by = owner[t]

\* "A 7-day cooldown now applies before re-staking these tokens with this
\* guardian" (tools.ts:1774).  It does not hold: stakeNFTs looks at the cooldown
\* before it awaits the owner, and writes over a row that was unstaked meanwhile.
CooldownHolds ==
    [][\A g \in Guardian, t \in Token :
           stakes[g][t].cooling => stakes'[g][t].state # "active"]_stakingVars
=============================================================================
