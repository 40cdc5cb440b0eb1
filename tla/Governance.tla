----------------------------- MODULE Governance -----------------------------
(***************************************************************************)
(* How the holders' votes become a change of the fund: the governance part *)
(* of one guardian node (guardian-network/src).  Holders stake NFTs with   *)
(* the node and delegate the voting power of staked NFTs to sentries       *)
(* (nft-staking.ts, delegations.ts); sentries vote on proposals            *)
(* (proposals.ts, voting.ts); a job of main.ts decides them after their    *)
(* deadline and pushes passed changes to the fund's agent                  *)
(* (config-governance.ts).  The node's database outlives a restart; what a *)
(* job has read and not yet acted on does not.                             *)
(*                                                                         *)
(* The fund is seen as its HTTP API shows it: accounts that are worth      *)
(* something while active, and an endpoint that may not answer.            *)
(***************************************************************************)
EXTENDS Integers, Sequences, FiniteSets, Functions

CONSTANTS
    Sentry,          \* addresses that vote
    Self,            \* the address of this node
    Token, Worth,    \* NFT accounts of the fund and their current_balance
    Hours,           \* deadlineHours that proposals are created with
    DayLength,       \* clock ticks in a calendar day
    MaxTime,         \* bound: the clock stops there
    MaxProposals,    \* bound: rows of proposals
    MaxDelegations,  \* bound: rows of delegations
    MaxRequests      \* bound: execute requests for one proposal

ASSUME SelfAssumption == Self \in Sentry
ASSUME TokenAssumption == IsFiniteSet(Token)
ASSUME WorthAssumption == Worth \in [Token -> Nat \ {0}]
ASSUME TimeAssumption == Hours \subseteq Nat \ {0} /\ DayLength \in Nat \ {0} /\ MaxTime \in Nat /\ MaxProposals \in Nat

\* PROPOSAL_RULES: every type needs 75% of the pool.
Threshold == 75

VARIABLES
    held,         \* tokens whose account in the fund is active
    reachable,    \* the fund's HTTP API answers
    stakes,       \* nft_stakes of this node: "none", "active" or "left" (unstaked)
    delegations,  \* table delegations
    proposals,    \* table proposals, each with its rows of votes
    job,          \* the run of the resolution job under way
    pushed,       \* how often the agent applied each proposal's change, for the job and for requests
    now           \* the clock

fund == <<held, reachable>>
power == <<stakes, delegations>>
vars == <<held, reachable, stakes, delegations, proposals, job, pushed, now>>

Ballot == [voter: Sentry, approve: BOOLEAN, power: Nat]

\* tokens: nft_token_ids.
Delegation == [tokens: SUBSET Token, sentry: Sentry, value: Nat, active: BOOLEAN]

\* pool (kept for the properties only): the pool value a decision was made with.
Proposal == [deadline: Nat, status: {"active", "passed", "failed", "expired"},
             votes: SUBSET Ballot, pool: Nat]

\* todo: the passed proposals whose change is still to be pushed.
Idle == [step |-> "idle", todo |-> {}]

Active == {p \in DOMAIN proposals : proposals[p].status = "active"}

Worths(tokens) == SumFunctionOnSet(Worth, tokens)
PoolValue == Worths(held)

Day(time) == time \div DayLength

-----------------------------------------------------------------------------
(* Voting power *)

StakedTokens == {t \in Token : stakes[t] = "active"}

\* stakeNFTs for one token.  The cooldown after unstaking (7 days) is longer
\* than any proposal lives, so here a token that left does not come back.
Stake(t) ==
    /\ reachable /\ t \in held                \* verifyOwnership
    /\ stakes[t] = "none"
    /\ stakes' = [stakes EXCEPT ![t] = "active"]
    /\ UNCHANGED <<fund, delegations, proposals, job, pushed, now>>

\* checkVoteLock: this node has voted on a proposal that is still active (the
\* 48 hours it looks back are longer than a proposal is open).
VoteLocked == \E p \in Active : \E b \in proposals[p].votes : b.voter = Self

\* The holder's request: POST /staking/unstake.
Unstake(t) ==
    /\ stakes[t] = "active"
    /\ ~VoteLocked
    /\ stakes' = [stakes EXCEPT ![t] = "left"]
    /\ UNCHANGED <<fund, delegations, proposals, job, pushed, now>>

\* The guardian's owner: /unstake in Telegram, which takes no notice of votes.
UnstakeAll ==
    /\ StakedTokens # {}
    /\ stakes' = [t \in Token |-> IF stakes[t] = "active" THEN "left" ELSE stakes[t]]
    /\ UNCHANGED <<fund, delegations, proposals, job, pushed, now>>

\* reverify for one token: no answer counts as ownership lost.
Reverify(t) ==
    /\ stakes[t] = "active"
    /\ ~ (reachable /\ t \in held)
    /\ stakes' = [stakes EXCEPT ![t] = "left"]
    /\ UNCHANGED <<fund, delegations, proposals, job, pushed, now>>

\* DelegationTracker.create
Create(tokens, s, value) ==
    /\ Len(delegations) < MaxDelegations
    /\ delegations' = Append(delegations, [tokens |-> tokens, sentry |-> s, value |-> value, active |-> TRUE])
    /\ UNCHANGED <<fund, stakes, proposals, job, pushed, now>>

\* delegate_voting_power, then POST /delegations: what can be delegated is what
\* the agent's hourly copy of the stakes shows, which may have left since; what
\* is still staked stays staked.
Delegate(t, s) == stakes[t] # "none" /\ Create({t}, s, Worth[t])

\* /delegate in Telegram: a delegation of no tokens, worth nothing.
DelegateCommand(s) == Create({}, s, 0)

\* revoke, or the end of its days (expireOld and every read filter on it).
EndDelegation(d) ==
    /\ delegations[d].active
    /\ delegations' = [delegations EXCEPT ![d].active = FALSE]
    /\ UNCHANGED <<fund, stakes, proposals, job, pushed, now>>

\* /undelegate in Telegram: all delegations of one delegator.
Undelegate(D) ==
    /\ D # {}
    /\ delegations' = [d \in DOMAIN delegations |->
                          IF d \in D THEN [delegations[d] EXCEPT !.active = FALSE] ELSE delegations[d]]
    /\ UNCHANGED <<fund, stakes, proposals, job, pushed, now>>

\* updateValues for one delegation: a token that cannot be looked up adds 0.
UpdateValue(d) ==
    /\ delegations[d].active
    /\ LET value == IF reachable THEN Worths(delegations[d].tokens \cap held) ELSE 0
       IN  /\ delegations[d].value # value
           /\ delegations' = [delegations EXCEPT ![d].value = value]
    /\ UNCHANGED <<fund, stakes, proposals, job, pushed, now>>

\* getVotingPower: what is staked with the node, for the node itself, plus
\* what is delegated.
DelegatedTo(s) == {d \in DOMAIN delegations : delegations[d].active /\ delegations[d].sentry = s}

OwnTokens(s) == IF s = Self THEN StakedTokens ELSE {}

VotingPower(s) ==
    Worths(OwnTokens(s))
        + SumFunctionOnSet([d \in DOMAIN delegations |-> delegations[d].value], DelegatedTo(s))

-----------------------------------------------------------------------------
(* Proposals and votes *)

\* ProposalManager.create
Propose(hours) ==
    /\ Len(proposals) < MaxProposals
    /\ Day(now + hours) < Day(MaxTime)         \* the clock runs past its day
    /\ proposals' = Append(proposals, [deadline |-> now + hours, status |-> "active",
                                       votes |-> {}, pool |-> 0])
    /\ UNCHANGED <<fund, power, job, pushed, now>>

BallotOf(s, approve) ==
    [voter |-> s, approve |-> approve, power |-> VotingPower(s)]

\* castVote
CastVote(s, p, approve) ==
    /\ proposals[p].status = "active"
    /\ now < proposals[p].deadline
    /\ \A b \in proposals[p].votes : b.voter # s         \* UNIQUE(proposal_id, voter_address)
    /\ VotingPower(s) > 0
    /\ proposals' = [proposals EXCEPT ![p].votes = @ \cup {BallotOf(s, approve)}]
    /\ UNCHANGED <<fund, power, job, pushed, now>>

PowerOf(ballots) == SumFunctionOnSet([b \in ballots |-> b.power], ballots)

ApprovePower(p) == PowerOf({b \in proposals[p].votes : b.approve})

\* Bug: the approval is a share of the votes cast.
PassesAmongVoters(p, pool) ==
    /\ proposals[p].votes # {}
    /\ ApprovePower(p) * 100 >= Threshold * PowerOf(proposals[p].votes)

\* tally
Passes(p, pool) ==
    /\ proposals[p].votes # {}
    /\ pool > 0
    /\ ApprovePower(p) * 100 >= Threshold * pool

Resolved(p, pool) ==
    [proposals[p] EXCEPT !.status = IF Passes(p, pool) THEN "passed" ELSE "failed", !.pool = pool]

\* POST /proposals/:id/resolve, at any time and of any status.  The pool value
\* is the caller's; 0 when the request names none.
Resolve(p, pool) ==
    /\ pool \in {0, PoolValue}
    /\ proposals' = [proposals EXCEPT ![p] = Resolved(p, pool)]
    /\ UNCHANGED <<fund, power, job, pushed, now>>

-----------------------------------------------------------------------------
(* The resolution job of main.ts, every five minutes *)

\* Bug: a proposal that nobody resolved stays as it is.
ExpireNothing == proposals

\* expireOverdue.  It compares the ISO deadline with SQLite's datetime('now')
\* as text, and "T" sorts after " ": a deadline counts as over on a later day.
ExpireOverdue ==
    [p \in DOMAIN proposals |->
        IF p \in Active /\ Day(proposals[p].deadline) < Day(now)
        THEN [proposals[p] EXCEPT !.status = "expired"] ELSE proposals[p]]

\* The job starts, and waits for the fund's pool value.
JobStart ==
    /\ job.step = "idle"
    /\ proposals' = ExpireOverdue
    /\ job' = [job EXCEPT !.step = "polling"]
    /\ UNCHANGED <<fund, power, pushed, now>>

\* Bug: every proposal past its deadline is resolved (again).
DueWhatever == {p \in DOMAIN proposals : proposals[p].deadline <= now}

\* listActive, filtered by the deadline as a date.
Due == {p \in Active : proposals[p].deadline <= now}

\* resolveExpired with the pool value, 0 (and then nothing happens) when the
\* fund did not answer.
JobResolve ==
    LET passed == {p \in Due : Passes(p, PoolValue)}
    IN  /\ job.step = "polling"
        /\ IF reachable /\ PoolValue > 0
           THEN /\ proposals' = [p \in DOMAIN proposals |->
                                    IF p \in Due THEN Resolved(p, PoolValue) ELSE proposals[p]]
                /\ job' = IF passed = {} THEN Idle ELSE [step |-> "executing", todo |-> passed]
           ELSE job' = Idle /\ UNCHANGED proposals
        /\ UNCHANGED <<fund, power, pushed, now>>

\* Bug: the job that has pushed its last change is not over.
PushOnAndOn(p) == [job EXCEPT !.todo = @ \ {p}]

\* The loop goes on with the other passed proposals, or the run is over.
AfterPush(p) ==
    IF job.todo = {p} THEN Idle ELSE [job EXCEPT !.todo = @ \ {p}]

\* The loop's next proposal: newest first, as listActive orders them.
Newest(p) == p \in job.todo /\ \A q \in job.todo : q <= p

\* Bug: the status is not read again before the push.
PushUnread(p) ==
    /\ job.step = "executing"
    /\ Newest(p)
    /\ job' = AfterPush(p)
    /\ pushed' = IF reachable THEN [pushed EXCEPT ![p].job = @ + 1] ELSE pushed
    /\ UNCHANGED <<fund, power, proposals, now>>

\* executeChange for the next passed proposal: it reads the status again and
\* posts the change to the agent.  A failure is logged and not tried again.
ExecuteChange(p) ==
    /\ job.step = "executing"
    /\ Newest(p)
    /\ job' = AfterPush(p)
    /\ pushed' = IF reachable /\ proposals[p].status = "passed"
                 THEN [pushed EXCEPT ![p].job = @ + 1] ELSE pushed
    /\ UNCHANGED <<fund, power, proposals, now>>

JobPush == \E p \in job.todo : ExecuteChange(p)

\* POST /config/execute/:proposalId
Execute(p) ==
    /\ proposals[p].status = "passed"
    /\ reachable
    /\ pushed[p].request < MaxRequests
    /\ pushed' = [pushed EXCEPT ![p].request = @ + 1]
    /\ UNCHANGED <<fund, power, proposals, job, now>>

\* The node restarts.
Restart ==
    /\ job # Idle
    /\ job' = Idle
    /\ UNCHANGED <<fund, power, proposals, pushed, now>>

-----------------------------------------------------------------------------
(* The fund and the clock *)

CloseAccount(t) ==
    /\ t \in held
    /\ held' = held \ {t}
    /\ UNCHANGED <<reachable, power, proposals, job, pushed, now>>

FundGoesDown ==
    /\ reachable
    /\ reachable' = FALSE
    /\ UNCHANGED <<held, power, proposals, job, pushed, now>>

FundComesBack ==
    /\ ~reachable
    /\ reachable' = TRUE
    /\ UNCHANGED <<held, power, proposals, job, pushed, now>>

Tick ==
    /\ now < MaxTime
    /\ now' = now + 1
    /\ UNCHANGED <<fund, power, proposals, job, pushed>>

-----------------------------------------------------------------------------
Init ==
    /\ held = Token
    /\ reachable = TRUE
    /\ stakes = [t \in Token |-> "none"]
    /\ delegations = <<>>
    /\ proposals = <<>>
    /\ job = Idle
    /\ pushed = [p \in 1 .. MaxProposals |-> [job |-> 0, request |-> 0]]
    /\ now = 0

\* POST /delegations, DELETE /delegations/:id and the hourly job.
Delegations ==
    \/ \E t \in Token, s \in Sentry : Delegate(t, s)
    \/ \E d \in DOMAIN delegations : EndDelegation(d) \/ UpdateValue(d)

\* POST /staking/stake, POST /staking/unstake and the hourly job.
Staking == \E t \in Token : Stake(t) \/ Unstake(t) \/ Reverify(t)

\* POST /proposals, POST /proposals/:id/vote, POST /proposals/:id/resolve.
ProposalRoutes ==
    \/ \E hours \in Hours : Propose(hours)
    \/ \E s \in Sentry, p \in DOMAIN proposals, approve \in BOOLEAN : CastVote(s, p, approve)
    \/ \E p \in DOMAIN proposals, pool \in {0, PoolValue} : Resolve(p, pool)

\* /vote in Telegram: the node's own vote.
VoteCommand == \E p \in DOMAIN proposals, approve \in BOOLEAN : CastVote(Self, p, approve)

\* /stake in Telegram: the guardian's owner stakes with the own node.
StakeCommand == \E t \in Token : Stake(t)

\* The Telegram commands that change something.
Commands ==
    \/ VoteCommand
    \/ StakeCommand
    \/ UnstakeAll
    \/ \E s \in Sentry : DelegateCommand(s)
    \/ \E D \in SUBSET {d \in DOMAIN delegations : delegations[d].active} : Undelegate(D)

Next ==
    \/ Delegations
    \/ Staking
    \/ ProposalRoutes
    \/ Commands
    \/ \E p \in DOMAIN proposals : Execute(p)
    \/ JobStart \/ JobResolve \/ JobPush \/ Restart
    \/ \E t \in Token : CloseAccount(t)
    \/ FundGoesDown \/ FundComesBack
    \/ Tick

\* Time passes, the timer fires, every await resolves (fetch has a timeout),
\* and the fund does not stay away for ever.
Spec ==
    /\ Init /\ [][Next]_vars
    /\ WF_vars(Tick)
    /\ WF_vars(JobStart) /\ WF_vars(JobResolve) /\ WF_vars(JobPush)
    /\ WF_vars(FundComesBack)

-----------------------------------------------------------------------------
(* Properties *)

\* The state is what the tables and a suspended job can hold.
TypeOK ==
    /\ held \subseteq Token /\ reachable \in BOOLEAN
    /\ stakes \in [Token -> {"none", "active", "left"}]
    /\ delegations \in Seq(Delegation)
    /\ proposals \in Seq(Proposal)
    /\ job.step \in {"idle", "polling", "executing"}
    /\ job.todo \subseteq DOMAIN proposals /\ (job.step = "executing") = (job.todo # {})
    /\ pushed \in [1 .. MaxProposals -> [job: Nat, request: Nat]]
    /\ now \in 0 .. MaxTime

\* A decision stays what the recorded votes say: however votes, requests and
\* jobs interleave, a passed proposal has its 75% of the pool it was decided
\* with, and a failed one has not.
DecisionMatchesVotes ==
    \A p \in DOMAIN proposals :
        /\ proposals[p].status = "passed" =>
               proposals[p].pool > 0 /\ ApprovePower(p) * 100 >= Threshold * proposals[p].pool
        /\ proposals[p].status = "failed" =>
               proposals[p].pool = 0 \/ ~ (ApprovePower(p) * 100 >= Threshold * proposals[p].pool)

\* A change reaches the agent only while its proposal stands as passed, also
\* when a request decides it anew between the job's decision and its push.
OnlyPassedIsPushed ==
    [][\A p \in DOMAIN proposals : pushed'[p] # pushed[p] => proposals[p].status = "passed"]_vars

\* The job pushes a change at most once, whatever restarts and requests decide
\* the proposal anew.
PushedOnce == \A p \in DOMAIN pushed : pushed[p].job <= 1

\* Every proposal is decided in the end, also when the fund never answers the
\* job in time and when the node keeps restarting.
EveryProposalIsDecided ==
    \A p \in 1 .. MaxProposals : p \in Active ~> p \notin Active
=============================================================================
