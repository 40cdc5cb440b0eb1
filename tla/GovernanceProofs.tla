-------------------------- MODULE GovernanceProofs --------------------------
(***************************************************************************)
(* Proofs about Governance, for any number of accounts, sentries,          *)
(* proposals and requests: a decision stays what the recorded votes say,   *)
(* and the job pushes a change only once and only while it stands.         *)
(*                                                                         *)
(* That nothing is pushed twice is not a matter of the job alone: a        *)
(* request may decide a proposal anew at any time.  What carries the proof *)
(* is that no action makes a decided proposal active again, and that what  *)
(* a suspended job still has to push is decided and was not pushed.        *)
(***************************************************************************)
EXTENDS Governance, SumTheorems, SequenceTheorems

\* Rows of proposals are within the bound, and their votes can be counted.
Countable ==
    /\ Len(proposals) <= MaxProposals
    /\ \A p \in DOMAIN proposals : IsFiniteSet(proposals[p].votes)

\* What was pushed was decided; what is still to push is decided and was not pushed.
PushInv ==
    /\ \A p \in DOMAIN pushed :
        /\ pushed[p].job <= 1
        /\ pushed[p].job > 0 => p \in DOMAIN proposals /\ proposals[p].status # "active"
    /\ \A p \in job.todo : pushed[p].job = 0 /\ proposals[p].status # "active"

GovernanceInv == TypeOK /\ Countable /\ PushInv /\ DecisionMatchesVotes

-----------------------------------------------------------------------------
(* Sums *)

\* The worth of some accounts is a natural number.
LEMMA WorthsType ==
  ASSUME NEW T \in SUBSET Token
  PROVE  Worths(T) \in Nat
<1>1. IsFiniteSet(T) /\ \A t \in T : Worth[t] \in Int /\ Worth[t] >= 0
  BY TokenAssumption, WorthAssumption, FS_Subset
<1>2. SumFunctionOnSet(Worth, T) \in Int /\ SumFunctionOnSet(Worth, T) >= 0
  BY <1>1, SumType, SumNonNegative
<1>. QED  BY <1>2 DEF Worths

\* So is the power of a ballot that is cast.
LEMMA VotingPowerType ==
  ASSUME NEW s \in Sentry, TypeOK
  PROVE  VotingPower(s) \in Nat
<1>. DEFINE values == [d \in DOMAIN delegations |-> delegations[d].value]
            given  == DelegatedTo(s)
<1>1. delegations \in [1 .. Len(delegations) -> Delegation] /\ Len(delegations) \in Nat
  BY LenProperties DEF TypeOK
<1>2. IsFiniteSet(given)
  <2>1. IsFiniteSet(1 .. Len(delegations)) /\ given \in SUBSET (1 .. Len(delegations))
    BY <1>1, FS_Interval DEF DelegatedTo
  <2>. QED  BY <2>1, FS_Subset
<1>3. \A d \in given : values[d] \in Int /\ values[d] >= 0
  BY <1>1 DEF DelegatedTo, Delegation
<1>4. SumFunctionOnSet(values, given) \in Int /\ SumFunctionOnSet(values, given) >= 0
  <2>. HIDE DEF values, given
  <2>. QED  BY <1>2, <1>3, SumType, SumNonNegative
<1>5. Worths(OwnTokens(s)) \in Nat
  BY WorthsType DEF OwnTokens, StakedTokens
<1>. QED  BY <1>4, <1>5 DEF VotingPower

-----------------------------------------------------------------------------
(* Rows of the table proposals *)

\* The rows are proposals.
LEMMA ProposalRows ==
  ASSUME TypeOK
  PROVE  /\ Len(proposals) \in Nat /\ DOMAIN proposals = 1 .. Len(proposals)
         /\ \A p \in DOMAIN proposals : proposals[p] \in Proposal
<1>1. proposals \in [1 .. Len(proposals) -> Proposal] /\ Len(proposals) \in Nat
  BY LenProperties DEF TypeOK
<1>. QED  BY <1>1

\* Every proposal has a counter of its pushes.
LEMMA PushedRows ==
  ASSUME TypeOK, Countable
  PROVE  /\ DOMAIN pushed = 1 .. MaxProposals /\ DOMAIN proposals \subseteq DOMAIN pushed
         /\ \A p \in DOMAIN pushed :
                /\ pushed[p].job \in Nat /\ pushed[p].request \in Nat
                /\ pushed[p] = [job |-> pushed[p].job, request |-> pushed[p].request]
<1>1. DOMAIN pushed = 1 .. MaxProposals /\ \A p \in DOMAIN pushed : pushed[p] \in [job: Nat, request: Nat]
  BY DEF TypeOK
<1>2. DOMAIN proposals \subseteq 1 .. MaxProposals
  BY ProposalRows, TimeAssumption DEF Countable
<1>. QED  BY <1>1, <1>2

\* A table whose rows are rewritten in place.
LEMMA Rewritten ==
  ASSUME TypeOK, DOMAIN proposals' = DOMAIN proposals,
         proposals' = [p \in DOMAIN proposals |-> proposals'[p]],
         \A p \in DOMAIN proposals : proposals'[p] \in Proposal
  PROVE  proposals' \in Seq(Proposal) /\ Len(proposals') = Len(proposals)
<1>1. proposals' \in [1 .. Len(proposals) -> Proposal] /\ Len(proposals) \in Nat
  BY ProposalRows
<1>2. proposals' \in Seq(Proposal)
  BY <1>1, SeqDef
<1>. QED  BY <1>1, <1>2, LenProperties

\* What a decided row says agrees with its votes.
Agrees(p) ==
    /\ proposals[p].status = "passed" =>
           proposals[p].pool > 0 /\ ApprovePower(p) * 100 >= Threshold * proposals[p].pool
    /\ proposals[p].status = "failed" =>
           proposals[p].pool = 0 \/ ~ (ApprovePower(p) * 100 >= Threshold * proposals[p].pool)

\* Votes that stay are counted as before.
LEMMA SameVotes ==
  ASSUME NEW p, proposals'[p].votes = proposals[p].votes
  PROVE  ApprovePower(p)' = ApprovePower(p)
  BY DEF ApprovePower, PowerOf

\* A decision is a proposal with the same votes, and agrees with them.
LEMMA ResolvedRow ==
  ASSUME NEW p \in DOMAIN proposals, NEW pool \in Nat, GovernanceInv, proposals'[p] = Resolved(p, pool)
  PROVE  /\ proposals'[p] \in Proposal /\ proposals'[p].votes = proposals[p].votes
         /\ proposals'[p].status \in {"passed", "failed"}
         /\ Agrees(p)'
<1>1. proposals[p] \in Proposal
  BY ProposalRows DEF GovernanceInv
<1>2. /\ proposals'[p] \in Proposal /\ proposals'[p].votes = proposals[p].votes
      /\ proposals'[p].pool = pool
      /\ proposals'[p].status = IF Passes(p, pool) THEN "passed" ELSE "failed"
  BY <1>1 DEF Resolved, Proposal
<1>3. ApprovePower(p)' = ApprovePower(p)
  BY <1>2, SameVotes
<1>4. proposals[p].votes # {} \/ ~ (ApprovePower(p) * 100 >= Threshold * pool) \/ pool = 0
  <2>1. ASSUME proposals[p].votes = {} PROVE ApprovePower(p) = 0
    <3>1. {b \in proposals[p].votes : b.approve} = {}
      BY <2>1
    <3>. QED  BY <3>1, SumEmpty DEF ApprovePower, PowerOf
  <2>. QED  BY <2>1 DEF Threshold
<1>. QED  BY <1>2, <1>3, <1>4 DEF Agrees, Passes

\* Rewriting rows in place keeps the invariant's part about the table when each
\* row stays a proposal with finitely many votes that agrees with its decision.
LEMMA TableKept ==
  ASSUME GovernanceInv, DOMAIN proposals' = DOMAIN proposals,
         proposals' = [p \in DOMAIN proposals |-> proposals'[p]],
         \A p \in DOMAIN proposals :
             proposals'[p] \in Proposal /\ IsFiniteSet(proposals'[p].votes) /\ Agrees(p)'
  PROVE  proposals' \in Seq(Proposal) /\ Countable' /\ DecisionMatchesVotes'
<1>1. proposals' \in Seq(Proposal) /\ Len(proposals') = Len(proposals)
  BY Rewritten DEF GovernanceInv
<1>2. Countable'
  BY <1>1 DEF GovernanceInv, Countable
<1>3. DecisionMatchesVotes'
  BY DEF DecisionMatchesVotes, Agrees
<1>. QED  BY <1>1, <1>2, <1>3

\* A row that does not change agrees as before.
LEMMA RowKept ==
  ASSUME NEW p \in DOMAIN proposals, GovernanceInv, proposals'[p] = proposals[p]
  PROVE  proposals'[p] \in Proposal /\ IsFiniteSet(proposals'[p].votes) /\ Agrees(p)'
<1>1. ApprovePower(p)' = ApprovePower(p)
  BY SameVotes
<1>2. proposals[p] \in Proposal /\ IsFiniteSet(proposals[p].votes) /\ Agrees(p)
  BY ProposalRows DEF GovernanceInv, Countable, DecisionMatchesVotes, Agrees
<1>. QED  BY <1>1, <1>2 DEF Agrees

-----------------------------------------------------------------------------
(* Steps that leave proposals, job and pushes alone *)

\* Everything about them stays.
LEMMA Untouched ==
  ASSUME GovernanceInv, UNCHANGED <<proposals, job, pushed>>
  PROVE  Countable' /\ PushInv' /\ DecisionMatchesVotes'
<1>1. \A p \in DOMAIN proposals : ApprovePower(p)' = ApprovePower(p)
  BY SameVotes
<1>2. DecisionMatchesVotes'
  BY <1>1 DEF GovernanceInv, DecisionMatchesVotes
<1>. QED  BY <1>2 DEF GovernanceInv, Countable, PushInv

\* Stakes come and go.
LEMMA StakingInv ==
  ASSUME GovernanceInv, Staking \/ UnstakeAll
  PROVE  GovernanceInv'
<1>1. UNCHANGED <<proposals, job, pushed>>
  BY DEF Staking, Stake, Unstake, Reverify, UnstakeAll
<1>2. stakes' \in [Token -> {"none", "active", "left"}]
  BY DEF Staking, Stake, Unstake, Reverify, UnstakeAll, GovernanceInv, TypeOK
<1>3. TypeOK'
  BY <1>2 DEF Staking, Stake, Unstake, Reverify, UnstakeAll, GovernanceInv, TypeOK, fund, power
<1>. QED  BY <1>1, <1>3, Untouched DEF GovernanceInv

\* The rows of the table of delegations.
LEMMA DelegationRows ==
  ASSUME TypeOK
  PROVE  /\ Len(delegations) \in Nat /\ DOMAIN delegations = 1 .. Len(delegations)
         /\ \A d \in DOMAIN delegations : delegations[d] \in Delegation
<1>1. delegations \in [1 .. Len(delegations) -> Delegation] /\ Len(delegations) \in Nat
  BY LenProperties DEF TypeOK
<1>. QED  BY <1>1

\* A new delegation is worth a natural number.
LEMMA CreateInv ==
  ASSUME GovernanceInv, NEW tokens \in SUBSET Token, NEW s \in Sentry, NEW value \in Nat,
         Create(tokens, s, value)
  PROVE  GovernanceInv'
<1>1. [tokens |-> tokens, sentry |-> s, value |-> value, active |-> TRUE] \in Delegation
  BY DEF Delegation
<1>2. delegations' \in Seq(Delegation)
  BY <1>1, AppendProperties DEF Create, GovernanceInv, TypeOK
<1>3. TypeOK' /\ UNCHANGED <<proposals, job, pushed>>
  BY <1>2 DEF Create, GovernanceInv, TypeOK, fund
<1>. QED  BY <1>3, Untouched DEF GovernanceInv

\* Delegations end, and their values are looked up anew.
LEMMA DelegationChange ==
  ASSUME GovernanceInv, DOMAIN delegations' = DOMAIN delegations,
         delegations' = [d \in DOMAIN delegations |-> delegations'[d]],
         \A d \in DOMAIN delegations : delegations'[d] \in Delegation,
         UNCHANGED <<held, reachable, stakes, proposals, job, pushed, now>>
  PROVE  GovernanceInv'
<1>1. delegations' \in [1 .. Len(delegations) -> Delegation] /\ Len(delegations) \in Nat
  BY DelegationRows DEF GovernanceInv
<1>2. delegations' \in Seq(Delegation)
  BY <1>1, SeqDef
<1>3. TypeOK'
  BY <1>2 DEF GovernanceInv, TypeOK
<1>. QED  BY <1>3, Untouched DEF GovernanceInv

\* revoke, expiry, /undelegate and updateValues.
LEMMA DelegationRowsInv ==
  ASSUME GovernanceInv,
         \/ \E d \in DOMAIN delegations : EndDelegation(d) \/ UpdateValue(d)
         \/ \E D \in SUBSET {d \in DOMAIN delegations : delegations[d].active} : Undelegate(D)
  PROVE  GovernanceInv'
<1>0. \A d \in DOMAIN delegations : delegations[d] \in Delegation
  BY DelegationRows DEF GovernanceInv
<1>1. ASSUME NEW d \in DOMAIN delegations, EndDelegation(d) PROVE GovernanceInv'
  <2>1. [delegations[d] EXCEPT !.active = FALSE] \in Delegation
    BY <1>0 DEF Delegation
  <2>2. delegations' = [delegations EXCEPT ![d] = [delegations[d] EXCEPT !.active = FALSE]]
    BY <1>1 DEF EndDelegation
  <2>. QED  BY <1>0, <1>1, <2>1, <2>2, DelegationChange DEF EndDelegation, fund
<1>2. ASSUME NEW d \in DOMAIN delegations, UpdateValue(d) PROVE GovernanceInv'
  <2>. DEFINE value == IF reachable THEN Worths(delegations[d].tokens \cap held) ELSE 0
  <2>1. value \in Nat
    <3>1. delegations[d].tokens \cap held \in SUBSET Token
      BY DEF GovernanceInv, TypeOK
    <3>. QED  BY <3>1, WorthsType
  <2>2. [delegations[d] EXCEPT !.value = value] \in Delegation
    BY <1>0, <2>1 DEF Delegation
  <2>3. delegations' = [delegations EXCEPT ![d] = [delegations[d] EXCEPT !.value = value]]
    BY <1>2 DEF UpdateValue
  <2>. QED  BY <1>0, <1>2, <2>2, <2>3, DelegationChange DEF UpdateValue, fund
<1>3. ASSUME NEW D \in SUBSET {d \in DOMAIN delegations : delegations[d].active}, Undelegate(D)
      PROVE  GovernanceInv'
  <2>1. \A d \in DOMAIN delegations : [delegations[d] EXCEPT !.active = FALSE] \in Delegation
    BY <1>0 DEF Delegation
  <2>. QED  BY <1>0, <1>3, <2>1, DelegationChange DEF Undelegate, fund
<1>. QED  BY <1>1, <1>2, <1>3

\* Delegating, from the agent or in Telegram.
LEMMA DelegateInv ==
  ASSUME GovernanceInv, NEW s \in Sentry, DelegateCommand(s) \/ \E t \in Token : Delegate(t, s)
  PROVE  GovernanceInv'
<1>1. ASSUME NEW t \in Token, Delegate(t, s) PROVE GovernanceInv'
  <2>1. Worth[t] \in Nat /\ {t} \in SUBSET Token
    BY WorthAssumption
  <2>. QED  BY <1>1, <2>1, CreateInv DEF Delegate
<1>2. CASE DelegateCommand(s)
  BY <1>2, CreateInv DEF DelegateCommand
<1>. QED  BY <1>1, <1>2

\* Accounts close, the fund goes away and comes back, time passes.
LEMMA EnvironmentInv ==
  ASSUME GovernanceInv,
         (\E t \in Token : CloseAccount(t)) \/ FundGoesDown \/ FundComesBack \/ Tick
  PROVE  GovernanceInv'
<1>1. UNCHANGED <<proposals, job, pushed>>
  BY DEF CloseAccount, FundGoesDown, FundComesBack, Tick
<1>2. TypeOK'
  <2>1. CASE \E t \in Token : CloseAccount(t)
    BY <2>1 DEF CloseAccount, GovernanceInv, TypeOK, power
  <2>2. CASE FundGoesDown \/ FundComesBack
    BY <2>2 DEF FundGoesDown, FundComesBack, GovernanceInv, TypeOK, power
  <2>3. CASE Tick
    <3>1. now' \in 0 .. MaxTime
      BY <2>3, TimeAssumption DEF Tick, GovernanceInv, TypeOK
    <3>. QED  BY <2>3, <3>1 DEF Tick, GovernanceInv, TypeOK, fund, power
  <2>. QED  BY <2>1, <2>2, <2>3
<1>. QED  BY <1>1, <1>2, Untouched DEF GovernanceInv

-----------------------------------------------------------------------------
(* Proposals, votes and decisions *)

\* A new proposal is undecided, without votes, and its row was never pushed.
LEMMA ProposeInv ==
  ASSUME GovernanceInv, NEW hours \in Hours, Propose(hours)
  PROVE  GovernanceInv'
<1>. DEFINE new == [deadline |-> now + hours, status |-> "active", votes |-> {}, pool |-> 0]
            n   == Len(proposals)
<1>1. new \in Proposal
  BY TimeAssumption DEF GovernanceInv, TypeOK, Proposal
<1>2. n \in Nat /\ DOMAIN proposals = 1 .. n /\ proposals \in Seq(Proposal) /\ n < MaxProposals
  BY ProposalRows DEF Propose, GovernanceInv, TypeOK
<1>3. /\ proposals' \in Seq(Proposal) /\ Len(proposals') = n + 1
      /\ DOMAIN proposals' = DOMAIN proposals \cup {n + 1}
      /\ \A p \in DOMAIN proposals : proposals'[p] = proposals[p]
      /\ proposals'[n + 1] = new
  <2>1. proposals' = Append(proposals, new)
    BY DEF Propose
  <2>. QED  BY <1>1, <1>2, <2>1, AppendProperties
<1>4. TypeOK'
  BY <1>3 DEF Propose, GovernanceInv, TypeOK, fund, power
<1>5. Countable'
  <2>1. Len(proposals') <= MaxProposals
    BY <1>2, <1>3, TimeAssumption
  <2>2. IsFiniteSet(proposals'[n + 1].votes)
    BY <1>3, FS_EmptySet
  <2>. QED  BY <1>3, <2>1, <2>2 DEF GovernanceInv, Countable
<1>6. PushInv'
  <2>1. \A p \in DOMAIN proposals : p \in DOMAIN proposals' /\ proposals'[p].status = proposals[p].status
    BY <1>3
  <2>2. job.todo \subseteq DOMAIN proposals /\ UNCHANGED <<job, pushed>>
    BY DEF Propose, GovernanceInv, TypeOK
  <2>. QED  BY <2>1, <2>2 DEF GovernanceInv, PushInv
<1>7. DecisionMatchesVotes'
  <2>1. \A p \in DOMAIN proposals : Agrees(p)'
    BY <1>3, RowKept
  <2>2. \A p \in DOMAIN proposals' : p = n + 1 => proposals'[p].status = "active"
    BY <1>3
  <2>. QED  BY <1>3, <2>1, <2>2 DEF DecisionMatchesVotes, Agrees
<1>. QED  BY <1>4, <1>5, <1>6, <1>7 DEF GovernanceInv

\* A vote is added to a proposal that is not decided.
LEMMA CastVoteInv ==
  ASSUME GovernanceInv, NEW s \in Sentry, NEW p \in DOMAIN proposals, NEW approve \in BOOLEAN,
         CastVote(s, p, approve)
  PROVE  GovernanceInv'
<1>. DEFINE votes == proposals[p].votes \cup {BallotOf(s, approve)}
<1>1. BallotOf(s, approve) \in Ballot
  BY VotingPowerType DEF GovernanceInv, BallotOf, Ballot
<1>2. proposals[p] \in Proposal /\ proposals[p].status = "active" /\ IsFiniteSet(proposals[p].votes)
  BY ProposalRows DEF CastVote, GovernanceInv, Countable
<1>3. IsFiniteSet(votes)
  BY <1>2, FS_AddElement
<1>4. proposals' = [proposals EXCEPT ![p] = [proposals[p] EXCEPT !.votes = votes]]
  BY DEF CastVote
<1>5. /\ proposals'[p] \in Proposal /\ proposals'[p].status = "active" /\ proposals'[p].votes = votes
  BY <1>1, <1>2, <1>4 DEF Proposal
<1>6. \A q \in DOMAIN proposals : q # p => proposals'[q] = proposals[q]
  BY <1>4
<1>7. Agrees(p)'
  BY <1>5 DEF Agrees
<1>8. proposals' \in Seq(Proposal) /\ Countable' /\ DecisionMatchesVotes'
  BY <1>3, <1>4, <1>5, <1>6, <1>7, RowKept, TableKept
<1>9. TypeOK'
  BY <1>4, <1>8 DEF CastVote, GovernanceInv, TypeOK, fund, power
<1>10. PushInv'
  BY <1>2, <1>4, <1>5, <1>6 DEF CastVote, GovernanceInv, TypeOK, PushInv
<1>. QED  BY <1>8, <1>9, <1>10 DEF GovernanceInv

\* A request decides a proposal, also one that was decided before.
LEMMA ResolveInv ==
  ASSUME GovernanceInv, NEW p \in DOMAIN proposals, NEW pool \in {0, PoolValue}, Resolve(p, pool)
  PROVE  GovernanceInv'
<1>0. pool \in Nat
  BY WorthsType DEF PoolValue, GovernanceInv, TypeOK
<1>1. proposals' = [proposals EXCEPT ![p] = Resolved(p, pool)]
  BY DEF Resolve
<1>2. /\ proposals'[p] \in Proposal /\ proposals'[p].votes = proposals[p].votes
      /\ proposals'[p].status \in {"passed", "failed"} /\ Agrees(p)'
  BY <1>0, <1>1, ResolvedRow
<1>3. \A q \in DOMAIN proposals : q # p => proposals'[q] = proposals[q]
  BY <1>1
<1>4. proposals' \in Seq(Proposal) /\ Countable' /\ DecisionMatchesVotes'
  BY <1>1, <1>2, <1>3, RowKept, TableKept DEF GovernanceInv, Countable
<1>5. TypeOK'
  BY <1>1, <1>4 DEF Resolve, GovernanceInv, TypeOK, fund, power
<1>6. PushInv'
  BY <1>1, <1>2, <1>3 DEF Resolve, GovernanceInv, TypeOK, PushInv
<1>. QED  BY <1>4, <1>5, <1>6 DEF GovernanceInv

-----------------------------------------------------------------------------
(* The resolution job *)

\* Overdue proposals expire; nothing else changes but the job's step.
LEMMA JobStartInv ==
  ASSUME GovernanceInv, JobStart
  PROVE  GovernanceInv'
<1>1. DOMAIN proposals' = DOMAIN proposals /\ proposals' = [p \in DOMAIN proposals |-> proposals'[p]]
  BY DEF JobStart, ExpireOverdue
<1>2. ASSUME NEW p \in DOMAIN proposals, proposals'[p] # proposals[p]
      PROVE  /\ proposals'[p] \in Proposal /\ proposals'[p].votes = proposals[p].votes
             /\ proposals'[p].status = "expired"
  <2>1. proposals'[p] = [proposals[p] EXCEPT !.status = "expired"] /\ proposals[p] \in Proposal
    BY <1>2, ProposalRows DEF JobStart, ExpireOverdue, GovernanceInv
  <2>. QED  BY <2>1 DEF Proposal
<1>3. \A p \in DOMAIN proposals : proposals'[p] # proposals[p] => Agrees(p)'
  BY <1>2 DEF Agrees
<1>4. proposals' \in Seq(Proposal) /\ Countable' /\ DecisionMatchesVotes'
  BY <1>1, <1>2, <1>3, RowKept, TableKept DEF GovernanceInv, Countable
<1>5. job.todo = {} /\ job'.todo = {} /\ job'.step = "polling"
  BY DEF JobStart, GovernanceInv, TypeOK
<1>6. TypeOK'
  BY <1>4, <1>5 DEF JobStart, GovernanceInv, TypeOK, fund, power
<1>7. PushInv'
  BY <1>1, <1>2, <1>5 DEF JobStart, GovernanceInv, TypeOK, PushInv
<1>. QED  BY <1>4, <1>6, <1>7 DEF GovernanceInv

\* The job decides what is due, and will push what passed: nothing of it was
\* pushed, since none of it was decided.
LEMMA JobResolveInv ==
  ASSUME GovernanceInv, JobResolve
  PROVE  GovernanceInv'
<1>. DEFINE passed == {p \in Due : Passes(p, PoolValue)}
<1>0. PoolValue \in Nat /\ job.todo = {}
  BY WorthsType DEF PoolValue, JobResolve, GovernanceInv, TypeOK
<1>1. CASE reachable /\ PoolValue > 0
  <2>1. proposals' = [p \in DOMAIN proposals |-> IF p \in Due THEN Resolved(p, PoolValue) ELSE proposals[p]]
    BY <1>1 DEF JobResolve
  <2>2. \A p \in DOMAIN proposals \ Due : proposals'[p] = proposals[p]
    BY <2>1
  <2>3. ASSUME NEW p \in Due
        PROVE  /\ proposals'[p] \in Proposal /\ proposals'[p].votes = proposals[p].votes
               /\ proposals'[p].status \in {"passed", "failed"} /\ Agrees(p)'
               /\ proposals[p].status = "active" /\ p \in DOMAIN proposals
    <3>1. p \in DOMAIN proposals /\ proposals[p].status = "active"
      BY DEF Due, Active
    <3>2. proposals'[p] = Resolved(p, PoolValue)
      BY <2>1, <3>1
    <3>. QED  BY <1>0, <3>1, <3>2, ResolvedRow
  <2>4. proposals' \in Seq(Proposal) /\ Countable' /\ DecisionMatchesVotes'
    <3>1. \A p \in DOMAIN proposals :
              proposals'[p] \in Proposal /\ IsFiniteSet(proposals'[p].votes) /\ Agrees(p)'
      BY <2>2, <2>3, RowKept DEF GovernanceInv, Countable
    <3>. QED  BY <2>1, <3>1, TableKept
  <2>5. job' = IF passed = {} THEN Idle ELSE [step |-> "executing", todo |-> passed]
    BY <1>1 DEF JobResolve
  <2>6. job'.todo \subseteq Due /\ job'.step \in {"idle", "executing"} /\ (job'.step = "executing") = (job'.todo # {})
    BY <2>5 DEF Idle
  <2>7. UNCHANGED <<held, reachable, stakes, delegations, pushed, now>>
    BY DEF JobResolve, fund, power
  <2>8. DOMAIN proposals' = DOMAIN proposals /\ Due \subseteq DOMAIN proposals
    BY <2>1 DEF Due, Active
  <2>9. TypeOK'
    BY <2>4, <2>6, <2>7, <2>8 DEF GovernanceInv, TypeOK
  <2>10. PushInv'
    <3>1. \A p \in Due : pushed[p].job = 0
      <4>1. Due \subseteq DOMAIN pushed /\ \A p \in Due : pushed[p].job \in Nat
        BY <2>8, PushedRows DEF GovernanceInv
      <4>. QED  BY <2>3, <4>1 DEF GovernanceInv, PushInv
    <3>. QED  BY <2>2, <2>3, <2>6, <2>7, <2>8, <3>1 DEF GovernanceInv, PushInv
  <2>. QED  BY <2>4, <2>9, <2>10 DEF GovernanceInv
<1>2. CASE ~ (reachable /\ PoolValue > 0)
  <2>1. UNCHANGED <<held, reachable, stakes, delegations, proposals, pushed, now>> /\ job' = Idle
    BY <1>2 DEF JobResolve, fund, power
  <2>2. \A p \in DOMAIN proposals : ApprovePower(p)' = ApprovePower(p)
    BY <2>1, SameVotes
  <2>3. TypeOK' /\ Countable' /\ PushInv'
    BY <2>1 DEF GovernanceInv, TypeOK, Countable, PushInv, Idle
  <2>4. DecisionMatchesVotes'
    BY <2>1, <2>2 DEF GovernanceInv, DecisionMatchesVotes
  <2>. QED  BY <2>3, <2>4 DEF GovernanceInv
<1>. QED  BY <1>1, <1>2

\* The counters of a pushed row keep their types.
LEMMA PushedRow ==
  ASSUME TypeOK, NEW p \in DOMAIN pushed, NEW job1 \in Nat, NEW request1 \in Nat,
         pushed' = [pushed EXCEPT ![p] = [job |-> job1, request |-> request1]]
  PROVE  pushed' \in [1 .. MaxProposals -> [job: Nat, request: Nat]]
  BY DEF TypeOK

\* A push takes its proposal off the job's list.
LEMMA ExecuteChangeInv ==
  ASSUME GovernanceInv, NEW p \in job.todo, ExecuteChange(p)
  PROVE  GovernanceInv'
<1>1. p \in DOMAIN proposals /\ p \in DOMAIN pushed /\ proposals[p].status # "active" /\ pushed[p].job = 0
  BY PushedRows DEF GovernanceInv, TypeOK, PushInv
<1>2. UNCHANGED <<held, reachable, stakes, delegations, proposals, now>>
  BY DEF ExecuteChange, fund, power
<1>3. /\ job'.todo = job.todo \ {p} /\ job'.step \in {"idle", "executing"}
      /\ (job'.step = "executing") = (job'.todo # {})
  BY DEF ExecuteChange, AfterPush, Idle, GovernanceInv, TypeOK
<1>4. pushed[p] = [job |-> pushed[p].job, request |-> pushed[p].request] /\ pushed[p].request \in Nat
  BY <1>1, PushedRows DEF GovernanceInv
<1>5. pushed' = [pushed EXCEPT ![p] = [job |-> 1, request |-> pushed[p].request]] \/ pushed' = pushed
  <2>1. pushed' = [pushed EXCEPT ![p] = [pushed[p] EXCEPT !.job = pushed[p].job + 1]] \/ pushed' = pushed
    BY DEF ExecuteChange
  <2>2. [pushed[p] EXCEPT !.job = pushed[p].job + 1] = [job |-> 1, request |-> pushed[p].request]
    BY <1>1, <1>4
  <2>. QED  BY <2>1, <2>2
<1>6. pushed' \in [1 .. MaxProposals -> [job: Nat, request: Nat]]
  <2>1. pushed \in [1 .. MaxProposals -> [job: Nat, request: Nat]]
    BY DEF GovernanceInv, TypeOK
  <2>2. [job |-> 1, request |-> pushed[p].request] \in [job: Nat, request: Nat]
    BY <1>4
  <2>. QED  BY <1>5, <2>1, <2>2
<1>7. TypeOK'
  BY <1>2, <1>3, <1>6 DEF GovernanceInv, TypeOK
<1>8. PushInv'
  <2>1. /\ DOMAIN pushed' = DOMAIN pushed /\ pushed'[p].job \in {0, 1}
        /\ \A q \in DOMAIN pushed : q # p => pushed'[q] = pushed[q]
    BY <1>1, <1>5
  <2>2. job.todo \subseteq DOMAIN pushed
    BY PushedRows DEF GovernanceInv, TypeOK
  <2>3. \A q \in DOMAIN pushed' :
            /\ pushed'[q].job <= 1
            /\ pushed'[q].job > 0 => q \in DOMAIN proposals' /\ proposals'[q].status # "active"
    BY <1>1, <1>2, <2>1 DEF GovernanceInv, PushInv
  <2>4. \A q \in job'.todo : pushed'[q].job = 0 /\ proposals'[q].status # "active"
    BY <1>2, <1>3, <2>1, <2>2 DEF GovernanceInv, PushInv
  <2>. QED  BY <2>3, <2>4 DEF PushInv
<1>9. Countable' /\ DecisionMatchesVotes'
  <2>1. \A q \in DOMAIN proposals : ApprovePower(q)' = ApprovePower(q)
    BY <1>2, SameVotes
  <2>. QED  BY <1>2, <2>1 DEF GovernanceInv, Countable, DecisionMatchesVotes
<1>. QED  BY <1>7, <1>8, <1>9 DEF GovernanceInv

\* A request counts apart from the job.
LEMMA ExecuteInv ==
  ASSUME GovernanceInv, NEW p \in DOMAIN proposals, Execute(p)
  PROVE  GovernanceInv'
<1>1. p \in DOMAIN pushed
  BY PushedRows DEF GovernanceInv
<1>2. /\ pushed[p] = [job |-> pushed[p].job, request |-> pushed[p].request]
      /\ pushed[p].request \in Nat /\ pushed[p].job \in Nat
  BY <1>1, PushedRows DEF GovernanceInv
<1>3. pushed' = [pushed EXCEPT ![p] = [job |-> pushed[p].job, request |-> pushed[p].request + 1]]
  <2>1. pushed' = [pushed EXCEPT ![p] = [pushed[p] EXCEPT !.request = pushed[p].request + 1]]
    BY DEF Execute
  <2>2. [pushed[p] EXCEPT !.request = pushed[p].request + 1]
            = [job |-> pushed[p].job, request |-> pushed[p].request + 1]
    BY <1>2
  <2>. QED  BY <2>1, <2>2
<1>4. UNCHANGED <<held, reachable, stakes, delegations, proposals, job, now>>
  BY DEF Execute, fund, power
<1>5. TypeOK'
  <2>1. pushed' \in [1 .. MaxProposals -> [job: Nat, request: Nat]]
    <3>1. pushed[p].request + 1 \in Nat
      BY <1>2
    <3>. QED  BY <1>1, <1>2, <1>3, <3>1, PushedRow DEF GovernanceInv
  <2>. QED  BY <1>4, <2>1 DEF GovernanceInv, TypeOK
<1>6. PushInv'
  <2>1. DOMAIN pushed' = DOMAIN pushed /\ \A q \in DOMAIN pushed : pushed'[q].job = pushed[q].job
    BY <1>1, <1>3
  <2>2. job.todo \subseteq DOMAIN pushed
    BY PushedRows DEF GovernanceInv, TypeOK
  <2>. QED  BY <1>4, <2>1, <2>2 DEF GovernanceInv, PushInv
<1>7. Countable' /\ DecisionMatchesVotes'
  <2>1. \A q \in DOMAIN proposals : ApprovePower(q)' = ApprovePower(q)
    BY <1>4, SameVotes
  <2>. QED  BY <1>4, <2>1 DEF GovernanceInv, Countable, DecisionMatchesVotes
<1>. QED  BY <1>5, <1>6, <1>7 DEF GovernanceInv

\* A restart forgets the job's list.
LEMMA RestartInv ==
  ASSUME GovernanceInv, Restart
  PROVE  GovernanceInv'
<1>1. UNCHANGED <<held, reachable, stakes, delegations, proposals, pushed, now>> /\ job' = Idle
  BY DEF Restart, fund, power
<1>2. \A p \in DOMAIN proposals : ApprovePower(p)' = ApprovePower(p)
  BY <1>1, SameVotes
<1>3. TypeOK' /\ Countable' /\ PushInv'
  BY <1>1 DEF GovernanceInv, TypeOK, Countable, PushInv, Idle
<1>4. DecisionMatchesVotes'
  BY <1>1, <1>2 DEF GovernanceInv, DecisionMatchesVotes
<1>. QED  BY <1>3, <1>4 DEF GovernanceInv

-----------------------------------------------------------------------------
(* Theorems *)

\* No proposals yet.
LEMMA InitInv == Init => GovernanceInv
<1>. SUFFICES ASSUME Init PROVE GovernanceInv
  OBVIOUS
<1>1. DOMAIN proposals = {} /\ Len(proposals) = 0 /\ job.todo = {} /\ job.step = "idle"
  BY DEF Init, Idle
<1>2. proposals \in Seq(Proposal) /\ delegations \in Seq(Delegation)
  BY EmptySeq DEF Init
<1>3. pushed \in [1 .. MaxProposals -> [job: Nat, request: Nat]]
  BY DEF Init
<1>4. TypeOK
  BY <1>1, <1>2, <1>3, TimeAssumption DEF Init, TypeOK
<1>5. Countable /\ PushInv /\ DecisionMatchesVotes
  BY <1>1, TimeAssumption DEF Init, Countable, PushInv, DecisionMatchesVotes
<1>. QED  BY <1>4, <1>5 DEF GovernanceInv

\* Every step keeps the invariant.
LEMMA NextInv == GovernanceInv /\ [Next]_vars => GovernanceInv'
<1>. SUFFICES ASSUME GovernanceInv, [Next]_vars PROVE GovernanceInv'
  OBVIOUS
<1>1. CASE Delegations
  BY <1>1, DelegateInv, DelegationRowsInv DEF Delegations
<1>2. CASE Staking
  BY <1>2, StakingInv
<1>3. CASE ProposalRoutes
  BY <1>3, ProposeInv, CastVoteInv, ResolveInv DEF ProposalRoutes
<1>4. CASE Commands
  <2>1. CASE VoteCommand
    BY <2>1, CastVoteInv, SelfAssumption DEF VoteCommand
  <2>2. CASE StakeCommand \/ UnstakeAll
    BY <2>2, StakingInv DEF StakeCommand, Staking
  <2>3. CASE \E s \in Sentry : DelegateCommand(s)
    BY <2>3, DelegateInv
  <2>4. CASE \E D \in SUBSET {d \in DOMAIN delegations : delegations[d].active} : Undelegate(D)
    BY <2>4, DelegationRowsInv
  <2>. QED  BY <1>4, <2>1, <2>2, <2>3, <2>4 DEF Commands
<1>5. CASE \E p \in DOMAIN proposals : Execute(p)
  BY <1>5, ExecuteInv
<1>6. CASE JobStart \/ JobResolve \/ JobPush \/ Restart
  BY <1>6, JobStartInv, JobResolveInv, ExecuteChangeInv, RestartInv DEF JobPush
<1>7. CASE (\E t \in Token : CloseAccount(t)) \/ FundGoesDown \/ FundComesBack \/ Tick
  BY <1>7, EnvironmentInv
<1>8. CASE UNCHANGED vars
  <2>1. TypeOK'
    BY <1>8 DEF vars, GovernanceInv, TypeOK
  <2>. QED  BY <1>8, <2>1, Untouched DEF vars, GovernanceInv
<1>. QED  BY <1>1, <1>2, <1>3, <1>4, <1>5, <1>6, <1>7, <1>8 DEF Next

\* The inductive invariant of governance.
THEOREM GovernanceInvariant == Spec => []GovernanceInv
  BY InitInv, NextInv, PTL DEF Spec

\* Tables and jobs keep their types.
THEOREM GovernanceTypes == Spec => []TypeOK
<1>1. GovernanceInv => TypeOK
  BY DEF GovernanceInv
<1>. QED  BY <1>1, GovernanceInvariant, PTL

\* A passed proposal has its 75% of the pool it was decided with, a failed one has not.
THEOREM DecisionsMatchVotes == Spec => []DecisionMatchesVotes
<1>1. GovernanceInv => DecisionMatchesVotes
  BY DEF GovernanceInv
<1>. QED  BY <1>1, GovernanceInvariant, PTL

\* The job pushes a change at most once.
THEOREM PushedAtMostOnce == Spec => []PushedOnce
<1>1. GovernanceInv => PushedOnce
  BY DEF GovernanceInv, PushInv, PushedOnce
<1>. QED  BY <1>1, GovernanceInvariant, PTL

\* The step formula of OnlyPassedIsPushed.
PushesPassed == \A p \in DOMAIN proposals : pushed'[p] # pushed[p] => proposals[p].status = "passed"

\* Only the job's push and a request's push push, and both look at the status.
LEMMA NextPushesPassed == GovernanceInv /\ [Next]_vars => PushesPassed
<1>. SUFFICES ASSUME GovernanceInv, [Next]_vars PROVE PushesPassed
  OBVIOUS
<1>0. pushed \in [1 .. MaxProposals -> [job: Nat, request: Nat]]
  BY DEF GovernanceInv, TypeOK
<1>1. CASE UNCHANGED pushed
  BY <1>1 DEF PushesPassed
<1>2. ASSUME NEW p \in job.todo, ExecuteChange(p) PROVE PushesPassed
  BY <1>0, <1>2 DEF ExecuteChange, PushesPassed
<1>3. ASSUME NEW p \in DOMAIN proposals, Execute(p) PROVE PushesPassed
  BY <1>0, <1>3 DEF Execute, PushesPassed
<1>4. CASE Delegations
  BY <1>1, <1>4 DEF Delegations, Delegate, Create, EndDelegation, UpdateValue
<1>5. CASE Staking
  BY <1>1, <1>5 DEF Staking, Stake, Unstake, Reverify
<1>6. CASE ProposalRoutes
  BY <1>1, <1>6 DEF ProposalRoutes, Propose, CastVote, Resolve
<1>7. CASE Commands
  BY <1>1, <1>7 DEF Commands, VoteCommand, CastVote, StakeCommand, Stake, UnstakeAll, DelegateCommand,
                    Create, Undelegate
<1>8. CASE JobStart \/ JobResolve \/ Restart
  BY <1>1, <1>8 DEF JobStart, JobResolve, Restart
<1>9. CASE (\E t \in Token : CloseAccount(t)) \/ FundGoesDown \/ FundComesBack \/ Tick
  BY <1>1, <1>9 DEF CloseAccount, FundGoesDown, FundComesBack, Tick
<1>. QED
  BY <1>1, <1>2, <1>3, <1>4, <1>5, <1>6, <1>7, <1>8, <1>9 DEF Next, JobPush, vars

\* A change reaches the agent only while its proposal stands as passed.
THEOREM PushesOnlyPassed == Spec => OnlyPassedIsPushed
<1>1. GovernanceInv /\ [Next]_vars => [PushesPassed]_vars
  BY NextPushesPassed
<1>. QED  BY <1>1, GovernanceInvariant, PTL DEF Spec, OnlyPassedIsPushed, PushesPassed
=============================================================================
