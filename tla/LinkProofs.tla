------------------------------ MODULE LinkProofs -----------------------------
(***************************************************************************)
(* Proofs about the two models of what guardians and agents tell each      *)
(* other: AgentLink and StakingSync.                                       *)
(*                                                                         *)
(* AgentLink: what is put into effect was carried by a vote, for any       *)
(* number of agents, proposals, requests, timeouts and restarts.  The      *)
(* invariant follows a change on its way: what the job still has to push,  *)
(* and what is under way, even for nobody, is of proposals that were       *)
(* carried, and what was acknowledged was applied.  With it every step is  *)
(* one that VotedSettings allows.                                          *)
(*                                                                         *)
(* StakingSync: the tables stay well-formed whatever is written over them  *)
(* late.  The invariant also describes what suspended calls have read: the *)
(* rows of the tool, and what the job has heard.                           *)
(***************************************************************************)
EXTENDS AgentLink, StakingSync, FiniteSetTheorems, SequenceTheorems, TLAPS

(* AgentLink: the invariant *)

Endpoint == Agent \cup {Nowhere}

\* The agents, with their settings and what was saved of them.
AgentsTyped ==
    /\ up \subseteq Agent /\ posts \subseteq Agent /\ registered \subseteq up
    /\ settings \in [Agent -> Settings] /\ snapshot \in Settings

\* Endpoints are of agents, or of nobody.
EndpointsTyped == entry \in Endpoint /\ config \in Endpoint /\ health \in Endpoint

\* A proposal that stands as passed was carried.
VotesTyped ==
    /\ proposals \in Seq(Proposal) /\ Len(proposals) <= MaxProposals
    /\ \A i \in Ids : proposals[i].status = "passed" => proposals[i].carried
    /\ pushes \subseteq Push /\ applied \subseteq Ids

\* The health checks.
ChecksTyped == latest \in Seen /\ checks \subseteq Check

Carried == {i \in Ids : proposals[i].carried}

\* The resolution job has proposals to push that were carried, each of them once.
JobIsCarried == job \in Seq(Carried) /\ IsInjective(job)

\* What is under way, even for nobody, was carried; what was acknowledged was applied.
PushesAreCarried ==
    \A p \in pushes : p.id \in Carried /\ (p.answer = "ok" => p.id \in applied)

\* The invariant.
LinkInv ==
    /\ AgentsTyped /\ EndpointsTyped /\ VotesTyped /\ ChecksTyped
    /\ JobIsCarried /\ PushesAreCarried /\ ChangesAreAccountedFor

-----------------------------------------------------------------------------
(* AgentLink: settings, proposals and pushes *)

\* A change that is accepted leaves well-formed settings.
LEMMA EffectTyped ==
  ASSUME NEW s \in Settings, NEW c \in AnyChange, Accepts(c)
  PROVE  Effect(s, c) \in Settings
<1>1. c.value \in Value \cup {None} /\ c.type \in {"emergency_pause", "emergency_unpause", "trading_limits",
         "strategy_change", "list_add", "list_remove", "code_update"}
  BY DEF AnyChange
<1>2. CASE c.type \in {"list_add", "list_remove"}
  <2>1. c.value \in Value
    BY <1>1, <1>2 DEF Accepts
  <2>. QED  BY <1>2, <2>1 DEF Effect, Settings
<1>3. CASE c.type \notin {"list_add", "list_remove"}
  BY <1>1, <1>3 DEF Effect, Settings
<1>. QED  BY <1>2, <1>3

\* Numbers of proposals are those of the table.
LEMMA IdsAreNumbers ==
  ASSUME VotesTyped
  PROVE  Ids = 1..Len(proposals) /\ Ids \subseteq 1..MaxProposals /\ Len(proposals) \in Nat
         /\ \A i \in Ids : proposals[i] \in Proposal
<1>1. Ids = 1..Len(proposals) /\ Len(proposals) \in Nat /\ \A i \in Ids : proposals[i] \in Proposal
  BY DEF VotesTyped, Ids
<1>2. Ids \subseteq 1..MaxProposals
  BY <1>1, BoundAssumption DEF VotesTyped
<1>. QED  BY <1>1, <1>2

\* Types from the parts of the invariant.
LEMMA InvTypes == LinkInv => TypeOK
<1>. SUFFICES ASSUME LinkInv PROVE TypeOK
  OBVIOUS
<1>1. ToSet(job) \subseteq Ids
  <2>1. \A k \in DOMAIN job : job[k] \in Carried
    BY DEF LinkInv, JobIsCarried
  <2>. QED  BY <2>1 DEF ToSet, Carried
<1>. QED
  BY <1>1 DEF LinkInv, AgentsTyped, EndpointsTyped, VotesTyped, ChecksTyped, JobIsCarried, TypeOK, Endpoint

\* What is neither proposals nor pushes of them leaves the votes as they are.
LEMMA VotesFrame ==
  ASSUME LinkInv, UNCHANGED <<proposals, job, pushes, applied>>
  PROVE  VotesTyped' /\ JobIsCarried' /\ PushesAreCarried' /\ ChangesAreAccountedFor'
BY DEF LinkInv, voteVars, VotesTyped, JobIsCarried, PushesAreCarried, ChangesAreAccountedFor, Carried, Ids

\* So do the other parts, when their variables are not touched.
LEMMA AgentsFrame == ASSUME LinkInv, UNCHANGED agentVars PROVE AgentsTyped'
BY DEF LinkInv, agentVars, AgentsTyped

\* The endpoints stay.
LEMMA LinkFrame == ASSUME LinkInv, UNCHANGED linkVars PROVE EndpointsTyped'
BY DEF LinkInv, linkVars, EndpointsTyped

\* The health checks stay.
LEMMA ChecksFrame == ASSUME LinkInv, UNCHANGED checkVars PROVE ChecksTyped'
BY DEF LinkInv, checkVars, ChecksTyped

\* It holds at the start, with and without a known host name.
LEMMA InitInv == Init => LinkInv
<1>. SUFFICES ASSUME Init PROVE LinkInv
  OBVIOUS
<1>1. AgentsTyped
  BY AgentAssumption, ChangeAssumption DEF Init, AgentsTyped, Settings
<1>2. EndpointsTyped
  BY AgentAssumption DEF Init, EndpointsTyped, Endpoint
<1>3. VotesTyped
  BY BoundAssumption DEF Init, VotesTyped, Ids
<1>4. ChecksTyped
  BY DEF Init, ChecksTyped, Seen
<1>5. JobIsCarried /\ PushesAreCarried /\ ChangesAreAccountedFor
  BY DEF Init, JobIsCarried, PushesAreCarried, ChangesAreAccountedFor, Ids, IsInjective
<1>. QED  BY <1>1, <1>2, <1>3, <1>4, <1>5 DEF LinkInv

-----------------------------------------------------------------------------
(* AgentLink: agents, the registry, the guardian's view *)

\* Whatever agents do, what they hold and the entry stay well-formed, and no
\* vote is touched.
LEMMA AgentInv ==
  ASSUME LinkInv, NEW a \in Agent, AgentNext(a)
  PROVE  LinkInv'
<1>1. UNCHANGED <<proposals, job, pushes, applied>> /\ UNCHANGED checkVars
  BY DEF AgentNext, RegistryTick, SetHostname, TakeSnapshot, Crash, Return, TakeOver, UnpauseFund, SetStrategy,
     Starts, voteVars
<1>2. AgentsTyped /\ EndpointsTyped
  BY DEF LinkInv
<1>3. AgentsTyped' /\ EndpointsTyped'
  <2>1. CASE RegistryTick(a) \/ SetHostname(a)
    BY <1>2, <2>1
    DEF RegistryTick, SetHostname, PostEndpoint, RegisterSelf, UpdateEndpoint, Register,
        AgentsTyped, EndpointsTyped, Endpoint
  <2>2. CASE TakeSnapshot(a)
    BY <1>2, <2>2 DEF TakeSnapshot, AgentsTyped, EndpointsTyped, linkVars
  <2>3. CASE Crash(a)
    BY <1>2, <2>3 DEF Crash, AgentsTyped, EndpointsTyped, linkVars
  <2>4. CASE Return(a) \/ TakeOver(a)
    BY <1>2, <2>4 DEF Return, TakeOver, Starts, AgentsTyped, EndpointsTyped, linkVars
  <2>5. CASE UnpauseFund(a)
    <3>1. [settings[a] EXCEPT !.paused = FALSE] \in Settings
      BY <1>2 DEF AgentsTyped, Settings
    <3>2. settings' \in [Agent -> Settings]
      BY <1>2, <2>5, <3>1 DEF UnpauseFund, AgentsTyped
    <3>. QED  BY <1>2, <2>5, <3>2 DEF UnpauseFund, AgentsTyped, EndpointsTyped, linkVars
  <2>6. ASSUME NEW s \in Value, SetStrategy(a, s) PROVE AgentsTyped' /\ EndpointsTyped'
    <3>1. [settings[a] EXCEPT !.strategy = s] \in Settings
      BY <1>2 DEF AgentsTyped, Settings
    <3>2. settings' \in [Agent -> Settings]
      BY <1>2, <2>6, <3>1 DEF SetStrategy, AgentsTyped
    <3>. QED  BY <1>2, <2>6, <3>2 DEF SetStrategy, AgentsTyped, EndpointsTyped, linkVars
  <2>. QED  BY <2>1, <2>2, <2>3, <2>4, <2>5, <2>6 DEF AgentNext
<1>. QED  BY <1>1, <1>3, VotesFrame, ChecksFrame DEF LinkInv

\* Re-discovery and health checks touch no vote either.
LEMMA WatchInv ==
  ASSUME LinkInv, Rediscover \/ HealthNext
  PROVE  LinkInv'
<1>1. UNCHANGED <<proposals, job, pushes, applied>> /\ UNCHANGED agentVars
  BY DEF Rediscover, HealthNext, StartCheck, CheckAnswered, RecordCheck, voteVars
<1>2. EndpointsTyped /\ ChecksTyped
  BY DEF LinkInv
<1>3. EndpointsTyped' /\ ChecksTyped'
  <2>1. CASE Rediscover
    BY <1>2, <2>1 DEF Rediscover, Found, EndpointsTyped, Endpoint, ChecksTyped, checkVars
  <2>2. CASE StartCheck
    BY <1>2, <2>2 DEF StartCheck, EndpointsTyped, Endpoint, ChecksTyped, linkVars, Check
  <2>3. ASSUME NEW c \in checks, CheckAnswered(c)
        PROVE  EndpointsTyped' /\ ChecksTyped'
    <3>1. [at |-> Nowhere, heard |-> Shows(c.at)] \in Check
      BY DEF Check, Shows, Seen
    <3>. QED  BY <1>2, <2>3, <3>1 DEF CheckAnswered, EndpointsTyped, ChecksTyped, linkVars
  <2>4. ASSUME NEW c \in checks, RecordCheck(c)
        PROVE  EndpointsTyped' /\ ChecksTyped'
    BY <1>2, <2>4 DEF RecordCheck, EndpointsTyped, ChecksTyped, linkVars, Check
  <2>. QED  BY <2>1, <2>2, <2>3, <2>4 DEF HealthNext
<1>. QED  BY <1>1, <1>3, VotesFrame, AgentsFrame DEF LinkInv

\* The requests of a guardian that restarts go on for nobody.
LEMMA RestartInv ==
  ASSUME LinkInv, RestartGuardian
  PROVE  LinkInv'
<1>1. AgentsTyped' /\ ChecksTyped' /\ EndpointsTyped'
  BY AgentAssumption, AgentsFrame
  DEF LinkInv, RestartGuardian, Found, EndpointsTyped, Endpoint, ChecksTyped
<1>2. \A q \in pushes' : \E p \in pushes : q = [p EXCEPT !.for = "nobody"]
  BY DEF RestartGuardian
<1>3. \A q \in pushes' : q \in Push /\ \E p \in pushes : q.id = p.id /\ q.answer = p.answer
  BY <1>2 DEF LinkInv, VotesTyped, Push
<1>4. UNCHANGED <<proposals, applied>> /\ job' = <<>>
  BY DEF RestartGuardian
<1>5. VotesTyped' /\ JobIsCarried' /\ PushesAreCarried' /\ ChangesAreAccountedFor'
  BY <1>3, <1>4 DEF LinkInv, VotesTyped, JobIsCarried, PushesAreCarried, ChangesAreAccountedFor,
     Carried, Ids, IsInjective
<1>. QED  BY <1>1, <1>5 DEF LinkInv

-----------------------------------------------------------------------------
(* AgentLink: votes *)

\* A step of the votes leaves agents, endpoints and checks alone.
LEMMA VoteFrame ==
  ASSUME LinkInv, UNCHANGED <<agentVars, linkVars, checkVars>>,
         VotesTyped', JobIsCarried', PushesAreCarried', ChangesAreAccountedFor'
  PROVE  LinkInv'
BY AgentsFrame, LinkFrame, ChecksFrame DEF LinkInv

\* A proposal that is made touches none that was there.
LEMMA CreateInv ==
  ASSUME LinkInv, NEW c \in AnyChange, Create(c)
  PROVE  LinkInv'
<1>. DEFINE p == [change |-> c, status |-> "active", carried |-> FALSE, told |-> "nothing"]
<1>1. p \in Proposal
  BY DEF Proposal
<1>2. proposals' = Append(proposals, p) /\ Len(proposals) < MaxProposals
      /\ UNCHANGED <<agentVars, linkVars, checkVars, job, pushes, applied>>
  BY DEF Create
<1>3. Ids = 1..Len(proposals) /\ Len(proposals) \in Nat /\ proposals \in Seq(Proposal)
  BY IdsAreNumbers DEF LinkInv, VotesTyped
<1>. HIDE DEF p
<1>4. /\ proposals' \in Seq(Proposal) /\ Len(proposals') = Len(proposals) + 1
      /\ Ids' = 1..Len(proposals) + 1
      /\ \A i \in Ids : proposals'[i] = proposals[i]
      /\ proposals'[Len(proposals) + 1] = p
  BY <1>1, <1>2, <1>3 DEF Ids
<1>5. Ids \subseteq Ids' /\ p.told = "nothing" /\ p.status = "active" /\ ~p.carried
  BY <1>3, <1>4 DEF p
<1>6. Carried' = Carried
  BY <1>3, <1>4, <1>5 DEF Carried
<1>7. VotesTyped'
  BY <1>2, <1>3, <1>4, <1>5, BoundAssumption DEF LinkInv, VotesTyped
<1>8. JobIsCarried' /\ PushesAreCarried'
  BY <1>2, <1>6 DEF LinkInv, JobIsCarried, PushesAreCarried
<1>9. ChangesAreAccountedFor'
  <2>1. \A i \in applied' : proposals'[i].carried
    BY <1>2, <1>4 DEF LinkInv, VotesTyped, ChangesAreAccountedFor
  <2>2. \A i \in Ids' : proposals'[i].told = "ok" => i \in applied'
    BY <1>2, <1>3, <1>4, <1>5 DEF LinkInv, ChangesAreAccountedFor
  <2>. QED  BY <2>1, <2>2 DEF ChangesAreAccountedFor
<1>. QED  BY <1>2, <1>7, <1>8, <1>9, VoteFrame

\* A decision leaves a proposal a proposal, and never takes back that it was carried.
LEMMA DecidedTyped ==
  ASSUME NEW p \in Proposal, NEW what \in {"passed", "failed"}
  PROVE  /\ Decided(p, what) \in Proposal
         /\ Decided(p, what).change = p.change /\ Decided(p, what).told = p.told
         /\ Decided(p, what).status = what
         /\ Decided(p, what).carried <=> (p.carried \/ what = "passed")
BY DEF Decided, Proposal

\* A request decides one proposal anew: it may pass, or no longer stand as passed,
\* and what was carried stays carried.
LEMMA DecideAnewInv ==
  ASSUME LinkInv, NEW i \in Ids, NEW what \in {"passed", "failed"}, DecideAnew(i, what)
  PROVE  LinkInv'
<1>1. /\ UNCHANGED <<agentVars, linkVars, checkVars, job, pushes, applied>>
      /\ proposals' = [proposals EXCEPT ![i] = Decided(proposals[i], what)]
  BY DEF DecideAnew
<1>2. /\ Ids = 1..Len(proposals) /\ Len(proposals) \in Nat /\ proposals \in Seq(Proposal)
      /\ \A k \in Ids : proposals[k] \in Proposal
  BY IdsAreNumbers DEF LinkInv, VotesTyped
<1>. DEFINE new == Decided(proposals[i], what)
<1>3. /\ new \in Proposal /\ new.told = proposals[i].told
      /\ proposals[i].carried => new.carried
      /\ new.status = "passed" => new.carried
  BY <1>2, DecidedTyped
<1>. HIDE DEF new
<1>4. proposals' = [proposals EXCEPT ![i] = new]
  BY <1>1 DEF new
<1>5. /\ proposals' \in Seq(Proposal) /\ Len(proposals') = Len(proposals) /\ Ids' = Ids
      /\ \A k \in Ids : k # i => proposals'[k] = proposals[k]
      /\ proposals'[i] = new
  BY <1>2, <1>3, <1>4 DEF Ids
<1>6. Carried \subseteq Carried'
  BY <1>3, <1>5 DEF Carried
<1>7. VotesTyped'
  BY <1>1, <1>3, <1>5 DEF LinkInv, VotesTyped
<1>8. JobIsCarried'
  BY <1>1, <1>6 DEF LinkInv, JobIsCarried
<1>9. PushesAreCarried'
  BY <1>1, <1>6 DEF LinkInv, PushesAreCarried
<1>10. ChangesAreAccountedFor'
  BY <1>1, <1>3, <1>5 DEF LinkInv, VotesTyped, ChangesAreAccountedFor
<1>. QED  BY <1>1, <1>7, <1>8, <1>9, <1>10, VoteFrame

\* Every way to propose makes one proposal.
LEMMA ProposeInv ==
  ASSUME LinkInv, (\E c \in Change : Propose(c) \/ ProposeCommand(c)) \/ ProposeStrategy
  PROVE  LinkInv'
<1>1. StrategyData \in AnyChange
  BY DEF StrategyData, AnyChange
<1>2. PICK c \in AnyChange : Create(c)
  BY <1>1, ChangeAssumption DEF Propose, ProposeCommand, ProposeStrategy
<1>. QED  BY <1>2, CreateInv

\* Only active proposals are decided; the job gets what passed, each once.
LEMMA ResolveInv ==
  ASSUME LinkInv, NEW passed \in SUBSET Active, NEW failed \in SUBSET Active, Resolve(passed, failed)
  PROVE  LinkInv'
<1>1. UNCHANGED <<agentVars, linkVars, checkVars, pushes, applied>>
  BY DEF Resolve
<1>2. /\ Ids = 1..Len(proposals) /\ Len(proposals) \in Nat
      /\ \A i \in Ids : proposals[i] \in Proposal
      /\ passed \subseteq Ids /\ failed \subseteq Ids
      /\ \A i \in passed \cup failed : proposals[i].status = "active"
  BY IdsAreNumbers DEF LinkInv, VotesTyped, Active
<1>. DEFINE Decision(i) == IF i \in passed THEN Decided(proposals[i], "passed")
                      ELSE IF i \in failed THEN Decided(proposals[i], "failed") ELSE proposals[i]
<1>3. proposals' = [i \in Ids |-> Decision(i)]
  BY DEF Resolve
<1>4. \A i \in Ids : /\ Decision(i) \in Proposal /\ Decision(i).told = proposals[i].told
                     /\ i \in passed => Decision(i).carried
                     /\ proposals[i].carried => Decision(i).carried
                     /\ Decision(i).status = "passed" => Decision(i).carried \/ proposals[i].status = "passed"
  BY <1>2, DecidedTyped
<1>. HIDE DEF Decision
<1>5. Ids' = Ids /\ proposals' \in Seq(Proposal) /\ Len(proposals') = Len(proposals)
  BY <1>2, <1>3, <1>4 DEF Ids
<1>6. Carried \subseteq Carried' /\ passed \subseteq Carried'
  BY <1>2, <1>3, <1>4, <1>5 DEF Carried
<1>7. VotesTyped'
  BY <1>1, <1>2, <1>3, <1>4, <1>5 DEF LinkInv, VotesTyped
<1>8. JobIsCarried'
  <2>1. PICK ids \in [1..Cardinality(passed) -> passed] : NewestFirst(ids) /\ job' = ids
    BY DEF Resolve
  <2>2. Cardinality(passed) \in Nat
    <3>1. IsFiniteSet(Ids)
      BY <1>2, FS_Interval
    <3>. QED  BY <1>2, <3>1, FS_Subset, FS_CardinalityType
  <2>3. ids \in Seq(Carried')
    BY <1>6, <2>1, <2>2
  <2>4. \A i \in DOMAIN ids : ids[i] \in Nat /\ i \in Nat
    <3>1. \A i \in passed : i \in Nat
      BY <1>2
    <3>. QED  BY <2>1, <2>2, <3>1
  <2>5. IsInjective(ids)
    BY <2>1, <2>4 DEF IsInjective, NewestFirst
  <2>. QED  BY <2>1, <2>3, <2>5 DEF JobIsCarried
<1>9. PushesAreCarried'
  BY <1>1, <1>6 DEF LinkInv, PushesAreCarried
<1>10. ChangesAreAccountedFor'
  BY <1>1, <1>3, <1>4, <1>5 DEF LinkInv, VotesTyped, ChangesAreAccountedFor
<1>. QED  BY <1>1, <1>7, <1>8, <1>9, <1>10, VoteFrame

\* A push that is added is of a passed proposal and not answered yet.
LEMMA ExecuteInv ==
  ASSUME LinkInv, NEW i \in Ids, NEW sender \in {"job", "request"}, Execute(i, sender),
         UNCHANGED <<proposals, applied>>
  PROVE  VotesTyped' /\ PushesAreCarried' /\ ChangesAreAccountedFor' /\ Carried' = Carried
<1>. DEFINE q == [id |-> i, to |-> Configured, for |-> sender, answer |-> "none"]
<1>1. pushes' = pushes \cup {q} /\ i \in Carried
  BY DEF Execute, Carried, LinkInv, VotesTyped
<1>2. q \in Push
  BY IdsAreNumbers, AgentAssumption DEF Push, LinkInv
<1>3. q.id = i /\ q.answer # "ok"
  OBVIOUS
<1>. HIDE DEF q
<1>4. Ids' = Ids /\ Carried' = Carried
  BY DEF Ids, Carried
<1>. QED
  BY <1>1, <1>2, <1>3, <1>4 DEF LinkInv, VotesTyped, PushesAreCarried, ChangesAreAccountedFor

\* The job pushes the first of what passed.
LEMMA JobPushInv ==
  ASSUME LinkInv, JobPush
  PROVE  LinkInv'
<1>1. job \in Seq(Carried) /\ job # <<>> /\ IsInjective(job)
  BY DEF JobPush, LinkInv, JobIsCarried
<1>2. Head(job) \in Ids
  <2>1. Head(job) \in Carried
    BY <1>1, HeadTailProperties
  <2>. QED  BY <2>1 DEF Carried
<1>3. /\ UNCHANGED <<agentVars, linkVars, checkVars, proposals, applied>> /\ job' = Tail(job)
      /\ Execute(Head(job), "job") \/ UNCHANGED pushes
  BY DEF JobPush
<1>4. VotesTyped' /\ PushesAreCarried' /\ ChangesAreAccountedFor' /\ Carried' = Carried
  <2>1. CASE Execute(Head(job), "job")
    BY <1>2, <1>3, <2>1, ExecuteInv
  <2>2. CASE UNCHANGED pushes
    BY <1>3, <2>2 DEF LinkInv, VotesTyped, PushesAreCarried, ChangesAreAccountedFor, Carried, Ids
  <2>. QED  BY <1>3, <2>1, <2>2
<1>5. JobIsCarried'
  <2>1. Tail(job) \in Seq(Carried) /\ Len(Tail(job)) = Len(job) - 1 /\ Len(job) \in Nat
        /\ \A k \in 1..Len(Tail(job)) : Tail(job)[k] = job[k + 1]
    BY <1>1
  <2>2. IsInjective(Tail(job))
    BY <1>1, <2>1 DEF IsInjective
  <2>. QED  BY <1>3, <1>4, <2>1, <2>2 DEF JobIsCarried
<1>. QED  BY <1>3, <1>4, <1>5, VoteFrame

\* A request pushes any proposal that passed, again and again.
LEMMA RequestPushInv ==
  ASSUME LinkInv, NEW i \in Ids, RequestPush(i)
  PROVE  LinkInv'
<1>1. UNCHANGED <<agentVars, linkVars, checkVars, proposals, applied, job>> /\ Execute(i, "request")
  BY DEF RequestPush
<1>2. VotesTyped' /\ PushesAreCarried' /\ ChangesAreAccountedFor' /\ Carried' = Carried
  BY <1>1, ExecuteInv
<1>3. JobIsCarried'
  BY <1>1, <1>2 DEF LinkInv, JobIsCarried
<1>. QED  BY <1>1, <1>2, <1>3, VoteFrame

\* The agent that is asked applies an accepted change to its own settings, and
\* acknowledges only what it applied.
LEMMA HandleConfigInv ==
  ASSUME LinkInv, NEW p \in pushes, HandleConfigRequest(p)
  PROVE  LinkInv'
<1>. DEFINE c == proposals[p.id].change
            ok == Accepts(c)
            q == [p EXCEPT !.answer = IF ok THEN "ok" ELSE "refused"]
<1>1. /\ p.to \in up
      /\ settings' = IF ok THEN [settings EXCEPT ![p.to] = Effect(@, c)] ELSE settings
      /\ applied' = IF ok THEN applied \cup {p.id} ELSE applied
      /\ pushes' = (pushes \ {p}) \cup IF p.for = "nobody" THEN {} ELSE {q}
      /\ UNCHANGED <<up, posts, registered, snapshot, linkVars, proposals, job, checkVars>>
  BY DEF HandleConfigRequest
<1>2. p \in Push /\ p.id \in Carried /\ p.id \in Ids
  BY DEF LinkInv, VotesTyped, PushesAreCarried, Carried
<1>3. q \in Push /\ q.id = p.id /\ (q.answer = "ok" => ok)
  BY <1>2 DEF Push
<1>4. c \in AnyChange
  BY <1>2, IdsAreNumbers DEF LinkInv, Proposal
<1>. HIDE DEF q
<1>5. AgentsTyped'
  <2>1. ok => Effect(settings[p.to], c) \in Settings
    BY <1>1, <1>4, EffectTyped DEF LinkInv, AgentsTyped
  <2>. HIDE DEF c, ok
  <2>2. settings' \in [Agent -> Settings]
    BY <1>1, <2>1 DEF LinkInv, AgentsTyped
  <2>. QED  BY <1>1, <2>2 DEF LinkInv, AgentsTyped
<1>. HIDE DEF c, ok
<1>6. Ids' = Ids /\ Carried' = Carried /\ applied \subseteq applied'
  BY <1>1 DEF Ids, Carried
<1>7. VotesTyped'
  BY <1>1, <1>2, <1>3, <1>6 DEF LinkInv, VotesTyped
<1>8. PushesAreCarried'
  BY <1>1, <1>2, <1>3, <1>6 DEF LinkInv, PushesAreCarried
<1>9. ChangesAreAccountedFor'
  BY <1>1, <1>2, <1>6 DEF LinkInv, ChangesAreAccountedFor, Carried
<1>10. JobIsCarried'
  BY <1>1, <1>6 DEF LinkInv, JobIsCarried
<1>. QED  BY <1>1, <1>5, <1>7, <1>8, <1>9, <1>10, LinkFrame, ChecksFrame DEF LinkInv

\* What a sender is told of its push changes no decision; "ok" only if applied.
LEMMA ToldInv ==
  ASSUME LinkInv, NEW p \in pushes, NEW what \in {"ok", "error"}, Told(p, what),
         what = "ok" => p.answer = "ok"
  PROVE  /\ proposals' \in Seq(Proposal) /\ Len(proposals') = Len(proposals)
         /\ Ids' = Ids /\ Carried' = Carried
         /\ \A i \in Ids : /\ proposals'[i].status = proposals[i].status
                           /\ proposals'[i].carried = proposals[i].carried
                           /\ proposals'[i].told = "ok" => i \in applied
<1>1. /\ Ids = 1..Len(proposals) /\ Len(proposals) \in Nat /\ proposals \in Seq(Proposal)
      /\ \A i \in Ids : proposals[i] \in Proposal
      /\ \A i \in Ids : proposals[i].told = "ok" => i \in applied
  BY IdsAreNumbers DEF LinkInv, VotesTyped, ChangesAreAccountedFor
<1>2. p.id \in Ids /\ (p.answer = "ok" => p.id \in applied)
  BY DEF LinkInv, PushesAreCarried, Carried
<1>3. CASE p.for = "nobody"
  BY <1>1, <1>3 DEF Told, Ids, Carried
<1>4. CASE p.for # "nobody"
  <2>. DEFINE new == [proposals[p.id] EXCEPT !.told = what]
  <2>1. new \in Proposal /\ new.status = proposals[p.id].status /\ new.carried = proposals[p.id].carried /\ new.told = what
    BY <1>1, <1>2 DEF Proposal
  <2>2. proposals' = [proposals EXCEPT ![p.id] = new]
    BY <1>4 DEF Told
  <2>. HIDE DEF new
  <2>3. proposals' \in Seq(Proposal) /\ Len(proposals') = Len(proposals) /\ Ids' = Ids
    BY <1>1, <1>2, <2>1, <2>2 DEF Ids
  <2>4. \A i \in Ids : /\ proposals'[i].status = proposals[i].status
                       /\ proposals'[i].carried = proposals[i].carried
                       /\ proposals'[i].told = "ok" => i \in applied
    BY <1>1, <1>2, <2>1, <2>2
  <2>. QED  BY <2>3, <2>4 DEF Carried
<1>. QED  BY <1>3, <1>4

\* An answer, a failure, or ten seconds without either.
LEMMA PushEndsInv ==
  ASSUME LinkInv, NEW p \in pushes, PushReturns(p) \/ PushTimesOut(p)
  PROVE  LinkInv'
<1>1. UNCHANGED <<agentVars, linkVars, checkVars, job, applied>>
  BY DEF PushReturns, PushTimesOut
<1>2. PICK what \in {"ok", "error"} : Told(p, what) /\ (what = "ok" => p.answer = "ok")
  BY DEF PushReturns, PushTimesOut
<1>3. /\ proposals' \in Seq(Proposal) /\ Len(proposals') = Len(proposals)
      /\ Ids' = Ids /\ Carried' = Carried
      /\ \A i \in Ids : /\ proposals'[i].status = proposals[i].status
                        /\ proposals'[i].carried = proposals[i].carried
                        /\ proposals'[i].told = "ok" => i \in applied
  BY <1>2, ToldInv
<1>4. \A q \in pushes' : q \in pushes \/ (q = [p EXCEPT !.for = "nobody"])
  BY DEF PushReturns, PushTimesOut
<1>5. \A q \in pushes' : q \in Push /\ \E r \in pushes : q.id = r.id /\ q.answer = r.answer
  BY <1>4 DEF LinkInv, VotesTyped, Push
<1>6. VotesTyped'
  BY <1>1, <1>3, <1>5 DEF LinkInv, VotesTyped
<1>7. PushesAreCarried' /\ JobIsCarried'
  BY <1>1, <1>3, <1>5 DEF LinkInv, PushesAreCarried, JobIsCarried
<1>8. ChangesAreAccountedFor'
  BY <1>1, <1>3 DEF LinkInv, VotesTyped, ChangesAreAccountedFor
<1>. QED  BY <1>1, <1>6, <1>7, <1>8, VoteFrame

-----------------------------------------------------------------------------
(* AgentLink: the theorems *)

\* Every step keeps the invariant.
LEMMA LinkStep ==
  ASSUME LinkInv, [Next]_vars
  PROVE  LinkInv'
<1>1. CASE UNCHANGED vars
  <2>1. UNCHANGED <<agentVars, linkVars, checkVars>> /\ UNCHANGED <<proposals, job, pushes, applied>>
    BY <1>1 DEF vars, voteVars
  <2>. QED  BY <2>1, AgentsFrame, LinkFrame, VotesFrame, ChecksFrame DEF LinkInv
<1>2. CASE Next
  BY <1>2, AgentInv, RestartInv, WatchInv, ProposeInv, ResolveInv, DecideAnewInv, JobPushInv, RequestPushInv,
     HandleConfigInv, PushEndsInv
  DEF Next, PushNext
<1>. QED  BY <1>1, <1>2

\* The invariant of AgentLink.
THEOREM LinkInvariant == Spec => []LinkInv
<1>1. Init => LinkInv
  BY InitInv
<1>2. LinkInv /\ [Next]_vars => LinkInv'
  BY LinkStep
<1>. QED  BY <1>1, <1>2, PTL DEF Spec

\* The state of agents, guardian and requests under way keeps its types: a
\* change without its value never gets into the settings.
THEOREM LinkTypes == Spec => []TypeOK
BY LinkInvariant, InvTypes, PTL

\* What an agent applied was carried by a vote, and a push reported as done was
\* applied.
THEOREM AccountedFor == Spec => []ChangesAreAccountedFor
<1>1. LinkInv => ChangesAreAccountedFor
  BY DEF LinkInv
<1>. QED  BY <1>1, LinkInvariant, PTL

-----------------------------------------------------------------------------
(* AgentLink implements VotedSettings *)

\* No row is taken out of the table, no change replaced, and what was carried
\* stays carried.
Kept ==
    /\ Ids \subseteq Ids'
    /\ \A i \in Ids : /\ proposals'[i].change = proposals[i].change
                      /\ proposals[i].carried => proposals'[i].carried

\* The mandate only grows.
LEMMA MandateGrows ==
  ASSUME Kept
  PROVE  Mandate \subseteq Mandate'
BY DEF Kept, Mandate

\* Every step of the votes keeps the table.
LEMMA VotesKept ==
  ASSUME LinkInv,
         \/ (\E c \in Change : Propose(c) \/ ProposeCommand(c)) \/ ProposeStrategy
         \/ \E passed, failed \in SUBSET Active : Resolve(passed, failed)
         \/ \E i \in Ids, what \in {"passed", "failed"} : DecideAnew(i, what)
         \/ \E p \in pushes : PushReturns(p) \/ PushTimesOut(p)
  PROVE  Kept
<1>1. /\ Ids = 1..Len(proposals) /\ Len(proposals) \in Nat /\ proposals \in Seq(Proposal)
      /\ \A i \in Ids : proposals[i] \in Proposal
  BY IdsAreNumbers DEF LinkInv, VotesTyped
<1>2. ASSUME NEW c, Create(c)
      PROVE  Kept
  <2>. DEFINE p == [change |-> c, status |-> "active", carried |-> FALSE, told |-> "nothing"]
  <2>1. proposals' = Append(proposals, p)
    BY <1>2 DEF Create
  <2>. HIDE DEF p
  <2>2. Ids' = 1..Len(proposals) + 1 /\ \A i \in Ids : proposals'[i] = proposals[i]
    BY <1>1, <2>1 DEF Ids
  <2>. QED  BY <1>1, <2>2 DEF Kept
<1>3. ASSUME NEW passed \in SUBSET Active, NEW failed \in SUBSET Active, Resolve(passed, failed)
      PROVE  Kept
  <2>1. Ids' = Ids
    BY <1>1, <1>3 DEF Resolve, Ids
  <2>2. \A i \in Ids : proposals'[i] \in {proposals[i], Decided(proposals[i], "passed"), Decided(proposals[i], "failed")}
    BY <1>3 DEF Resolve
  <2>. QED  BY <1>1, <2>1, <2>2, DecidedTyped DEF Kept
<1>4. ASSUME NEW i \in Ids, NEW what \in {"passed", "failed"}, DecideAnew(i, what)
      PROVE  Kept
  <2>1. proposals' = [proposals EXCEPT ![i] = Decided(proposals[i], what)]
    BY <1>4 DEF DecideAnew
  <2>2. Ids' = Ids
    BY <1>1, <2>1 DEF Ids
  <2>3. \A k \in Ids : proposals'[k] \in {proposals[k], Decided(proposals[k], what)}
    BY <1>1, <2>1
  <2>. QED  BY <1>1, <2>2, <2>3, DecidedTyped DEF Kept
<1>5. ASSUME NEW p \in pushes, PushReturns(p) \/ PushTimesOut(p)
      PROVE  Kept
  <2>1. PICK what \in {"ok", "error"} : Told(p, what)
    BY <1>5 DEF PushReturns, PushTimesOut
  <2>2. p.id \in Ids
    BY DEF LinkInv, PushesAreCarried, Carried
  <2>3. Ids' = Ids
    BY <1>1, <2>1, <2>2 DEF Told, Ids
  <2>4. \A i \in Ids : proposals'[i] \in {proposals[i], [proposals[i] EXCEPT !.told = what]}
    BY <1>1, <2>1, <2>2 DEF Told
  <2>. QED  BY <1>1, <2>3, <2>4 DEF Kept, Proposal
<1>. QED  BY <1>2, <1>3, <1>4, <1>5 DEF Propose, ProposeCommand, ProposeStrategy

\* A request that is handled applies a carried change, or nothing.
LEMMA HandledIsVoted ==
  ASSUME LinkInv, NEW p \in pushes, HandleConfigRequest(p)
  PROVE  [Voted!VotedNext]_(Voted!votedVars)
<1>. DEFINE c == proposals[p.id].change
<1>1. /\ p.to \in up /\ UNCHANGED <<snapshot, proposals>>
      /\ settings' = IF Accepts(c) THEN [settings EXCEPT ![p.to] = Effect(@, c)] ELSE settings
  BY DEF HandleConfigRequest
<1>2. p.to \in Agent /\ settings[p.to] \in Settings
  BY <1>1 DEF LinkInv, AgentsTyped
<1>3. c \in Mandate /\ c \in AnyChange
  BY IdsAreNumbers DEF LinkInv, PushesAreCarried, Carried, Mandate, Proposal
<1>4. Mandate' = Mandate
  BY <1>1 DEF Mandate, Ids
<1>5. Accepts(c) => Effect(settings[p.to], c) \in Settings
  BY <1>2, <1>3, EffectTyped
<1>. HIDE DEF c
<1>6. CASE Accepts(c)
  <2>1. Voted!Apply(p.to, c)
    BY <1>1, <1>3, <1>4, <1>5, <1>6 DEF Voted!Apply
  <2>. QED  BY <1>2, <1>3, <2>1 DEF Voted!VotedNext
<1>7. CASE ~Accepts(c)
  BY <1>1, <1>4, <1>7 DEF Voted!votedVars
<1>. QED  BY <1>6, <1>7

\* An agent saves, goes back to what was saved, lifts its pause, chooses a
\* strategy, or does nothing that matters.
LEMMA AgentIsVoted ==
  ASSUME LinkInv, NEW a \in Agent, AgentNext(a)
  PROVE  [Voted!VotedNext]_(Voted!votedVars)
<1>1. Mandate' = Mandate
  BY DEF AgentNext, RegistryTick, SetHostname, TakeSnapshot, Crash, Return, TakeOver, UnpauseFund, SetStrategy,
     Starts, voteVars, Mandate, Ids
<1>2. CASE RegistryTick(a) \/ SetHostname(a) \/ Crash(a) \/ Return(a)
  BY <1>1, <1>2 DEF RegistryTick, SetHostname, Crash, Return, Starts, Voted!votedVars
<1>3. CASE TakeSnapshot(a)
  BY <1>1, <1>3 DEF TakeSnapshot, Voted!VotedNext, Voted!Save
<1>4. CASE TakeOver(a)
  BY <1>1, <1>4 DEF TakeOver, Starts, Voted!VotedNext, Voted!GoBack
<1>5. CASE UnpauseFund(a)
  BY <1>1, <1>5 DEF UnpauseFund, Voted!VotedNext, Voted!LiftPause
<1>6. ASSUME NEW s \in Value, SetStrategy(a, s) PROVE Voted!VotedNext
  <2>1. PICK t \in Settings : t.strategy = s
    <3>1. [settings[a] EXCEPT !.strategy = s] \in Settings
      BY DEF LinkInv, AgentsTyped, Settings
    <3>2. [settings[a] EXCEPT !.strategy = s].strategy = s
      BY DEF LinkInv, AgentsTyped, Settings
    <3>. QED  BY <3>1, <3>2
  <2>2. Voted!ChooseStrategy(a)
    BY <1>1, <1>6, <2>1 DEF SetStrategy, Voted!ChooseStrategy
  <2>. QED  BY <2>2 DEF Voted!VotedNext
<1>. QED  BY <1>2, <1>3, <1>4, <1>5, <1>6 DEF AgentNext

\* Every step of AgentLink is a step of VotedSettings, or changes none of it.
LEMMA StepIsVoted ==
  ASSUME LinkInv, [Next]_vars
  PROVE  [Voted!VotedNext]_(Voted!votedVars)
<1>1. ASSUME UNCHANGED <<settings, snapshot>>, Mandate \subseteq Mandate'
      PROVE  [Voted!VotedNext]_(Voted!votedVars)
  BY <1>1 DEF Voted!VotedNext, Voted!Carry
<1>2. CASE UNCHANGED vars
  BY <1>1, <1>2 DEF vars, agentVars, voteVars, Mandate, Ids
<1>3. ASSUME NEW a \in Agent, AgentNext(a)
      PROVE  [Voted!VotedNext]_(Voted!votedVars)
  BY <1>3, AgentIsVoted
<1>4. CASE RestartGuardian \/ Rediscover \/ HealthNext \/ JobPush \/ \E i \in Ids : RequestPush(i)
  <2>1. UNCHANGED <<settings, snapshot, proposals>>
    BY <1>4 DEF RestartGuardian, Rediscover, HealthNext, StartCheck, CheckAnswered, RecordCheck, JobPush,
       RequestPush, agentVars, voteVars
  <2>. QED  BY <1>1, <2>1 DEF Mandate, Ids
<1>5. CASE (\E c \in Change : Propose(c) \/ ProposeCommand(c)) \/ ProposeStrategy
  <2>1. UNCHANGED <<settings, snapshot>>
    BY <1>5 DEF Propose, ProposeCommand, ProposeStrategy, Create, agentVars
  <2>. QED  BY <1>1, <1>5, <2>1, VotesKept, MandateGrows
<1>6. CASE \E passed, failed \in SUBSET Active : Resolve(passed, failed)
  <2>1. UNCHANGED <<settings, snapshot>>
    BY <1>6 DEF Resolve, agentVars
  <2>. QED  BY <1>1, <1>6, <2>1, VotesKept, MandateGrows
<1>7. CASE \E i \in Ids, what \in {"passed", "failed"} : DecideAnew(i, what)
  <2>1. UNCHANGED <<settings, snapshot>>
    BY <1>7 DEF DecideAnew, agentVars
  <2>. QED  BY <1>1, <1>7, <2>1, VotesKept, MandateGrows
<1>8. CASE \E p \in pushes : PushReturns(p) \/ PushTimesOut(p)
  <2>1. UNCHANGED <<settings, snapshot>>
    BY <1>8 DEF PushReturns, PushTimesOut, agentVars
  <2>. QED  BY <1>1, <1>8, <2>1, VotesKept, MandateGrows
<1>. QED
  BY <1>2, <1>3, <1>4, <1>5, <1>6, <1>7, <1>8, HandledIsVoted DEF Next, PushNext

\* The agents' settings are what the holders voted for, as VotedSettings says.
THEOREM SettingsAreVoted == Spec => ImplementsVotedSettings
<1>1. Init => Voted!VotedInit
  BY AgentAssumption DEF Init, Voted!VotedInit, Mandate, Ids
<1>2. LinkInv /\ [Next]_vars => [Voted!VotedNext]_(Voted!votedVars)
  BY StepIsVoted
<1>. QED
  BY <1>1, <1>2, LinkInvariant, PTL DEF Spec, ImplementsVotedSettings, Voted!VotedSpec

-----------------------------------------------------------------------------
(* StakingSync: the invariant *)

\* Rows of the guardians: only a stake that was left is cooling down.
StakesTyped ==
    /\ stakes \in [Guardian -> [Token -> Row]]
    /\ \A g \in Guardian, t \in Token :
         /\ stakes[g][t].state = "none" <=> stakes[g][t].by = Nobody
         /\ stakes[g][t].cooling => stakes[g][t].state = "left"

\* Owners, the copy and the requests under way have their types.
OwnersTyped == owner \in [Token -> User \cup {Nobody}]

CopyTyped == copy \in [Token -> Copied \cup {Nobody}]

RequestsTyped == stakings \subseteq Request /\ calls \in 0..MaxCalls

\* The tool knows its guardian and user while it waits, and the rows it read.
ToolTyped ==
    /\ tool \in [step: {"idle", "staking", "unstaking", "unstaked", "delegating"},
                 guardian: Guardian \cup {Nobody}, by: User \cup {Nobody},
                 rows: SUBSET [token: Token, row: Copied]]
    /\ tool.step \in {"unstaking", "unstaked"} => tool.guardian \in Guardian /\ tool.by \in User

\* The job has heard of stakes of users at a guardian.
SyncTyped ==
    /\ sync \in [step: {"idle", "next", "heard"}, todo: SUBSET verified, at: Guardian \cup {Nobody},
                 heard: SUBSET [token: Token, by: User]]
    /\ verified \subseteq Guardian
    /\ sync.step = "heard" => sync.at \in Guardian

\* The invariant.
StakingInv ==
    OwnersTyped /\ StakesTyped /\ CopyTyped /\ RequestsTyped /\ ToolTyped /\ SyncTyped

-----------------------------------------------------------------------------
(* StakingSync: steps *)

\* It holds before anything is staked.
LEMMA StakingInitInv == StakingInit => StakingInv
<1>. SUFFICES ASSUME StakingInit PROVE StakingInv
  OBVIOUS
<1>1. NoRow \in Row
  BY DEF NoRow, Row
<1>2. StakesTyped
  BY <1>1 DEF StakingInit, StakesTyped, NoRow
<1>. QED
  BY <1>2, CallAssumption DEF StakingInit, StakingInv, OwnersTyped, CopyTyped, RequestsTyped, ToolTyped,
     SyncTyped, IdleTool, IdleSync

\* A row that is written keeps the table well-formed.
LEMMA RowsWritten ==
  ASSUME StakesTyped, NEW g \in Guardian, NEW rows \in [Token -> Row],
         \A t \in Token : /\ rows[t].state = "none" <=> rows[t].by = Nobody
                          /\ rows[t].cooling => rows[t].state = "left",
         stakes' = [stakes EXCEPT ![g] = rows]
  PROVE  StakesTyped'
BY DEF StakesTyped

\* Whoever holds an active stake is a user, and leaving makes a row that was left.
LEMMA LeavesRow ==
  ASSUME StakesTyped, NEW g \in Guardian, NEW t \in StakedAt(g)
  PROVE  /\ t \in Token /\ stakes[g][t].by \in User
         /\ Left(stakes[g][t]) \in Row /\ Left(stakes[g][t]).state = "left" /\ Left(stakes[g][t]).by \in User
<1>1. t \in Token /\ stakes[g][t] \in Row /\ stakes[g][t].state = "active"
  BY DEF StakesTyped, StakedAt
<1>2. stakes[g][t].by # Nobody
  BY <1>1 DEF StakesTyped
<1>. QED  BY <1>1, <1>2 DEF Row, Left

\* A tool that starts to stake has a new number for its request.
LEMMA StakeStarts ==
  ASSUME StakingInv, NEW u \in User, NEW g \in Guardian, StakeNFT(u, g)
  PROVE  StakingInv'
<1>1. PICK tokens \in SUBSET Token :
         stakings' = stakings \cup {[id |-> calls + 1, guardian |-> g, by |-> u, todo |-> tokens,
                                     asked |-> {}, proof |-> "none", staked |-> {}]}
  BY DEF StakeNFT, Owned
<1>2. calls \in 0..MaxCalls /\ calls < MaxCalls /\ calls' = calls + 1
  BY DEF StakeNFT, StakingInv, RequestsTyped
<1>3. calls' \in 0..MaxCalls /\ calls + 1 \in 1..MaxCalls
  BY <1>2, CallAssumption
<1>4. RequestsTyped'
  BY <1>1, <1>3 DEF StakingInv, RequestsTyped, Request
<1>5. ToolTyped'
  BY DEF StakeNFT, IdleTool, ToolTyped
<1>6. UNCHANGED <<fund, stakes, verified, copy, sync>>
  BY DEF StakeNFT
<1>. QED
  BY <1>4, <1>5, <1>6 DEF StakingInv, OwnersTyped, StakesTyped, CopyTyped, SyncTyped, fund

\* A guardian goes on with a request, also one nobody waits for any more.
LEMMA StakingHandled ==
  ASSUME StakingInv, NEW r \in stakings, HandleStaking(r)
  PROVE  StakingInv'
<1>1. r \in Request /\ stakings \subseteq Request
  BY DEF StakingInv, RequestsTyped
<1>2. CASE TakeToken(r)
  <2>1. PICK t \in r.todo :
           stakings' = (stakings \ {r}) \cup
             {[r EXCEPT !.todo = @ \ {t}, !.asked = IF stakes[r.guardian][t].cooling THEN {} ELSE {t}]}
    BY <1>2 DEF TakeToken, Becomes
  <2>2. [r EXCEPT !.todo = @ \ {t}, !.asked = IF stakes[r.guardian][t].cooling THEN {} ELSE {t}] \in Request
    BY <1>1 DEF Request
  <2>3. stakings' \subseteq Request
    BY <1>1, <2>1, <2>2
  <2>. QED  BY <1>2, <2>3 DEF TakeToken, StakingInv, OwnersTyped, StakesTyped, CopyTyped, RequestsTyped,
               ToolTyped, SyncTyped, fund
<1>3. CASE OwnerAnswered(r)
  <2>1. PICK p \in {"yes", "no"} : stakings' = (stakings \ {r}) \cup {[r EXCEPT !.proof = p]}
    BY <1>3 DEF OwnerAnswered, Becomes
  <2>2. [r EXCEPT !.proof = p] \in Request
    BY <1>1 DEF Request
  <2>3. stakings' \subseteq Request
    BY <1>1, <2>1, <2>2
  <2>. QED  BY <1>3, <2>3 DEF OwnerAnswered, StakingInv, OwnersTyped, StakesTyped, CopyTyped, RequestsTyped,
               ToolTyped, SyncTyped, fund
<1>4. CASE EndToken(r)
  <2>. DEFINE q == [r EXCEPT !.asked = {}, !.proof = "none",
                             !.staked = IF r.proof = "yes" THEN @ \cup r.asked ELSE @]
              rows == [t \in Token |-> IF t \in r.asked
                          THEN [state |-> "active", by |-> r.by, cooling |-> FALSE]
                          ELSE stakes[r.guardian][t]]
  <2>1. stakings' = (stakings \ {r}) \cup {q}
    BY <1>4 DEF EndToken, Becomes
  <2>2. q \in Request
    BY <1>1 DEF Request
  <2>3. r.guardian \in Guardian /\ r.by \in User
    BY <1>1 DEF Request
  <2>4. StakesTyped'
    <3>1. CASE r.proof = "yes"
      <4>1. stakes' = [stakes EXCEPT ![r.guardian] = rows]
        BY <1>4, <2>3, <3>1 DEF EndToken, StakingInv, StakesTyped
      <4>2. [state |-> "active", by |-> r.by, cooling |-> FALSE] \in Row
        BY <2>3 DEF Row
      <4>3. /\ rows \in [Token -> Row]
            /\ \A t \in Token : /\ rows[t].state = "none" <=> rows[t].by = Nobody
                                /\ rows[t].cooling => rows[t].state = "left"
        BY <2>3, <4>2, NobodyAssumption DEF StakingInv, StakesTyped
      <4>. HIDE DEF rows
      <4>. QED  BY <2>3, <4>1, <4>3, RowsWritten DEF StakingInv
    <3>2. CASE r.proof # "yes"
      BY <1>4, <3>2 DEF EndToken, StakingInv, StakesTyped
    <3>. QED  BY <3>1, <3>2
  <2>5. stakings' \subseteq Request
    BY <1>1, <2>1, <2>2
  <2>. QED  BY <1>4, <2>4, <2>5 DEF EndToken, StakingInv, OwnersTyped, CopyTyped, RequestsTyped,
               ToolTyped, SyncTyped, fund
<1>5. CASE StakeReturns(r)
  <2>1. [guardian |-> r.guardian, by |-> r.by, delegated |-> FALSE] \in Copied
    BY <1>1 DEF Request, Copied
  <2>2. CopyTyped' /\ ToolTyped'
    <3>1. CASE tool.step = "staking" /\ r.id = calls
      <4>1. ToolTyped'
        BY <1>5, <3>1 DEF StakeReturns, IdleTool, ToolTyped
      <4>2. copy' = [t \in Token |-> IF t \in r.staked
                        THEN [guardian |-> r.guardian, by |-> r.by, delegated |-> FALSE] ELSE copy[t]]
        BY <1>5, <3>1 DEF StakeReturns
      <4>3. CopyTyped'
        BY <2>1, <4>2 DEF StakingInv, CopyTyped
      <4>. QED  BY <4>1, <4>3
    <3>2. CASE ~(tool.step = "staking" /\ r.id = calls)
      <4>1. UNCHANGED <<tool, copy>>
        BY <1>5, <3>2 DEF StakeReturns
      <4>. QED  BY <4>1 DEF StakingInv, CopyTyped, ToolTyped
    <3>. QED  BY <3>1, <3>2
  <2>. QED  BY <1>5, <2>2 DEF StakeReturns, StakingInv, OwnersTyped, StakesTyped, RequestsTyped,
               SyncTyped, fund
<1>. QED  BY <1>2, <1>3, <1>4, <1>5 DEF HandleStaking

\* The tools that unstake and delegate start.
LEMMA ToolStarts ==
  ASSUME StakingInv, NEW u \in User,
         DelegateVotingPower(u) \/ \E g \in Guardian : UnstakeNFT(u, g)
  PROVE  StakingInv'
<1>1. calls' \in 0..MaxCalls
  <2>1. calls \in 0..MaxCalls /\ calls < MaxCalls /\ calls' = calls + 1
    BY DEF DelegateVotingPower, UnstakeNFT, StakingInv, RequestsTyped
  <2>. QED  BY <2>1, CallAssumption
<1>2. ToolTyped'
  <2>1. CASE DelegateVotingPower(u)
    <3>1. \A t \in CopiedFor(u) : t \in Token /\ copy[t] \in Copied
      BY DEF CopiedFor, StakingInv, CopyTyped
    <3>. DEFINE rows == {[token |-> t, row |-> copy[t]] : t \in CopiedFor(u)}
    <3>2. tool' = [step |-> "delegating", guardian |-> Nobody, by |-> u, rows |-> rows]
      BY <2>1 DEF DelegateVotingPower, IdleTool
    <3>3. rows \in SUBSET [token: Token, row: Copied]
      BY <3>1
    <3>. HIDE DEF rows
    <3>. QED  BY <3>2, <3>3 DEF ToolTyped
  <2>2. CASE \E g \in Guardian : UnstakeNFT(u, g)
    BY <2>2 DEF UnstakeNFT, IdleTool, ToolTyped
  <2>. QED  BY <2>1, <2>2
<1>3. UNCHANGED <<fund, stakes, verified, copy, stakings, sync>>
  BY DEF DelegateVotingPower, UnstakeNFT
<1>. QED
  BY <1>1, <1>2, <1>3 DEF StakingInv, OwnersTyped, StakesTyped, CopyTyped, RequestsTyped, SyncTyped, fund

\* A tool gets its answer, or none; rows it read before are written back.
LEMMA ToolHandled ==
  ASSUME StakingInv, HandleTool \/ ToolTimesOut
  PROVE  StakingInv'
<1>1. UNCHANGED <<fund, verified, stakings, sync, calls>>
  BY DEF HandleTool, ToolTimesOut, UnstakeHandled, UnstakeReturns, DelegateReturns
<1>2. OwnersTyped' /\ RequestsTyped' /\ SyncTyped'
  BY <1>1 DEF StakingInv, OwnersTyped, RequestsTyped, SyncTyped, fund
<1>3. CASE UnstakeHandled
  <2>1. tool.guardian \in Guardian /\ tool.by \in User
    BY <1>3 DEF UnstakeHandled, StakingInv, ToolTyped
  <2>2. ToolTyped'
    <3>1. CASE tool' = [tool EXCEPT !.step = "unstaked"]
      BY <2>1, <3>1 DEF StakingInv, ToolTyped
    <3>2. CASE tool' = IdleTool
      BY <3>2 DEF IdleTool, ToolTyped
    <3>. QED  BY <1>3, <3>1, <3>2 DEF UnstakeHandled
  <2>3. StakesTyped'
    <3>. DEFINE g == tool.guardian
                rows == [t \in Token |-> IF t \in StakedAt(g) /\ stakes[g][t].by = tool.by
                            THEN Left(stakes[g][t]) ELSE stakes[g][t]]
    <3>1. CASE stakes' = [stakes EXCEPT ![g] = rows]
      <4>1. /\ rows \in [Token -> Row]
            /\ \A t \in Token : /\ rows[t].state = "none" <=> rows[t].by = Nobody
                                /\ rows[t].cooling => rows[t].state = "left"
        BY <2>1, LeavesRow, NobodyAssumption DEF StakingInv, StakesTyped
      <4>. HIDE DEF rows
      <4>. QED  BY <2>1, <3>1, <4>1, RowsWritten DEF StakingInv
    <3>2. CASE UNCHANGED stakes
      BY <3>2 DEF StakingInv, StakesTyped
    <3>3. stakes' = [stakes EXCEPT ![g] = rows] \/ UNCHANGED stakes
      BY <1>3, <2>1 DEF UnstakeHandled, StakingInv, StakesTyped
    <3>. QED  BY <3>1, <3>2, <3>3
  <2>. QED  BY <1>2, <1>3, <2>2, <2>3 DEF UnstakeHandled, StakingInv, CopyTyped
<1>4. CASE UnstakeReturns
  <2>1. CopyTyped' /\ ToolTyped' /\ UNCHANGED stakes
    BY <1>4 DEF UnstakeReturns, StakingInv, CopyTyped, ToolTyped, IdleTool
  <2>. QED  BY <1>2, <2>1 DEF StakingInv, StakesTyped
<1>5. CASE DelegateReturns
  <2>1. tool.rows \subseteq [token: Token, row: Copied] /\ UNCHANGED stakes
    BY <1>5 DEF DelegateReturns, StakingInv, ToolTyped
  <2>2. CopyTyped'
    <3>. SUFFICES ASSUME NEW t \in Token, \E r \in tool.rows : r.token = t
                  PROVE  [(CHOOSE r \in tool.rows : r.token = t).row EXCEPT !.delegated = TRUE] \in Copied
      BY <1>5 DEF DelegateReturns, StakingInv, CopyTyped
    <3>1. (CHOOSE r \in tool.rows : r.token = t) \in tool.rows
      OBVIOUS
    <3>. QED  BY <2>1, <3>1 DEF Copied
  <2>3. ToolTyped'
    BY <1>5 DEF DelegateReturns, ToolTyped, IdleTool
  <2>. QED  BY <1>2, <2>1, <2>2, <2>3 DEF StakingInv, StakesTyped
<1>6. CASE ToolTimesOut
  BY <1>2, <1>6 DEF ToolTimesOut, StakingInv, StakesTyped, CopyTyped, ToolTyped, IdleTool
<1>. QED  BY <1>3, <1>4, <1>5, <1>6 DEF HandleTool

\* What the job goes on with is a part of the guardians it had.
LEMMA ProceedsTyped ==
  ASSUME NEW left \in SUBSET verified, verified \subseteq Guardian, Proceed(left), UNCHANGED verified
  PROVE  SyncTyped'
BY DEF Proceed, SyncTyped, IdleSync

\* The hourly job starts, hears, and copies what it heard.
LEMMA SyncInv ==
  ASSUME StakingInv, Sync
  PROVE  StakingInv'
<1>1. UNCHANGED <<fund, stakes, verified, tool, stakings, calls>>
  BY DEF Sync, StartSync, SyncRead, SyncApply
<1>2. OwnersTyped' /\ StakesTyped' /\ RequestsTyped' /\ ToolTyped'
  BY <1>1 DEF StakingInv, OwnersTyped, StakesTyped, RequestsTyped, ToolTyped, fund
<1>3. verified \subseteq Guardian /\ sync.todo \subseteq verified
  BY DEF StakingInv, SyncTyped
<1>4. CASE StartSync
  BY <1>2, <1>3, <1>4 DEF StartSync, StakingInv, CopyTyped, SyncTyped, IdleSync
<1>5. ASSUME NEW g \in Guardian, SyncRead(g)
      PROVE  StakingInv'
  <2>1. CopyTyped'
    BY <1>5 DEF SyncRead, StakingInv, CopyTyped
  <2>2. CASE Proceed(sync.todo \ {g})
    BY <1>1, <1>2, <1>3, <2>1, <2>2, ProceedsTyped DEF StakingInv
  <2>3. CASE sync' = [sync EXCEPT !.step = "heard", !.at = g, !.todo = @ \ {g},
                                  !.heard = {[token |-> t, by |-> stakes[g][t].by] : t \in StakedAt(g)}]
    <3>1. \A t \in StakedAt(g) : t \in Token /\ stakes[g][t].by \in User
      BY LeavesRow DEF StakingInv
    <3>2. {[token |-> t, by |-> stakes[g][t].by] : t \in StakedAt(g)} \subseteq [token: Token, by: User]
      BY <3>1
    <3>. DEFINE heard == {[token |-> t, by |-> stakes[g][t].by] : t \in StakedAt(g)}
    <3>3. sync' = [sync EXCEPT !.step = "heard", !.at = g, !.todo = @ \ {g}, !.heard = heard]
      BY <2>3
    <3>4. heard \in SUBSET [token: Token, by: User]
      BY <3>2
    <3>. HIDE DEF heard
    <3>5. SyncTyped
      BY DEF StakingInv
    <3>6. SyncTyped'
      BY <1>1, <3>3, <3>4, <3>5 DEF SyncTyped
    <3>. QED  BY <1>2, <2>1, <3>6 DEF StakingInv
  <2>. QED  BY <1>5, <2>2, <2>3 DEF SyncRead
<1>6. CASE SyncApply
  <2>1. sync.at \in Guardian /\ sync.heard \subseteq [token: Token, by: User]
    BY <1>6 DEF SyncApply, StakingInv, SyncTyped
  <2>2. CopyTyped'
    <3>. SUFFICES ASSUME NEW t \in Token, \E h \in sync.heard : h.token = t
                  PROVE  (CHOOSE h \in sync.heard : h.token = t).by \in User
      BY <1>6, <2>1 DEF SyncApply, Merged, StakingInv, CopyTyped, Copied
    <3>1. (CHOOSE h \in sync.heard : h.token = t) \in sync.heard
      OBVIOUS
    <3>. QED  BY <2>1, <3>1
  <2>3. SyncTyped'
    BY <1>1, <1>3, <1>6, ProceedsTyped DEF SyncApply
  <2>. QED  BY <1>2, <2>2, <2>3 DEF StakingInv
<1>. QED  BY <1>4, <1>5, <1>6 DEF Sync

\* The jobs of the guardians end stakes and cooldowns.
LEMMA GuardiansInv ==
  ASSUME StakingInv, NEW g \in Guardian, NEW t \in Token,
         Reverify(g, t) \/ CooldownEnds(g, t)
  PROVE  StakingInv'
<1>1. UNCHANGED <<fund, verified, copy, tool, stakings, sync, calls>>
  BY DEF Reverify, CooldownEnds
<1>2. PICK row \in Row : /\ stakes' = [stakes EXCEPT ![g] = [@ EXCEPT ![t] = row]]
                         /\ row.state = "none" <=> row.by = Nobody
                         /\ row.cooling => row.state = "left"
  <2>1. CASE Reverify(g, t)
    <3>1. stakes' = [stakes EXCEPT ![g] = [@ EXCEPT ![t] = Left(stakes[g][t])]] /\ t \in StakedAt(g)
      BY <2>1 DEF Reverify, StakingInv, StakesTyped
    <3>. QED  BY <3>1, LeavesRow, NobodyAssumption DEF StakingInv
  <2>2. CASE CooldownEnds(g, t)
    <3>. DEFINE row == [stakes[g][t] EXCEPT !.cooling = FALSE]
    <3>1. stakes[g][t] \in Row /\ (stakes[g][t].state = "none" <=> stakes[g][t].by = Nobody)
      BY DEF StakingInv, StakesTyped
    <3>2. row \in Row /\ row.state = stakes[g][t].state /\ row.by = stakes[g][t].by /\ ~row.cooling
      BY <3>1 DEF Row
    <3>3. stakes' = [stakes EXCEPT ![g] = [@ EXCEPT ![t] = row]]
      BY <2>2 DEF CooldownEnds, StakingInv, StakesTyped
    <3>. HIDE DEF row
    <3>. QED  BY <3>1, <3>2, <3>3
  <2>. QED  BY <2>1, <2>2
<1>3. StakesTyped'
  BY <1>2 DEF StakingInv, StakesTyped
<1>. QED
  BY <1>1, <1>3 DEF StakingInv, OwnersTyped, CopyTyped, RequestsTyped, ToolTyped, SyncTyped, fund

\* Every step keeps the invariant.
LEMMA StakingStep ==
  ASSUME StakingInv, [StakingNext]_stakingVars
  PROVE  StakingInv'
<1>1. ASSUME NEW g \in Guardian, VerifyGuardian(g)
      PROVE  StakingInv'
  BY <1>1 DEF VerifyGuardian, StakingInv, OwnersTyped, StakesTyped, CopyTyped, RequestsTyped, ToolTyped,
     SyncTyped, fund
<1>2. ASSUME NEW t \in Token, NEW u \in User \cup {Nobody}, Move(t, u)
      PROVE  StakingInv'
  BY <1>2 DEF Move, StakingInv, OwnersTyped, StakesTyped, CopyTyped, RequestsTyped, ToolTyped, SyncTyped
<1>3. CASE UNCHANGED stakingVars
  BY <1>3 DEF stakingVars, fund, StakingInv, OwnersTyped, StakesTyped, CopyTyped, RequestsTyped, ToolTyped,
     SyncTyped
<1>. QED
  BY <1>1, <1>2, <1>3, StakeStarts, StakingHandled, ToolStarts, ToolHandled, SyncInv, GuardiansInv
  DEF StakingNext

-----------------------------------------------------------------------------
(* StakingSync: the theorems *)

\* The invariant of StakingSync.
THEOREM StakingInvariant == StakingSpec => []StakingInv
<1>1. StakingInit => StakingInv
  BY StakingInitInv
<1>2. StakingInv /\ [StakingNext]_stakingVars => StakingInv'
  BY StakingStep
<1>. QED  BY <1>1, <1>2, PTL DEF StakingSpec

\* The tables and suspended calls keep their types, and only a stake that was
\* left cools down, for any number of guardians, tokens, users and faults.
THEOREM StakingTypes == StakingSpec => []StakingTypeOK
<1>1. StakingInv => StakingTypeOK
  BY DEF StakingInv, OwnersTyped, StakesTyped, CopyTyped, RequestsTyped, ToolTyped, SyncTyped, StakingTypeOK
<1>. QED  BY <1>1, StakingInvariant, PTL
================================================================================
