------------------------------ MODULE AgentLink ------------------------------
(***************************************************************************)
(* How a guardian keeps in touch with the fund's agent: where the agent is *)
(* (the discovery registry on Solana: solana-registry, its clients, and    *)
(* the jobs of cron.ts and guardian/main.ts around it), how it is          *)
(* (health-monitor.ts), and the changes the holders voted for              *)
(* (config-governance.ts, strategy-governance.ts), which the agent's       *)
(* config-api.ts puts into effect.                                         *)
(*                                                                         *)
(* An agent that takes over starts from the last snapshot of the database. *)
(* The wallet is part of it, and the registry has one entry for each       *)
(* wallet, so all agents write the same entry.  The votes themselves are   *)
(* in Governance, the takeover in AgentFailover, the snapshots in          *)
(* Snapshots.                                                              *)
(***************************************************************************)
EXTENDS Integers, Sequences, FiniteSets, SequencesExt

CONSTANTS
    Agent, Primary,
    Nowhere,       \* an endpoint with no agent, an entry that does not exist
    Configured,    \* FUND_MANAGER_ENDPOINT of the guardian
    Value, None,   \* strategies, limits, listed URLs and measurements; a payload without one
    Change,        \* the changes that are proposed
    MaxProposals,  \* bound: rows of proposals
    MaxRequests,   \* bound: requests to execute a proposal, to decide it or to set the strategy
    MaxChecks,     \* bound: health checks at one time
    MaxRestarts,   \* bound: crashes of agents and restarts of the guardian
    MaxTimeouts    \* bound: requests whose answer comes too late

AnyChange == [type: {"emergency_pause", "emergency_unpause", "trading_limits", "strategy_change",
                     "list_add", "list_remove", "code_update"}, value: Value \cup {None}]

ASSUME AgentAssumption == Primary \in Agent /\ Nowhere \notin Agent /\ Configured \in Agent \cup {Nowhere}
ASSUME ChangeAssumption == None \notin Value /\ Change \subseteq AnyChange
ASSUME BoundAssumption == {MaxProposals, MaxRequests, MaxChecks, MaxRestarts, MaxTimeouts} \subseteq Nat

VARIABLES
    up,          \* agents that run as primary
    posts,       \* agents whose cron jobs know their own endpoint
    registered,  \* registeredOnChain of each running agent
    settings,    \* of each agent's database
    snapshot,    \* the settings in the newest snapshot the guardians have
    entry,       \* the endpoint in the registry entry of the fund's wallet
    config,      \* fundManagerEndpoint of the guardian's config
    health,      \* the endpoint its HealthMonitor asks
    proposals,   \* table proposals
    job,         \* passed proposals the resolution job has still to push
    pushes,      \* POST /api/config/... under way
    applied,     \* proposals some agent applied (for the properties only)
    latest,      \* what the newest row of health_checks shows
    checks,      \* health checks under way
    requests, restarts, timeouts

agentVars == <<up, posts, registered, settings, snapshot>>
linkVars  == <<entry, config, health>>
voteVars  == <<proposals, job, pushes, applied, requests, timeouts>>
checkVars == <<latest, checks>>
vars == <<agentVars, linkVars, voteVars, checkVars, restarts>>

Settings == [paused: BOOLEAN, limits: Value \cup {None}, strategy: Value \cup {None}, listed: SUBSET Value]

\* For the properties only: carried says whether the proposal passed at some
\* time, told what the last push of it came to.
Proposal == [change: AnyChange, status: {"active", "passed", "failed"}, carried: BOOLEAN,
             told: {"nothing", "ok", "error"}]

\* A push waits for nobody once its sender gave up.
Push == [id: 1..MaxProposals, to: Agent \cup {Nowhere}, for: {"job", "request", "nobody"},
         answer: {"none", "ok", "refused"}]

Seen  == {"paused", "fine", "unreachable"}
Check == [at: Agent \cup {Nowhere}, heard: {"nothing"}] \cup [at: {Nowhere}, heard: Seen]

Ids == DOMAIN proposals

Init ==
    /\ up = {Primary} /\ posts \in SUBSET {Primary} /\ registered = {}
    /\ settings = [a \in Agent |-> [paused |-> FALSE, limits |-> None, strategy |-> None, listed |-> {}]]
    /\ snapshot = settings[Primary]
    /\ entry = Nowhere /\ config = Configured /\ health = Configured
    /\ proposals = <<>> /\ job = <<>> /\ pushes = {} /\ applied = {}
    /\ latest = "unreachable" /\ checks = {}
    /\ requests = 0 /\ restarts = 0 /\ timeouts = 0

-----------------------------------------------------------------------------
(* Agents and the registry entry *)

\* register of the program: makes the entry of the wallet, or replaces it.
Register(a) == entry' = a

\* update_endpoint: only for an entry that exists.
UpdateEndpoint(a) == entry # Nowhere /\ entry' = a

RegisterSelf(a) == Register(a) /\ registered' = registered \cup {a}

\* The heartbeat of the entry changes nothing that anybody reads.
PostEndpoint(a) == a \in registered /\ UpdateEndpoint(a) /\ UNCHANGED registered

\* Bug: an entry that was registered is not looked after any more.
RegistryTickOnce(a) ==
    /\ a \in up \cap posts
    /\ entry = Nowhere /\ RegisterSelf(a)
    /\ UNCHANGED <<up, posts, settings, snapshot, config, health, voteVars, checkVars, restarts>>

\* The five-minute job: registers once, then posts the endpoint again and
\* again; an agent that does not know its endpoint does neither.
RegistryTick(a) ==
    /\ a \in up \cap posts
    /\ PostEndpoint(a) \/ (a \notin registered /\ RegisterSelf(a))
    /\ UNCHANGED <<up, posts, settings, snapshot, config, health, voteVars, checkVars, restarts>>

\* /api/set-hostname: registers the running agent at once, while its cron jobs
\* keep the endpoint they were started with.
SetHostname(a) ==
    /\ a \in up /\ RegisterSelf(a)
    /\ UNCHANGED <<up, posts, settings, snapshot, config, health, voteVars, checkVars, restarts>>

\* The hourly snapshot reaches the guardians.
TakeSnapshot(a) ==
    /\ a \in up /\ snapshot # settings[a]
    /\ snapshot' = settings[a]
    /\ UNCHANGED <<up, posts, registered, settings, linkVars, voteVars, checkVars, restarts>>

\* Nobody clears the entry of an agent that is gone.
Crash(a) ==
    /\ a \in up /\ restarts < MaxRestarts /\ restarts' = restarts + 1
    /\ up' = up \ {a} /\ registered' = registered \ {a}
    /\ UNCHANGED <<posts, settings, snapshot, linkVars, voteVars, checkVars>>

\* It starts again with its own database, or a backup takes over with that of
\* the snapshot; the host name is in the environment, or not.
Starts(a) ==
    /\ a \notin up /\ up' = up \cup {a}
    /\ posts' \in {posts \cup {a}, posts \ {a}}
    /\ UNCHANGED <<registered, snapshot, linkVars, voteVars, checkVars, restarts>>

Return(a) == Starts(a) /\ a = Primary /\ UNCHANGED settings

TakeOver(a) ==
    /\ Starts(a) /\ up = {} /\ a # Primary
    /\ settings' = [settings EXCEPT ![a] = snapshot]

\* The agent's unpause tool.
UnpauseFund(a) ==
    /\ a \in up /\ settings[a].paused
    /\ settings' = [settings EXCEPT ![a].paused = FALSE]
    /\ UNCHANGED <<up, posts, registered, snapshot, linkVars, voteVars, checkVars, restarts>>

\* The tools set_strategy and set_strategy_config: no vote is asked for.
SetStrategy(a, s) ==
    /\ a \in up /\ requests < MaxRequests /\ requests' = requests + 1
    /\ settings' = [settings EXCEPT ![a].strategy = s]
    /\ UNCHANGED <<up, posts, registered, snapshot, linkVars, proposals, job, pushes, applied, timeouts,
                   checkVars, restarts>>

-----------------------------------------------------------------------------
(* The guardian *)

\* What reading the registry yields: the entry, or nothing when the RPC node fails.
Found == {Nowhere, entry}

\* main(): every client of the agent is made with the configured endpoint, and
\* the entry that is found goes to the config only.
RestartGuardian ==
    /\ restarts < MaxRestarts /\ restarts' = restarts + 1
    /\ \E found \in Found : config' = IF found = Nowhere THEN Configured ELSE found
    /\ health' = Configured
    /\ job' = <<>> /\ checks' = {}
    /\ pushes' = {[p EXCEPT !.for = "nobody"] : p \in {q \in pushes : q.answer = "none"}}
    /\ UNCHANGED <<agentVars, entry, proposals, applied, requests, timeouts, latest>>

\* Re-discovery tells the HealthMonitor, and none of the other clients.
Rediscover ==
    /\ \E found \in Found \ {Nowhere, config} : config' = found /\ health' = found
    /\ UNCHANGED <<agentVars, entry, voteVars, checkVars, restarts>>

Shows(a) == IF a \notin up THEN "unreachable" ELSE IF settings[a].paused THEN "paused" ELSE "fine"

\* check(), by the ten-minute job or POST /health/check; they may overlap.  Where
\* an answer came from is not recorded.
StartCheck ==
    /\ Cardinality(checks) < MaxChecks
    /\ checks' = checks \cup {[at |-> health, heard |-> "nothing"]}
    /\ UNCHANGED <<agentVars, linkVars, voteVars, latest, restarts>>

CheckAnswered(c) ==
    /\ c.heard = "nothing"
    /\ checks' = (checks \ {c}) \cup {[at |-> Nowhere, heard |-> Shows(c.at)]}
    /\ UNCHANGED <<agentVars, linkVars, voteVars, latest, restarts>>

RecordCheck(c) ==
    /\ c.heard # "nothing"
    /\ checks' = checks \ {c} /\ latest' = c.heard
    /\ UNCHANGED <<agentVars, linkVars, voteVars, restarts>>

-----------------------------------------------------------------------------
(* Voted changes *)

Create(c) ==
    /\ Len(proposals) < MaxProposals
    /\ proposals' = Append(proposals, [change |-> c, status |-> "active", carried |-> FALSE, told |-> "nothing"])
    /\ UNCHANGED <<agentVars, linkVars, job, pushes, applied, requests, timeouts, checkVars, restarts>>

\* POST /config/propose, /rpc, /trading-limits, /pause and /tee-measurement.
Propose(c) == c \in Change /\ Create(c)

\* /propose in Telegram; without its arguments the command only explains itself.
ProposeCommand(c) ==
    /\ c \in Change /\ c.type # "code_update"
    /\ c.type \in {"emergency_pause", "emergency_unpause"} \/ c.value # None
    /\ Create(c)

\* strategy-governance.ts names its fields in a way config-api.ts does not know.
StrategyData == [type |-> "strategy_change", value |-> None]

\* POST /strategy/propose-switch and /propose-params.
ProposeStrategy == Create(StrategyData)

JobWaits == \E p \in pushes : p.for = "job"

Decided(p, what) == [p EXCEPT !.status = what, !.carried = @ \/ what = "passed"]

\* POST /proposals/:id/resolve: a proposal of any status is decided, once more if
\* it was before, by a pool value that comes with the request.
DecideAnew(i, what) ==
    /\ requests < MaxRequests /\ requests' = requests + 1
    /\ proposals' = [proposals EXCEPT ![i] = Decided(@, what)]
    /\ UNCHANGED <<agentVars, linkVars, job, pushes, applied, timeouts, checkVars, restarts>>

NewestFirst(ids) == \A i, j \in DOMAIN ids : i < j => ids[i] > ids[j]

\* The resolution job: without an agent at the configured endpoint the pool is
\* worth nothing, and nothing is decided.  What passed is pushed newest first.
Resolve(passed, failed) ==
    /\ job = <<>> /\ ~JobWaits /\ Configured \in up
    /\ proposals' = [i \in Ids |-> IF i \in passed THEN Decided(proposals[i], "passed")
                                 ELSE IF i \in failed THEN Decided(proposals[i], "failed") ELSE proposals[i]]
    /\ \E ids \in [1..Cardinality(passed) -> passed] : NewestFirst(ids) /\ job' = ids
    /\ UNCHANGED <<agentVars, linkVars, pushes, applied, requests, timeouts, checkVars, restarts>>

\* Bug: the status is not looked at.
ExecuteUnread(i, sender) ==
    pushes' = pushes \cup {[id |-> i, to |-> Configured, for |-> sender, answer |-> "none"]}

\* executeChange: for a passed proposal, to the configured endpoint for ever.
Execute(i, sender) ==
    /\ proposals[i].status = "passed"
    /\ pushes' = pushes \cup {[id |-> i, to |-> Configured, for |-> sender, answer |-> "none"]}

\* What was decided anew since the job began is passed over.
JobPush ==
    /\ job # <<>> /\ ~JobWaits /\ job' = Tail(job)
    /\ Execute(Head(job), "job") \/ (proposals[Head(job)].status # "passed" /\ UNCHANGED pushes)
    /\ UNCHANGED <<agentVars, linkVars, proposals, applied, requests, timeouts, checkVars, restarts>>

\* POST /config/execute/:proposalId.
RequestPush(i) ==
    /\ requests < MaxRequests /\ requests' = requests + 1
    /\ Execute(i, "request")
    /\ UNCHANGED <<agentVars, linkVars, proposals, job, applied, timeouts, checkVars, restarts>>

\* config-api.ts: strategies, limits and list changes need a value.
Accepts(c) == c.type \in {"emergency_pause", "emergency_unpause", "code_update"} \/ c.value # None

Effect(s, c) ==
    CASE c.type = "emergency_pause"   -> [s EXCEPT !.paused = TRUE]
      [] c.type = "emergency_unpause" -> [s EXCEPT !.paused = FALSE]
      [] c.type = "trading_limits"    -> [s EXCEPT !.limits = c.value]
      [] c.type = "strategy_change"   -> [s EXCEPT !.strategy = c.value]
      [] c.type = "list_add"          -> [s EXCEPT !.listed = @ \cup {c.value}]
      [] c.type = "list_remove"       -> [s EXCEPT !.listed = @ \ {c.value}]
      [] c.type = "code_update"       -> s

\* Bug: the request is acknowledged before it is looked at.
HandleConfigAcknowledges(p) ==
    /\ p.answer = "none" /\ p.to \in up
    /\ LET c == proposals[p.id].change  ok == Accepts(c) IN
         /\ settings' = IF ok THEN [settings EXCEPT ![p.to] = Effect(@, c)] ELSE settings
         /\ applied' = IF ok THEN applied \cup {p.id} ELSE applied
         /\ pushes' = (pushes \ {p}) \cup IF p.for = "nobody" THEN {} ELSE {[p EXCEPT !.answer = "ok"]}
    /\ UNCHANGED <<up, posts, registered, snapshot, linkVars, proposals, job, requests, timeouts, checkVars, restarts>>

HandleConfigRequest(p) ==
    /\ p.answer = "none" /\ p.to \in up
    /\ LET c == proposals[p.id].change  ok == Accepts(c) IN
         /\ settings' = IF ok THEN [settings EXCEPT ![p.to] = Effect(@, c)] ELSE settings
         /\ applied' = IF ok THEN applied \cup {p.id} ELSE applied
         /\ pushes' = (pushes \ {p}) \cup
                IF p.for = "nobody" THEN {} ELSE {[p EXCEPT !.answer = IF ok THEN "ok" ELSE "refused"]}
    /\ UNCHANGED <<up, posts, registered, snapshot, linkVars, proposals, job, requests, timeouts, checkVars, restarts>>

Told(p, what) == proposals' = IF p.for = "nobody" THEN proposals ELSE [proposals EXCEPT ![p.id].told = what]

\* The answer; or there is no agent to give one.
PushReturns(p) ==
    /\ \/ p.answer = "ok" /\ Told(p, "ok")
       \/ (p.answer = "refused" \/ (p.answer = "none" /\ p.to \notin up)) /\ Told(p, "error")
    /\ pushes' = pushes \ {p}
    /\ UNCHANGED <<agentVars, linkVars, job, applied, requests, timeouts, checkVars, restarts>>

\* Ten seconds are over; a request that is not answered yet may still be handled.
PushTimesOut(p) ==
    /\ timeouts < MaxTimeouts /\ timeouts' = timeouts + 1
    /\ p.for # "nobody" /\ Told(p, "error")
    /\ pushes' = (pushes \ {p}) \cup IF p.answer = "none" THEN {[p EXCEPT !.for = "nobody"]} ELSE {}
    /\ UNCHANGED <<agentVars, linkVars, job, applied, requests, checkVars, restarts>>

-----------------------------------------------------------------------------
AgentNext(a) ==
    \/ RegistryTick(a) \/ SetHostname(a) \/ TakeSnapshot(a)
    \/ Crash(a) \/ Return(a) \/ TakeOver(a)
    \/ UnpauseFund(a) \/ \E s \in Value : SetStrategy(a, s)

HealthNext == StartCheck \/ \E c \in checks : CheckAnswered(c) \/ RecordCheck(c)

PushNext(p) == HandleConfigRequest(p) \/ PushReturns(p)

Active == {i \in Ids : proposals[i].status = "active"}

Next ==
    \/ \E a \in Agent : AgentNext(a)
    \/ RestartGuardian \/ Rediscover \/ HealthNext
    \/ (\E c \in Change : Propose(c) \/ ProposeCommand(c)) \/ ProposeStrategy
    \/ \E passed, failed \in SUBSET Active : passed \cup failed # {} /\ passed \cap failed = {} /\ Resolve(passed, failed)
    \/ JobPush
    \/ \E i \in Ids : RequestPush(i) \/ \E what \in {"passed", "failed"} : DecideAnew(i, what)
    \/ \E p \in pushes : PushNext(p) \/ PushTimesOut(p)

\* The jobs run on their timers, and each check ends; of pushes nothing is assumed.
Fairness ==
    /\ \A a \in Agent : WF_vars(RegistryTick(a))
    /\ WF_vars(Rediscover) /\ WF_vars(StartCheck)
    /\ \A c \in Check : WF_vars(c \in checks /\ (CheckAnswered(c) \/ RecordCheck(c)))

Spec == Init /\ [][Next]_vars /\ Fairness

-----------------------------------------------------------------------------
(* Properties *)

\* The state is what agents, the guardian and requests under way can hold.
TypeOK ==
    /\ up \subseteq Agent /\ posts \subseteq Agent /\ registered \subseteq up
    /\ settings \in [Agent -> Settings] /\ snapshot \in Settings
    /\ {entry, config, health} \subseteq Agent \cup {Nowhere}
    /\ proposals \in Seq(Proposal) /\ Len(proposals) <= MaxProposals
    /\ IsInjective(job) /\ ToSet(job) \subseteq Ids
    /\ pushes \subseteq Push /\ applied \subseteq Ids
    /\ latest \in Seen /\ checks \subseteq Check

\* What is put into effect was passed by a vote before, and a push reported as
\* done was put into effect, through timeouts, repeated requests, decisions that
\* are taken back, restarts and takeovers.
ChangesAreAccountedFor ==
    /\ \A i \in applied : proposals[i].carried
    /\ \A i \in Ids : proposals[i].told = "ok" => i \in applied

\* The changes that some vote carried.
Mandate == {proposals[i].change : i \in {j \in Ids : proposals[j].carried}}

Voted == INSTANCE VotedSettings WITH mandate <- Mandate

\* The agents' settings are what VotedSettings allows: no push that is late,
\* repeated, from before a restart or of a decision that was taken back changes
\* them in a way that no vote carried.
ImplementsVotedSettings == Voted!VotedSpec

\* Only one agent runs, it posts its endpoint, and the guardian is not in the
\* state HealthUsesDiscovered is about.
Settled(a, shown) ==
    /\ up = {a} /\ a \in posts /\ Shows(a) = shown
    /\ ~(config = a /\ health # a)

\* When agents come to rest, what the guardian shows of the fund becomes and
\* stays what the agent in charge shows, wherever it runs and however long an
\* answer of its predecessor was under way.
StatusCatchesUp ==
    \A a \in Agent, shown \in {"paused", "fine"} : <>[]Settled(a, shown) => <>[](latest = shown)

\* "Update the fund manager endpoint (e.g., after re-discovery)"
\* (health-monitor.ts:23): the agent that was discovered becomes the one that is
\* asked.  Violated: what is discovered at the start goes to the config only,
\* and re-discovery compares with the config.
HealthUsesDiscovered == []<>(health = config)
=============================================================================
