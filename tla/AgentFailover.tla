---------------------------- MODULE AgentFailover ----------------------------
(***************************************************************************)
(* Which agent trades when the primary fails: registration and heartbeats  *)
(* (panthers-fund/src/agent/registration.ts, heartbeat.ts), standby and    *)
(* takeover (standby-mode.ts, backup-coordination.ts, db-recovery.ts) and  *)
(* the guardian's side of them (guardian-network/src/shared/               *)
(* registry-client.ts, sentry/agent-verification.ts,                       *)
(* sentry/registration-voting.ts and the heartbeat job of                  *)
(* guardian/main.ts).                                                      *)
(*                                                                         *)
(* One guardian keeps the registry, in memory.  An action is what runs     *)
(* between two awaits.  Clocks are not kept: a record is "silent" once its *)
(* last heartbeat is older than the timeout, which can only happen to an   *)
(* agent whose heartbeats do not arrive.                                   *)
(***************************************************************************)
EXTENDS Integers, FiniteSets

CONSTANTS
    Agent,        \* the machines that run the agent
    Primary,      \* the one started with AGENT_ROLE=primary
    Nobody,       \* the registry before any registration; no stored backup
    MaxAttempts,  \* MAX_ATTEMPTS of a takeover
    MaxFailures,  \* MAX_CONSECUTIVE_FAILURES of a heartbeat manager
    MaxFaults     \* bound: crashes, cut links, restarts and deactivations

ASSUME AgentAssumption == Primary \in Agent /\ Nobody \notin Agent
ASSUME BoundAssumption ==
    /\ MaxAttempts \in Nat \ {0} /\ MaxFailures \in Nat \ {0} /\ MaxFaults \in Nat

Backup == Agent \ {Primary}

VARIABLES
    autoApprove, \* the guardian knew at most one peer when it started
    mode,        \* what each agent is doing
    hasDb,       \* agents that run on a fund database
    beats,       \* agents whose heartbeat manager runs
    failures,    \* consecutive failed heartbeats
    attempt,     \* number of the takeover attempt under way
    home,        \* the agent a standby registers with and heartbeats to
    roster,      \* table backup_agents of each agent's database
    registry,    \* LocalRegistryClient.currentAgent
    trusted,     \* agents in the guardian's trust store
    requests,    \* registration requests past the check for an active agent
    proposals,   \* agents with an open agent_registration proposal
    contacting,  \* standbys the ordered failover still has to contact
    known,       \* backup_agents of the latest snapshot the guardian holds
    stored,      \* backup_agents of the latest backup in the backup store
    granted,     \* history: agents registered since the last deactivation
    reach,       \* agents with a link to the guardian
    faults       \* faults so far

agentVars == <<mode, hasDb, beats, failures, attempt, home, roster>>
guardianVars == <<autoApprove, registry, trusted, requests, proposals, contacting, known, granted>>
network == <<reach, faults>>
vars == <<agentVars, guardianVars, stored, network>>

Standby == {"joining", "heartbeating", "polling", "idle"}
Takeover == {"attempting", "recovering"}
Mode == {"down", "booting", "requesting", "waiting", "trading"} \cup Standby \cup Takeover

Request == [agent: Agent, by: {"agent", "guardian"}]

Link(a) == a \in reach

SetMode(a, m) == mode' = [mode EXCEPT ![a] = m]

\* The HTTP server with the routes of the primary flow runs.
Serving(a) == a \in hasDb /\ mode[a] # "down"

\* The minimal server of a standby runs.
StandbyServing(b) == b \notin hasDb /\ mode[b] # "down"

\* The agents a standby finds on the chain when it starts: the entry of the
\* primary stays there for ever, those of later winners are added.
OnChain == {Primary} \cup hasDb

-----------------------------------------------------------------------------
(* An agent with a database registers and starts to trade *)

\* What runRegistrationFlow finds at the guardian.
RegistrationStatus(a) ==
    CASE ~Link(a) -> "error"
      [] Link(a) /\ registry.active /\ registry.agent = a -> "registered"
      [] Link(a) /\ registry.active /\ registry.agent # a -> "conflict"
      [] OTHER -> "request"

\* The cron jobs start, whatever registration came to.
StartsTrading(a) == SetMode(a, "trading")

\* Registration at start.  A heartbeat starts unless there was a conflict or
\* the guardian was already gone when its attestation was verified.
Enrol(a) ==
    /\ mode[a] = "booting"
    /\ LET status == RegistrationStatus(a) IN
       \/ status = "request" /\ SetMode(a, "requesting") /\ UNCHANGED beats
       \/ status \in {"registered", "error"} /\ StartsTrading(a) /\ beats' = beats \cup {a}
       \/ status \in {"conflict", "error"} /\ StartsTrading(a) /\ UNCHANGED beats
    /\ UNCHANGED <<hasDb, failures, attempt, home, roster, guardianVars, stored, network>>

\* heartbeat of the registry: it was heard of just now.
Heard == registry' = [registry EXCEPT !.silent = FALSE]

\* processHeartbeat: from the active agent only.
AcceptsHeartbeat(a) == Link(a) /\ registry.active /\ registry.agent = a

\* Bug: a heartbeat is not checked against the registered agent.
HeartbeatFromAnyone(a) ==
    /\ a \in beats
    /\ Link(a) /\ registry.active
    /\ Heard
    /\ failures' = [failures EXCEPT ![a] = 0]
    /\ UNCHANGED <<mode, hasDb, beats, attempt, home, roster, autoApprove, trusted,
                   requests, proposals, contacting, known, granted, stored, network>>

\* sendHeartbeat: a manager that failed
\* MaxFailures times in a row stops for good, and the agent trades on.
Heartbeat(a) ==
    /\ a \in beats
    /\ IF AcceptsHeartbeat(a)
       THEN /\ Heard
            /\ failures' = [failures EXCEPT ![a] = 0]
            /\ UNCHANGED beats
       ELSE /\ failures' = [failures EXCEPT ![a] = @ + 1]
            /\ beats' = IF failures'[a] = MaxFailures THEN beats \ {a} ELSE beats
            /\ UNCHANGED registry
    /\ UNCHANGED <<mode, hasDb, attempt, home, roster, autoApprove, trusted,
                   requests, proposals, contacting, known, granted, stored, network>>

\* The hourly snapshot: a guardian takes it from a trusted sender only.
PushSnapshot(a) ==
    /\ mode[a] = "trading"
    /\ Link(a)
    /\ a \in trusted
    /\ known' = roster[a]
    /\ UNCHANGED <<agentVars, autoApprove, registry, trusted, requests, proposals,
                   contacting, granted, stored, network>>

\* POST /api/backups, which no program of the repository calls.
StoreBackup(a) ==
    /\ mode[a] = "trading"
    /\ stored' = roster[a]
    /\ UNCHANGED <<agentVars, guardianVars, network>>

-----------------------------------------------------------------------------
(* Standby *)

\* The roster of agent p gains a standby.
RegisterBackupAgent(p, b) == roster' = [roster EXCEPT ![p] = @ \cup {b}]

\* backupAgentHeartbeat: an agent takes it from the standbys it has a row for.
KnowsBackup(p, b) == Serving(p) /\ b \in roster[p]

\* fallbackToGuardianPolling.
StartsPolling(b) == SetMode(b, "polling")

\* registerWithAgent with an agent found on the chain.
Join(b, p) ==
    /\ mode[b] = "joining"
    /\ p \in OnChain
    /\ home' = [home EXCEPT ![b] = p]
    /\ IF Serving(p)
       THEN RegisterBackupAgent(p, b) /\ SetMode(b, "heartbeating")
       ELSE /\ StartsPolling(b)
            /\ UNCHANGED roster
    /\ UNCHANGED <<hasDb, beats, failures, attempt, guardianVars, stored, network>>

\* A heartbeat to the home agent fails: it is down or does not know this
\* standby.  The standby does not register again, it polls the guardian.
LoseHome(b) ==
    /\ mode[b] = "heartbeating"
    /\ ~KnowsBackup(home[b], b)
    /\ StartsPolling(b)
    /\ UNCHANGED <<hasDb, beats, failures, attempt, home, roster, guardianVars, stored, network>>

\* One heartbeat to an agent that runs is lost, with the same effect.
LoseOneBeat(b) ==
    /\ mode[b] = "heartbeating"
    /\ faults < MaxFaults
    /\ faults' = faults + 1
    /\ StartsPolling(b)
    /\ UNCHANGED <<hasDb, beats, failures, attempt, home, roster, guardianVars, stored, reach>>

\* tick: an active agent with fresh heartbeats ends the polling for good; an
\* unreachable guardian counts as a failed primary.
Poll(b) ==
    /\ mode[b] = "polling"
    /\ IF Link(b) /\ registry.active /\ ~registry.silent
       THEN SetMode(b, "idle") /\ UNCHANGED attempt
       ELSE SetMode(b, "attempting") /\ attempt' = [attempt EXCEPT ![b] = 1]
    /\ UNCHANGED <<hasDb, beats, failures, home, roster, guardianVars, stored, network>>

-----------------------------------------------------------------------------
(* Takeover *)

\* checkRegistry, after the jitter or the pause between two attempts.
CheckRegistry(b) ==
    /\ mode[b] = "attempting"
    /\ SetMode(b, IF Link(b) /\ registry.active THEN "polling" ELSE "requesting")
    /\ UNCHANGED <<hasDb, beats, failures, attempt, home, roster, guardianVars, stored, network>>

\* The main flow: heartbeats and trading start whatever the answer is.
MainFlowAnswered(a) ==
    /\ StartsTrading(a)
    /\ beats' = beats \cup {a}
    /\ UNCHANGED attempt

\* Bug: attempts are not counted.
TakeoverForEver(a, answer) ==
    /\ SetMode(a, CASE answer = "success" -> "recovering"
                     [] answer = "active" -> "polling"
                     [] OTHER -> "attempting")
    /\ UNCHANGED <<beats, attempt>>

\* A takeover goes on to recovery, has lost the race, or tries again.
TakeoverAnswered(a, answer) ==
    LET again == answer = "none" /\ attempt[a] < MaxAttempts IN
    /\ SetMode(a, CASE answer = "success" -> "recovering"
                     [] again -> "attempting"
                     [] OTHER -> "polling")
    /\ attempt' = [attempt EXCEPT ![a] = IF again THEN @ + 1 ELSE @]
    /\ UNCHANGED beats

Answered(a, answer) ==
    IF a \in hasDb THEN MainFlowAnswered(a) ELSE TakeoverAnswered(a, answer)

\* POST /agent/register: no link, an active agent, or accepted for the checks
\* that follow in handleRegistrationRequest.
RequestRegistration(a) ==
    /\ mode[a] = "requesting"
    /\ \/ /\ ~Link(a)
          /\ Answered(a, "none")
          /\ UNCHANGED requests
       \/ /\ Link(a)
          /\ registry.active
          /\ Answered(a, "active")
          /\ UNCHANGED requests
       \/ /\ Link(a)
          /\ ~registry.active
          /\ requests' = requests \cup {[agent |-> a, by |-> "agent"]}
          /\ SetMode(a, "waiting")
          /\ UNCHANGED <<beats, attempt>>
    /\ UNCHANGED <<hasDb, failures, home, roster, autoApprove, registry, trusted,
                   proposals, contacting, known, granted, stored, network>>

\* The request is lost with the guardian, or its answer takes too long.
RequestTimesOut(a) ==
    /\ mode[a] = "waiting"
    /\ [agent |-> a, by |-> "agent"] \notin requests
    /\ Answered(a, "none")
    /\ UNCHANGED <<hasDb, failures, home, roster, guardianVars, stored, network>>

\* Bug: registerAgent overwrites an active record.
Overwrites(a) ==
    /\ registry' = [agent |-> a, active |-> TRUE, silent |-> FALSE]
    /\ granted' = granted \cup {a}

\* registerAgent, and the history of who was granted.
Registers(a) ==
    IF registry.active
    THEN UNCHANGED <<registry, granted>>
    ELSE /\ registry' = [agent |-> a, active |-> TRUE, silent |-> FALSE]
         /\ granted' = granted \cup {a}

\* Bug: the agent is trusted although the registration was refused.
TrustAnyway(r) ==
    trusted' = IF r.by = "guardian" \/ r.agent \in hasDb
               THEN trusted \cup {r.agent} ELSE trusted

\* addAgentToTrustStore: the request of a takeover has no X25519 key, the ones
\* of the main flow and of /api/backup/ready have both.
TrustOnRegistration(r) ==
    trusted' = IF ~registry.active /\ (r.by = "guardian" \/ r.agent \in hasDb)
               THEN trusted \cup {r.agent} ELSE trusted

\* The rest of handleRegistrationRequest: register at once, or open a proposal
\* and report success.  The answer may be lost on the way.
HandleRegistration(r) ==
    /\ r \in requests
    /\ requests' = requests \ {r}
    /\ IF autoApprove
       THEN /\ Registers(r.agent)
            /\ TrustOnRegistration(r)
            /\ UNCHANGED proposals
       ELSE /\ proposals' = proposals \cup {r.agent}
            /\ UNCHANGED <<registry, granted, trusted>>
    /\ LET answer == IF autoApprove /\ registry.active THEN "active" ELSE "success" IN
       IF r.by = "guardian"
       THEN /\ contacting' = IF answer = "success" THEN {} ELSE contacting
            /\ UNCHANGED <<mode, beats, attempt>>
       ELSE /\ UNCHANGED contacting
            /\ IF mode[r.agent] = "waiting"
               THEN Answered(r.agent, IF Link(r.agent) THEN answer ELSE "none")
               ELSE UNCHANGED <<mode, beats, attempt>>
    /\ UNCHANGED <<hasDb, failures, home, roster, autoApprove, known, stored, network>>

\* handleRecovery serves the newest row of backups, if there is one.
HandleRecovery(b) == Link(b) /\ stored # Nobody

\* recoverDatabase through POST /api/recovery; a failure ends the takeover and
\* leaves the registration behind.
Recover(b) ==
    /\ mode[b] = "recovering"
    /\ IF HandleRecovery(b)
       THEN /\ hasDb' = hasDb \cup {b}
            /\ roster' = [roster EXCEPT ![b] = stored]
            /\ SetMode(b, "booting")
       ELSE /\ SetMode(b, "polling")
            /\ UNCHANGED <<hasDb, roster>>
    /\ UNCHANGED <<beats, failures, attempt, home, guardianVars, stored, network>>

-----------------------------------------------------------------------------
(* The guardian *)

\* No heartbeat of the active agent has arrived for longer than the timeout.
Silence ==
    /\ registry.active
    /\ ~registry.silent
    /\ ~(registry.agent \in beats /\ Link(registry.agent))
    /\ registry' = [registry EXCEPT !.silent = TRUE]
    /\ UNCHANGED <<agentVars, autoApprove, trusted, requests, proposals, contacting, known,
                   granted, stored, network>>

\* checkHealth finds the timeout exceeded.
Overdue == registry.active /\ registry.silent

Deactivated ==
    /\ registry' = [registry EXCEPT !.active = FALSE]
    /\ granted' = {}

\* The heartbeat job: checkHealth, and the start of the ordered failover with
\* the standbys of the held snapshot that were heard of in the last two hours.
CheckHealth(fresh) ==
    /\ Overdue
    /\ Deactivated
    /\ fresh \subseteq known
    /\ contacting' = fresh
    /\ UNCHANGED <<agentVars, autoApprove, trusted, requests, proposals, known, stored, network>>

\* GET /agent/heartbeat-check deactivates as well, and starts no failover;
\* POST /agent/deactivate does so whether the agent is silent or not.
DeactivateOnRequest ==
    /\ registry.active
    /\ \/ Overdue /\ UNCHANGED faults
       \/ faults < MaxFaults /\ faults' = faults + 1
    /\ Deactivated
    /\ UNCHANGED <<agentVars, autoApprove, trusted, requests, proposals, contacting, known, stored, reach>>

\* attemptOrderedFailover, one standby: its server answers with a registration
\* request unless it is down or has become a trading agent.
Contact(b) ==
    /\ b \in contacting
    /\ \A r \in requests : r.by # "guardian"
    /\ contacting' = contacting \ {b}
    /\ requests' = IF Link(b) /\ StandbyServing(b) /\ ~registry.active
                   THEN requests \cup {[agent |-> b, by |-> "guardian"]} ELSE requests
    /\ UNCHANGED <<agentVars, autoApprove, registry, trusted, proposals, known, granted, stored, network>>

\* executeRegistration of a proposal that passed (its data has no keys), or the
\* proposal failed.
ResolveRegistration(a) ==
    /\ a \in proposals
    /\ proposals' = proposals \ {a}
    /\ Registers(a) \/ UNCHANGED <<registry, granted>>
    /\ UNCHANGED <<agentVars, autoApprove, trusted, requests, contacting, known, stored, network>>

\* Registry, trust store and received snapshots are in memory.
RestartGuardian ==
    /\ faults < MaxFaults
    /\ faults' = faults + 1
    /\ autoApprove' \in BOOLEAN
    /\ registry' = [agent |-> Nobody, active |-> FALSE, silent |-> FALSE]
    /\ trusted' = {}
    /\ requests' = {}
    /\ contacting' = {}
    /\ known' = {}
    /\ granted' = {}
    /\ UNCHANGED <<agentVars, proposals, stored, reach>>

-----------------------------------------------------------------------------
(* Machines and links *)

Crash(a) ==
    /\ mode[a] # "down"
    /\ faults < MaxFaults
    /\ faults' = faults + 1
    /\ SetMode(a, "down")
    /\ beats' = beats \ {a}
    /\ failures' = [failures EXCEPT ![a] = 0]
    /\ UNCHANGED <<hasDb, attempt, home, roster, guardianVars, stored, reach>>

\* The primary starts on the database of its disk.  A backup starts as a
\* standby, also when it had taken over: the recovered path is not kept.
Restart(a) ==
    /\ mode[a] = "down"
    /\ SetMode(a, IF a = Primary THEN "booting" ELSE "joining")
    /\ hasDb' = IF a = Primary THEN hasDb ELSE hasDb \ {a}
    /\ UNCHANGED <<beats, failures, attempt, home, roster, guardianVars, stored, network>>

CutLink(a) ==
    /\ Link(a)
    /\ faults < MaxFaults
    /\ faults' = faults + 1
    /\ reach' = reach \ {a}
    /\ UNCHANGED <<agentVars, guardianVars, stored>>

HealLink(a) ==
    /\ ~Link(a)
    /\ reach' = reach \cup {a}
    /\ UNCHANGED <<agentVars, guardianVars, stored, faults>>

-----------------------------------------------------------------------------

Init ==
    /\ mode = [a \in Agent |-> IF a = Primary THEN "booting" ELSE "joining"]
    /\ hasDb = {Primary}
    /\ beats = {}
    /\ failures = [a \in Agent |-> 0]
    /\ attempt = [a \in Agent |-> 0]
    /\ home = [a \in Agent |-> Primary]
    /\ roster = [a \in Agent |-> {}]
    /\ autoApprove \in BOOLEAN
    /\ registry = [agent |-> Nobody, active |-> FALSE, silent |-> FALSE]
    /\ trusted = {}
    /\ requests = {}
    /\ proposals = {}
    /\ contacting = {}
    /\ known = {}
    /\ stored = Nobody
    /\ granted = {}
    /\ reach = Agent
    /\ faults = 0

AgentStep(a) ==
    \/ Enrol(a) \/ Heartbeat(a) \/ PushSnapshot(a)
    \/ \E p \in Agent : Join(a, p)
    \/ LoseHome(a) \/ LoseOneBeat(a) \/ Poll(a) \/ CheckRegistry(a)
    \/ RequestRegistration(a) \/ RequestTimesOut(a) \/ Recover(a)

GuardianStep ==
    \/ Silence \/ DeactivateOnRequest \/ RestartGuardian
    \/ \E fresh \in SUBSET Agent : CheckHealth(fresh)
    \/ \E r \in Request : HandleRegistration(r)
    \/ \E a \in Agent : Contact(a) \/ ResolveRegistration(a)

Environment(a) ==
    StoreBackup(a) \/ Crash(a) \/ Restart(a) \/ CutLink(a) \/ HealLink(a)

Next ==
    \/ \E a \in Agent : AgentStep(a) \/ Environment(a)
    \/ GuardianStep

Safety == Init /\ [][Next]_vars

\* Timers keep firing on the guardian and on every agent that is up.  Machines
\* need not restart, links need not heal and nobody has to store a backup.
Spec ==
    /\ Safety
    /\ WF_vars(Silence)
    /\ WF_vars(\E fresh \in SUBSET Agent : CheckHealth(fresh))
    /\ \A r \in Request : WF_vars(HandleRegistration(r))
    /\ \A a \in Agent :
        /\ WF_vars(Heartbeat(a))
        /\ WF_vars(Enrol(a)) /\ WF_vars(\E p \in Agent : Join(a, p))
        /\ WF_vars(LoseHome(a)) /\ WF_vars(Poll(a)) /\ WF_vars(CheckRegistry(a)) /\ WF_vars(Recover(a))
        /\ WF_vars(RequestRegistration(a)) /\ WF_vars(RequestTimesOut(a))
        /\ WF_vars(Contact(a)) /\ WF_vars(ResolveRegistration(a))

-----------------------------------------------------------------------------
(* Properties *)

\* The state is what agents, the guardian's tables and messages under way can hold.
TypeOK ==
    /\ mode \in [Agent -> Mode]
    /\ hasDb \subseteq Agent /\ beats \subseteq hasDb
    /\ failures \in [Agent -> 0..MaxFailures]
    /\ attempt \in [Agent -> 0..MaxAttempts]
    /\ home \in [Agent -> Agent]
    /\ roster \in [Agent -> SUBSET Agent]
    /\ registry \in [agent: Agent \cup {Nobody}, active: BOOLEAN, silent: BOOLEAN]
    /\ trusted \subseteq Agent /\ requests \subseteq Request /\ proposals \subseteq Agent
    /\ contacting \subseteq Agent /\ known \subseteq Agent /\ granted \subseteq Agent
    /\ stored = Nobody \/ stored \subseteq Agent
    /\ reach \subseteq Agent /\ faults \in 0..MaxFaults

\* Between two deactivations at most one agent is told that it is registered,
\* whatever standbys, restarted agents and the ordered failover ask for at the
\* same time ("First backup requests registration", backup-coordination.ts).
OneWinnerPerFailure == Cardinality(granted) <= 1

Holder == IF registry.active THEN registry.agent ELSE Nobody

Lease == INSTANCE AgentLease WITH holder <- Holder

\* The registration is a lease (AgentLease): no order of requests, failovers,
\* proposals, heartbeats and restarts passes it on before it was given up, or
\* makes an agent trusted that never held it.
ImplementsLease == Lease!LeaseSpec

\* A registered agent that stays down is deactivated, whoever else sends
\* heartbeats (checkHealth and the 300 s timeout).
DeadIsDeactivated ==
    \A a \in Agent :
        registry.active /\ registry.agent = a /\ mode[a] = "down"
            ~> ~(registry.active /\ registry.agent = a) \/ mode[a] # "down"

\* A standby that set out to take over.
Trying(b) ==
    /\ mode[b] \in {"attempting", "requesting", "waiting", "recovering"}
    /\ b \notin hasDb

\* A takeover ends, also when the guardian never answers (MAX_ATTEMPTS).
TakeoversEnd == \A b \in Backup : Trying(b) ~> ~Trying(b)

\* "must not double-trade" (registration.ts, index.ts: "Another agent is
\* active"): violated, a conflict does not keep the cron jobs from starting.
OneTrader == \A a, b \in Agent : mode[a] = "trading" /\ mode[b] = "trading" => a = b

\* "Backup starts trading" (backup-coordination.ts): when the primary stays
\* down, a backup is stored and a standby stays up and connected, some standby
\* takes over.  Violated: a standby may idle, or lose the race to itself.
FailoverCompletes ==
    \A b \in Backup :
        <>[](mode[Primary] = "down" /\ mode[b] # "down" /\ Link(b) /\ stored # Nobody)
            => <>(\E c \in Backup : mode[c] = "trading")
=============================================================================
