------------------------- MODULE AgentFailoverProofs -------------------------
(***************************************************************************)
(* Proofs about AgentFailover: for any number of agents and any number of  *)
(* faults, at most one agent is registered between two deactivations, and  *)
(* the registration is a lease: AgentLease is implemented.                 *)
(*                                                                         *)
(* The invariant that carries the proof says more than the property: the   *)
(* history of grants is exactly the agent of the active record.  The types *)
(* need to know in addition which agents trade: only they send heartbeats  *)
(* and count failures, and they run on a database.                         *)
(***************************************************************************)
EXTENDS AgentFailover, FiniteSetTheorems, TLAPS

\* Trading agents, and only they, send heartbeats and count failed ones; an
\* agent that starts or trades has a database, and the primary never loses its.
Phases ==
    /\ Primary \in hasDb
    /\ \A a \in Agent :
        /\ mode[a] \in {"booting", "trading"} => a \in hasDb
        /\ a \in beats => mode[a] = "trading" /\ failures[a] < MaxFailures
        /\ failures[a] # 0 => mode[a] = "trading"

\* Who was granted since the last deactivation is who is registered now.
GrantedIsActive == granted = IF registry.active THEN {registry.agent} ELSE {}

FailoverInv == TypeOK /\ Phases /\ GrantedIsActive

-----------------------------------------------------------------------------
(* Types and phases *)

\* The first states have the types, and only the primary has a database.
LEMMA InitTypes == Init => TypeOK /\ Phases
  BY AgentAssumption, BoundAssumption
  DEF Init, TypeOK, Phases, Mode, Standby, Takeover, Request, Backup

\* registerAgent keeps the types of the record and of the history.
LEMMA RegistersTypes ==
  ASSUME NEW a \in Agent, TypeOK, Registers(a)
  PROVE  registry' \in [agent: Agent \cup {Nobody}, active: BOOLEAN, silent: BOOLEAN] /\ granted' \subseteq Agent
<1>1. CASE registry.active
  BY <1>1 DEF Registers, TypeOK
<1>2. CASE ~registry.active
  <2>1. registry' = [agent |-> a, active |-> TRUE, silent |-> FALSE] /\ granted' = granted \cup {a}
    BY <1>2 DEF Registers
  <2>2. registry' \in [agent: Agent \cup {Nobody}, active: BOOLEAN, silent: BOOLEAN]
    BY <2>1
  <2>3. granted' \subseteq Agent
    BY <2>1 DEF TypeOK
  <2>. QED  BY <2>2, <2>3
<1>. QED  BY <1>1, <1>2

\* The answer to a registration request moves an agent that waited for it on.
LEMMA AnsweredTypes ==
  ASSUME NEW a \in Agent, NEW answer, TypeOK, Phases, Answered(a, answer),
         mode[a] \in {"requesting", "waiting"}, UNCHANGED <<hasDb, failures>>
  PROVE  /\ mode' \in [Agent -> Mode] /\ beats' \subseteq hasDb
         /\ attempt' \in [Agent -> 0 .. MaxAttempts]
         /\ Phases'
  BY BoundAssumption
  DEF Answered, MainFlowAnswered, TakeoverAnswered, StartsTrading, SetMode, TypeOK, Phases,
      Mode, Standby, Takeover

\* Enrol keeps types and phases.
LEMMA EnrolTypes ==
  ASSUME NEW a \in Agent, TypeOK, Phases, Enrol(a)
  PROVE  TypeOK' /\ Phases'
  BY AgentAssumption, BoundAssumption
  DEF Enrol, RegistrationStatus, StartsTrading, SetMode, Link, TypeOK, Phases, Mode,
      Standby, Takeover, guardianVars, network

\* Heartbeat keeps types and phases: its manager counts below the limit, or stops at it.
LEMMA HeartbeatTypes ==
  ASSUME NEW a \in Agent, TypeOK, Phases, Heartbeat(a)
  PROVE  TypeOK' /\ Phases'
<1>1. a \in beats /\ mode[a] = "trading" /\ failures[a] \in 0 .. MaxFailures - 1
  BY BoundAssumption DEF Heartbeat, TypeOK, Phases
<1>2. UNCHANGED <<mode, hasDb, attempt, home, roster, autoApprove, trusted, requests, proposals,
                  contacting, known, granted, stored, reach, faults>>
  BY DEF Heartbeat, network
<1>3. CASE AcceptsHeartbeat(a)
  <2>1. /\ registry' = [registry EXCEPT !.silent = FALSE]
        /\ failures' = [failures EXCEPT ![a] = 0]
        /\ beats' = beats
    BY <1>3 DEF Heartbeat, Heard
  <2>2. registry' \in [agent: Agent \cup {Nobody}, active: BOOLEAN, silent: BOOLEAN]
    BY <2>1 DEF TypeOK
  <2>3. failures' \in [Agent -> 0 .. MaxFailures]
    BY <2>1, BoundAssumption DEF TypeOK
  <2>4. TypeOK'
    BY <1>2, <2>1, <2>2, <2>3 DEF TypeOK
  <2>5. Phases'
    BY <1>1, <1>2, <2>1, BoundAssumption DEF TypeOK, Phases
  <2>. QED  BY <2>4, <2>5
<1>4. CASE ~AcceptsHeartbeat(a)
  <2>1. /\ failures' = [failures EXCEPT ![a] = @ + 1]
        /\ beats' = IF failures'[a] = MaxFailures THEN beats \ {a} ELSE beats
        /\ registry' = registry
    BY <1>4 DEF Heartbeat
  <2>2. failures' \in [Agent -> 0 .. MaxFailures]
    BY <1>1, <2>1, BoundAssumption DEF TypeOK
  <2>3. TypeOK'
    BY <1>2, <2>1, <2>2 DEF TypeOK
  <2>4. Phases'
    BY <1>1, <1>2, <2>1, <2>2, BoundAssumption DEF TypeOK, Phases
  <2>. QED  BY <2>3, <2>4
<1>. QED  BY <1>3, <1>4

\* PushSnapshot keeps types and phases.
LEMMA PushSnapshotTypes ==
  ASSUME NEW a \in Agent, TypeOK, Phases, PushSnapshot(a)
  PROVE  TypeOK' /\ Phases'
  BY AgentAssumption, BoundAssumption
  DEF PushSnapshot, Link, TypeOK, Phases, agentVars, network

\* Join keeps types and phases.
LEMMA JoinTypes ==
  ASSUME NEW a \in Agent, NEW p \in Agent, TypeOK, Phases, Join(a, p)
  PROVE  TypeOK' /\ Phases'
  BY AgentAssumption, BoundAssumption
  DEF Join, OnChain, Serving, RegisterBackupAgent, StartsPolling, SetMode, TypeOK,
      Phases, Mode, Standby, Takeover, guardianVars, network

\* LoseHome keeps types and phases.
LEMMA LoseHomeTypes ==
  ASSUME NEW a \in Agent, TypeOK, Phases, LoseHome(a)
  PROVE  TypeOK' /\ Phases'
  BY AgentAssumption, BoundAssumption
  DEF LoseHome, StartsPolling, SetMode, TypeOK, Phases, Mode, Standby, Takeover,
      guardianVars, network

\* LoseOneBeat keeps types and phases.
LEMMA LoseOneBeatTypes ==
  ASSUME NEW a \in Agent, TypeOK, Phases, LoseOneBeat(a)
  PROVE  TypeOK' /\ Phases'
  BY AgentAssumption, BoundAssumption
  DEF LoseOneBeat, StartsPolling, SetMode, TypeOK, Phases, Mode, Standby, Takeover,
      guardianVars

\* Poll keeps types and phases.
LEMMA PollTypes ==
  ASSUME NEW a \in Agent, TypeOK, Phases, Poll(a)
  PROVE  TypeOK' /\ Phases'
  BY AgentAssumption, BoundAssumption
  DEF Poll, SetMode, Link, TypeOK, Phases, Mode, Standby, Takeover, guardianVars,
      network

\* CheckRegistry keeps types and phases.
LEMMA CheckRegistryTypes ==
  ASSUME NEW a \in Agent, TypeOK, Phases, CheckRegistry(a)
  PROVE  TypeOK' /\ Phases'
  BY AgentAssumption, BoundAssumption
  DEF CheckRegistry, SetMode, Link, TypeOK, Phases, Mode, Standby, Takeover,
      guardianVars, network

\* RequestRegistration keeps types and phases.
LEMMA RequestRegistrationTypes ==
  ASSUME NEW a \in Agent, TypeOK, Phases, RequestRegistration(a)
  PROVE  TypeOK' /\ Phases'
  BY AgentAssumption, BoundAssumption
  DEF RequestRegistration, Answered, MainFlowAnswered, TakeoverAnswered,
      StartsTrading, SetMode, Link, TypeOK, Phases, Mode, Standby, Takeover, Request,
      network

\* RequestTimesOut keeps types and phases.
LEMMA RequestTimesOutTypes ==
  ASSUME NEW a \in Agent, TypeOK, Phases, RequestTimesOut(a)
  PROVE  TypeOK' /\ Phases'
  BY AgentAssumption, BoundAssumption
  DEF RequestTimesOut, Answered, MainFlowAnswered, TakeoverAnswered, StartsTrading,
      SetMode, TypeOK, Phases, Mode, Standby, Takeover, guardianVars, network

\* Recover keeps types and phases.
LEMMA RecoverTypes ==
  ASSUME NEW a \in Agent, TypeOK, Phases, Recover(a)
  PROVE  TypeOK' /\ Phases'
  BY AgentAssumption, BoundAssumption
  DEF Recover, HandleRecovery, SetMode, Link, TypeOK, Phases, Mode, Standby, Takeover,
      guardianVars, network

\* StoreBackup keeps types and phases.
LEMMA StoreBackupTypes ==
  ASSUME NEW a \in Agent, TypeOK, Phases, StoreBackup(a)
  PROVE  TypeOK' /\ Phases'
  BY AgentAssumption, BoundAssumption
  DEF StoreBackup, TypeOK, Phases, agentVars, guardianVars, network

\* Crash keeps types and phases.
LEMMA CrashTypes ==
  ASSUME NEW a \in Agent, TypeOK, Phases, Crash(a)
  PROVE  TypeOK' /\ Phases'
  BY AgentAssumption, BoundAssumption
  DEF Crash, SetMode, TypeOK, Phases, Mode, Standby, Takeover, guardianVars

\* Restart keeps types and phases.
LEMMA RestartTypes ==
  ASSUME NEW a \in Agent, TypeOK, Phases, Restart(a)
  PROVE  TypeOK' /\ Phases'
  BY AgentAssumption, BoundAssumption
  DEF Restart, SetMode, TypeOK, Phases, Mode, Standby, Takeover, guardianVars, network

\* CutLink keeps types and phases.
LEMMA CutLinkTypes ==
  ASSUME NEW a \in Agent, TypeOK, Phases, CutLink(a)
  PROVE  TypeOK' /\ Phases'
  BY AgentAssumption, BoundAssumption
  DEF CutLink, Link, TypeOK, Phases, agentVars, guardianVars

\* HealLink keeps types and phases.
LEMMA HealLinkTypes ==
  ASSUME NEW a \in Agent, TypeOK, Phases, HealLink(a)
  PROVE  TypeOK' /\ Phases'
  BY AgentAssumption, BoundAssumption
  DEF HealLink, Link, TypeOK, Phases, agentVars, guardianVars

\* Silence keeps types and phases.
LEMMA SilenceTypes ==
  ASSUME TypeOK, Phases, Silence
  PROVE  TypeOK' /\ Phases'
  BY AgentAssumption, BoundAssumption
  DEF Silence, TypeOK, Phases, agentVars, network

\* DeactivateOnRequest keeps types and phases.
LEMMA DeactivateOnRequestTypes ==
  ASSUME TypeOK, Phases, DeactivateOnRequest
  PROVE  TypeOK' /\ Phases'
<1>1. faults' \in 0 .. MaxFaults
  BY BoundAssumption DEF DeactivateOnRequest, TypeOK
<1>2. registry' = [registry EXCEPT !.active = FALSE] /\ granted' = {}
  BY DEF DeactivateOnRequest, Deactivated
<1>3. registry' \in [agent: Agent \cup {Nobody}, active: BOOLEAN, silent: BOOLEAN]
  BY <1>2 DEF TypeOK
<1>4. UNCHANGED <<agentVars, autoApprove, trusted, requests, proposals, contacting, known, stored, reach>>
  BY DEF DeactivateOnRequest
<1>. QED
  BY <1>1, <1>2, <1>3, <1>4 DEF TypeOK, Phases, agentVars

\* RestartGuardian keeps types and phases.
LEMMA RestartGuardianTypes ==
  ASSUME TypeOK, Phases, RestartGuardian
  PROVE  TypeOK' /\ Phases'
  BY AgentAssumption, BoundAssumption
  DEF RestartGuardian, TypeOK, Phases, agentVars

\* CheckHealth keeps types and phases.
LEMMA CheckHealthTypes ==
  ASSUME NEW fresh \in SUBSET Agent, TypeOK, Phases, CheckHealth(fresh)
  PROVE  TypeOK' /\ Phases'
  BY AgentAssumption, BoundAssumption
  DEF CheckHealth, Deactivated, TypeOK, Phases, agentVars, network

\* HandleRegistration keeps types and phases, whatever the answer is and whether it arrives.
LEMMA HandleRegistrationTypes ==
  ASSUME NEW r \in Request, TypeOK, Phases, HandleRegistration(r)
  PROVE  TypeOK' /\ Phases'
<1>1. UNCHANGED <<hasDb, failures, home, roster, autoApprove, known, stored, reach, faults>>
  BY DEF HandleRegistration, network
<1>2. r.agent \in Agent
  BY DEF Request
<1>3. registry' \in [agent: Agent \cup {Nobody}, active: BOOLEAN, silent: BOOLEAN] /\ granted' \subseteq Agent
  BY <1>2, RegistersTypes DEF HandleRegistration, TypeOK
<1>4. trusted' \subseteq Agent
  BY <1>2 DEF HandleRegistration, TrustOnRegistration, TypeOK
<1>5. requests' \subseteq Request /\ proposals' \subseteq Agent /\ contacting' \subseteq Agent
  BY <1>2 DEF HandleRegistration, TypeOK
<1>6. \/ UNCHANGED <<mode, beats, attempt>>
      \/ mode[r.agent] = "waiting" /\ \E answer : Answered(r.agent, answer)
  BY DEF HandleRegistration
<1>7. /\ mode' \in [Agent -> Mode] /\ beats' \subseteq hasDb /\ attempt' \in [Agent -> 0 .. MaxAttempts]
      /\ Phases'
  <2>1. CASE UNCHANGED <<mode, beats, attempt>>
    BY <2>1, <1>1 DEF TypeOK, Phases
  <2>2. CASE mode[r.agent] = "waiting" /\ \E answer : Answered(r.agent, answer)
    BY <2>2, <1>1, <1>2, AnsweredTypes
  <2>. QED  BY <1>6, <2>1, <2>2
<1>. QED
  BY <1>1, <1>3, <1>4, <1>5, <1>7 DEF TypeOK

\* Contact keeps types and phases.
LEMMA ContactTypes ==
  ASSUME NEW a \in Agent, TypeOK, Phases, Contact(a)
  PROVE  TypeOK' /\ Phases'
  BY AgentAssumption, BoundAssumption
  DEF Contact, StandbyServing, Link, TypeOK, Phases, Request, agentVars, network

\* ResolveRegistration keeps types and phases.
LEMMA ResolveRegistrationTypes ==
  ASSUME NEW a \in Agent, TypeOK, Phases, ResolveRegistration(a)
  PROVE  TypeOK' /\ Phases'
<1>1. registry' \in [agent: Agent \cup {Nobody}, active: BOOLEAN, silent: BOOLEAN] /\ granted' \subseteq Agent
  BY RegistersTypes DEF ResolveRegistration, TypeOK
<1>. QED
  BY <1>1 DEF ResolveRegistration, TypeOK, Phases, agentVars, network

-----------------------------------------------------------------------------
(* The grants *)

\* Whoever takes part in a registration, the history of grants stays exactly
\* the agent of the active record.
LEMMA GrantStep ==
  ASSUME TypeOK, GrantedIsActive, [Next]_vars
  PROVE  GrantedIsActive'
<1>1. ASSUME NEW a \in Agent, Registers(a) \/ UNCHANGED <<registry, granted>>
      PROVE  GrantedIsActive'
  <2>1. CASE registry.active \/ UNCHANGED <<registry, granted>>
    BY <1>1, <2>1 DEF Registers, GrantedIsActive
  <2>2. CASE ~registry.active /\ Registers(a)
    BY <2>2 DEF Registers, GrantedIsActive
  <2>. QED  BY <1>1, <2>1, <2>2
<1>2. ASSUME NEW v \in BOOLEAN, registry' = [registry EXCEPT !.silent = v], granted' = granted
      PROVE  GrantedIsActive'
  BY <1>2 DEF GrantedIsActive, TypeOK
<1>3. ASSUME Deactivated  PROVE GrantedIsActive'
  BY <1>3 DEF Deactivated, GrantedIsActive, TypeOK
<1>4. CASE UNCHANGED <<registry, granted>>
  BY <1>4 DEF GrantedIsActive
<1>5. CASE \E a \in Agent : AgentStep(a) \/ Environment(a)
  <2>. SUFFICES ASSUME NEW a \in Agent, AgentStep(a) \/ Environment(a)
                PROVE  GrantedIsActive'
    BY <1>5
  <2>1. CASE Heartbeat(a)
    BY <2>1, <1>2, <1>4 DEF Heartbeat, Heard
  <2>2. CASE ~Heartbeat(a)
    <3>1. UNCHANGED <<registry, granted>>
      BY <2>2 DEF AgentStep, Environment, Enrol, PushSnapshot, Join, LoseHome, LoseOneBeat, Poll,
         CheckRegistry, RequestRegistration, RequestTimesOut, Recover, StoreBackup, Crash, Restart,
         CutLink, HealLink, guardianVars
    <3>. QED  BY <3>1, <1>4
  <2>. QED  BY <2>1, <2>2
<1>6. CASE GuardianStep
  <2>1. CASE Silence
    BY <2>1, <1>2 DEF Silence
  <2>2. CASE DeactivateOnRequest \/ \E fresh \in SUBSET Agent : CheckHealth(fresh)
    BY <2>2, <1>3 DEF DeactivateOnRequest, CheckHealth
  <2>3. CASE RestartGuardian
    BY <2>3 DEF RestartGuardian, GrantedIsActive
  <2>4. CASE \E r \in Request : HandleRegistration(r)
    BY <2>4, <1>1 DEF HandleRegistration, Request
  <2>5. CASE \E a \in Agent : Contact(a) \/ ResolveRegistration(a)
    BY <2>5, <1>1, <1>4 DEF Contact, ResolveRegistration
  <2>. QED  BY <1>6, <2>1, <2>2, <2>3, <2>4, <2>5 DEF GuardianStep
<1>7. CASE UNCHANGED vars
  BY <1>7, <1>4 DEF vars, guardianVars
<1>. QED  BY <1>5, <1>6, <1>7 DEF Next

-----------------------------------------------------------------------------
(* AgentFailover implements AgentLease *)

\* A registration that is handled grants the lease, with or without trust, or
\* changes neither.
LEMMA RegistrationIsLeased ==
  ASSUME NEW r \in Request, HandleRegistration(r)
  PROVE  [Lease!LeaseNext]_(Lease!leaseVars)
<1>1. r.agent \in Agent
  BY DEF Request
<1>2. CASE autoApprove /\ ~registry.active
  <2>1. Holder = Nobody /\ Holder' = r.agent
    BY <1>2 DEF HandleRegistration, Registers, Holder
  <2>2. trusted' \in {trusted, trusted \cup {r.agent}}
    BY <1>2 DEF HandleRegistration, TrustOnRegistration
  <2>3. Lease!Grant(r.agent)
    BY <2>1, <2>2 DEF Lease!Grant
  <2>. QED  BY <1>1, <2>3 DEF Lease!LeaseNext
<1>3. CASE ~(autoApprove /\ ~registry.active)
  BY <1>3 DEF HandleRegistration, Registers, TrustOnRegistration, Holder, Lease!leaseVars
<1>. QED  BY <1>2, <1>3

\* Every step grants the lease to one agent, gives it up, forgets it with the
\* guardian's memory, or changes nothing of it.
LEMMA StepIsLeased ==
  ASSUME TypeOK, [Next]_vars
  PROVE  [Lease!LeaseNext]_(Lease!leaseVars)
<1>1. ASSUME UNCHANGED <<registry, trusted>>
      PROVE  [Lease!LeaseNext]_(Lease!leaseVars)
  BY <1>1 DEF Holder, Lease!leaseVars
<1>2. ASSUME NEW v \in BOOLEAN, registry' = [registry EXCEPT !.silent = v], UNCHANGED trusted
      PROVE  [Lease!LeaseNext]_(Lease!leaseVars)
  <2>1. registry'.active = registry.active /\ registry'.agent = registry.agent
    BY <1>2 DEF TypeOK
  <2>. QED  BY <1>2, <2>1 DEF Holder, Lease!leaseVars
<1>3. ASSUME Deactivated, UNCHANGED trusted
      PROVE  [Lease!LeaseNext]_(Lease!leaseVars)
  <2>1. Holder' = Nobody
    BY <1>3 DEF Deactivated, Holder, TypeOK
  <2>. QED  BY <1>3, <2>1 DEF Lease!LeaseNext, Lease!GiveUp
<1>4. CASE \E a \in Agent : AgentStep(a) \/ Environment(a)
  <2>. SUFFICES ASSUME NEW a \in Agent, AgentStep(a) \/ Environment(a)
                PROVE  [Lease!LeaseNext]_(Lease!leaseVars)
    BY <1>4
  <2>1. CASE Heartbeat(a)
    BY <2>1, <1>1, <1>2 DEF Heartbeat, Heard
  <2>2. CASE ~Heartbeat(a)
    <3>1. UNCHANGED <<registry, trusted>>
      BY <2>2 DEF AgentStep, Environment, Enrol, PushSnapshot, Join, LoseHome, LoseOneBeat, Poll,
         CheckRegistry, RequestRegistration, RequestTimesOut, Recover, StoreBackup, Crash, Restart,
         CutLink, HealLink, guardianVars
    <3>. QED  BY <3>1, <1>1
  <2>. QED  BY <2>1, <2>2
<1>5. CASE GuardianStep
  <2>1. CASE Silence
    BY <2>1, <1>2 DEF Silence
  <2>2. CASE DeactivateOnRequest \/ \E fresh \in SUBSET Agent : CheckHealth(fresh)
    BY <2>2, <1>3 DEF DeactivateOnRequest, CheckHealth
  <2>3. CASE RestartGuardian
    BY <2>3 DEF RestartGuardian, Holder, Lease!LeaseNext, Lease!Forget
  <2>4. CASE \E r \in Request : HandleRegistration(r)
    BY <2>4, RegistrationIsLeased
  <2>5. CASE \E a \in Agent : Contact(a)
    BY <2>5, <1>1 DEF Contact
  <2>6. ASSUME NEW a \in Agent, ResolveRegistration(a)
        PROVE  [Lease!LeaseNext]_(Lease!leaseVars)
    <3>1. CASE registry.active \/ UNCHANGED registry
      BY <2>6, <3>1, <1>1 DEF ResolveRegistration, Registers
    <3>2. CASE ~registry.active /\ Registers(a)
      BY <2>6, <3>2 DEF ResolveRegistration, Registers, Holder, Lease!LeaseNext, Lease!Grant
    <3>. QED  BY <2>6, <3>1, <3>2 DEF ResolveRegistration
  <2>. QED  BY <1>5, <2>1, <2>2, <2>3, <2>4, <2>5, <2>6 DEF GuardianStep
<1>6. CASE UNCHANGED vars
  BY <1>6, <1>1 DEF vars, guardianVars
<1>. QED  BY <1>4, <1>5, <1>6 DEF Next

-----------------------------------------------------------------------------
(* The theorems *)

\* Every step keeps types and phases.
LEMMA TypesStep ==
  ASSUME TypeOK, Phases, [Next]_vars
  PROVE  TypeOK' /\ Phases'
<1>1. CASE \E a \in Agent : AgentStep(a) \/ Environment(a)
  BY <1>1, EnrolTypes, HeartbeatTypes, PushSnapshotTypes, JoinTypes, LoseHomeTypes, LoseOneBeatTypes,
     PollTypes, CheckRegistryTypes, RequestRegistrationTypes, RequestTimesOutTypes, RecoverTypes,
     StoreBackupTypes, CrashTypes, RestartTypes, CutLinkTypes, HealLinkTypes
  DEF AgentStep, Environment
<1>2. CASE GuardianStep
  BY <1>2, SilenceTypes, DeactivateOnRequestTypes, RestartGuardianTypes, CheckHealthTypes,
     HandleRegistrationTypes, ContactTypes, ResolveRegistrationTypes
  DEF GuardianStep
<1>3. CASE UNCHANGED vars
  BY <1>3 DEF TypeOK, Phases, vars, agentVars, guardianVars, network
<1>. QED  BY <1>1, <1>2, <1>3 DEF Next

\* The inductive invariant: types, who trades and has a database, and the
\* grants being exactly the agent of the active record.
THEOREM FailoverInvariant == Spec => []FailoverInv
<1>1. Init => FailoverInv
  BY InitTypes DEF Init, FailoverInv, GrantedIsActive
<1>2. FailoverInv /\ [Next]_vars => FailoverInv'
  BY TypesStep, GrantStep DEF FailoverInv
<1>. QED  BY <1>1, <1>2, PTL DEF Spec, Safety

\* Agents, the registry and the messages under way always have their types; a
\* heartbeat manager never counts past the failures at which it stops.
THEOREM FailoverTypes == Spec => []TypeOK
<1>1. FailoverInv => TypeOK
  BY DEF FailoverInv
<1>. QED  BY <1>1, FailoverInvariant, PTL

\* Between two deactivations at most one agent is registered, however many
\* standbys, restarted agents and ordered failovers ask at the same time.
THEOREM OneWinner == Spec => []OneWinnerPerFailure
<1>1. ASSUME FailoverInv  PROVE OneWinnerPerFailure
  <2>1. granted = {} \/ granted = {registry.agent}
    BY <1>1 DEF FailoverInv, GrantedIsActive
  <2>2. Cardinality({}) = 0 /\ Cardinality({registry.agent}) = 1
    BY FS_EmptySet, FS_Singleton
  <2>. QED  BY <2>1, <2>2 DEF OneWinnerPerFailure
<1>. QED  BY <1>1, FailoverInvariant, PTL

\* The registration is a lease, as AgentLease says: no agent gets it while
\* another one has it, and nobody is trusted who never had it.
THEOREM RegistrationIsALease == Spec => ImplementsLease
<1>1. Init => Lease!LeaseInit
  BY DEF Init, Holder, Lease!LeaseInit
<1>2. FailoverInv /\ [Next]_vars => [Lease!LeaseNext]_(Lease!leaseVars)
  BY StepIsLeased DEF FailoverInv
<1>. QED
  BY <1>1, <1>2, FailoverInvariant, PTL DEF Spec, Safety, ImplementsLease, Lease!LeaseSpec
==============================================================================
