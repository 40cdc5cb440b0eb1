--------------------------- MODULE SnapshotsProofs ---------------------------
(***************************************************************************)
(* Proofs about Snapshots, for any number of agents and guardians, any     *)
(* bound on runs and snapshots and any number of faults: a guardian never  *)
(* goes back to an older snapshot of the same run, what it holds was made  *)
(* by an agent it trusts, the key it obtained opens it, and an agent       *)
(* enrols at most one measurement.                                         *)
(*                                                                         *)
(* That the key opens the snapshots rests on the key being generated once: *)
(* an agent that has started has sealed exactly one, and every key that    *)
(* ever travelled, with an envelope or to a guardian, is that one.         *)
(***************************************************************************)
EXTENDS Snapshots, FiniteSetTheorems, SequenceTheorems, TLAPS

\* The one key machine a ever generates.
MachineKey(a) == [owner |-> a, number |-> 1]

OneKey ==
    /\ \A a \in Agent : sealed[a] = IF run[a] = 0 THEN 0 ELSE 1
    /\ \A m \in network : m.envelope.key = MachineKey(m.envelope.from)
    /\ \A g \in Guardian :
        /\ \A e \in verifying[g] : e.key = MachineKey(e.from)
        /\ held[g] # None => held[g].key = MachineKey(held[g].from)
        /\ vaultKey[g] # None => vaultKey[g] = MachineKey(vaultKey[g].owner)

SnapshotInv == TypeOK /\ OneKey /\ OneEnrolment

-----------------------------------------------------------------------------
(* The agent's actions *)

\* The first states.
LEMMA InitInv == Init => SnapshotInv
<1>. SUFFICES ASSUME Init PROVE SnapshotInv
  OBVIOUS
<1>1. TypeOK
  BY BoundAssumption, EmptySeq DEF Init, TypeOK
<1>2. OneKey
  BY DEF Init, OneKey
<1>3. OneEnrolment
  BY DEF Init, OneEnrolment
<1>. QED  BY <1>1, <1>2, <1>3 DEF SnapshotInv

\* Enrolling a measurement that is accepted adds nothing, or makes the only one.
LEMMA EnrolsOne ==
  ASSUME NEW a \in Agent, NEW m \in Measurement, TypeOK, OneEnrolment, Enrolls(a, m),
         measures' = [measures EXCEPT ![a] = @ \cup {m}], UNCHANGED configured
  PROVE  OneEnrolment' /\ measures' \in [Agent -> SUBSET Measurement]
<1>1. measures' \in [Agent -> SUBSET Measurement]
  BY DEF TypeOK
<1>2. CASE measures[a] = {}
  <2>1. measures'[a] = {m} /\ Cardinality({m}) = 1 /\ Cardinality({}) = 0
    BY <1>2, FS_Singleton, FS_EmptySet DEF TypeOK
  <2>2. configured[a] = {}
    BY <1>2, <2>1 DEF OneEnrolment
  <2>3. \A b \in Agent : b # a => measures'[b] = measures[b]
    BY DEF TypeOK
  <2>. QED  BY <1>1, <2>1, <2>2, <2>3 DEF OneEnrolment
<1>3. CASE m \in measures[a]
  <2>1. measures[a] \cup {m} = measures[a]
    BY <1>3
  <2>2. measures' = measures
    BY <2>1 DEF TypeOK
  <2>. QED  BY <1>1, <2>2 DEF OneEnrolment
<1>. QED  BY <1>2, <1>3 DEF Enrolls

\* A start reads the configured measurements and finds or makes the one key.
LEMMA StartAgentInv ==
  ASSUME NEW a \in Agent, SnapshotInv, StartAgent(a)
  PROVE  SnapshotInv'
<1>1. faults' \in 0 .. MaxFaults
  BY BoundAssumption DEF StartAgent, Discovered, Fault, SnapshotInv, TypeOK
<1>2. sealed' = [sealed EXCEPT ![a] = 1]
  BY DEF StartAgent, InitializeKey, SnapshotInv, OneKey, TypeOK
<1>3. run' = [run EXCEPT ![a] = run[a] + 1] /\ run[a] + 1 \in 1 .. MaxRuns
  BY BoundAssumption DEF StartAgent, SnapshotInv, TypeOK
<1>4. PICK c \in Configured : configured' = [configured EXCEPT ![a] = c] /\ measures' = [measures EXCEPT ![a] = c]
  BY DEF StartAgent
<1>5. c \subseteq Measurement
  BY ConfiguredAssumption
<1>6. TypeOK'
  BY <1>1, <1>2, <1>3, <1>4, <1>5, BoundAssumption DEF StartAgent, SnapshotInv, TypeOK, guardianVars
<1>7. OneKey'
  BY <1>2, <1>3 DEF StartAgent, SnapshotInv, TypeOK, OneKey, guardianVars
<1>8. OneEnrolment'
  BY <1>4 DEF SnapshotInv, TypeOK, OneEnrolment
<1>. QED  BY <1>6, <1>7, <1>8 DEF SnapshotInv

\* The attestation of a guardian found at the start.
LEMMA VerifyInv ==
  ASSUME NEW a \in Agent, NEW g \in Guardian, SnapshotInv, Verify(a, g)
  PROVE  SnapshotInv'
<1>1. PICK m \in Measurement \cup {None} :
          /\ Measured(g, m)
          /\ IF m # None /\ Enrolls(a, m)
             THEN /\ measures' = [measures EXCEPT ![a] = @ \cup {m}]
                  /\ toRegister' = [toRegister EXCEPT ![a] = @ \cup {g}]
             ELSE UNCHANGED <<measures, toRegister>>
  BY DEF Verify
<1>2. faults' \in 0 .. MaxFaults
  BY <1>1, BoundAssumption DEF Measured, Fault, SnapshotInv, TypeOK
<1>3. OneEnrolment' /\ measures' \in [Agent -> SUBSET Measurement]
  <2>1. CASE m # None /\ Enrolls(a, m)
    BY <1>1, <2>1, EnrolsOne DEF SnapshotInv, Verify
  <2>2. CASE ~ (m # None /\ Enrolls(a, m))
    BY <1>1, <2>2 DEF SnapshotInv, Verify, OneEnrolment, TypeOK
  <2>. QED  BY <2>1, <2>2
<1>4. toRegister' \in [Agent -> SUBSET Guardian] /\ toVerify' \in [Agent -> SUBSET Guardian]
  <2>1. toRegister[a] \cup {g} \subseteq Guardian /\ toVerify[a] \ {g} \subseteq Guardian
    BY DEF SnapshotInv, TypeOK
  <2>2. toVerify' = [toVerify EXCEPT ![a] = toVerify[a] \ {g}]
    BY DEF Verify
  <2>3. toRegister' = [toRegister EXCEPT ![a] = toRegister[a] \cup {g}] \/ toRegister' = toRegister
    BY <1>1
  <2>4. toVerify \in [Agent -> SUBSET Guardian] /\ toRegister \in [Agent -> SUBSET Guardian]
    BY DEF SnapshotInv, TypeOK
  <2>5. toVerify' \in [Agent -> SUBSET Guardian]
    BY <2>1, <2>2, <2>4
  <2>6. toRegister' \in [Agent -> SUBSET Guardian]
    BY <2>1, <2>3, <2>4
  <2>. QED  BY <2>5, <2>6
<1>5. TypeOK'
  BY <1>2, <1>3, <1>4 DEF Verify, SnapshotInv, TypeOK, guardianVars
<1>6. OneKey'
  BY DEF Verify, SnapshotInv, OneKey, guardianVars
<1>. QED  BY <1>3, <1>5, <1>6 DEF SnapshotInv

\* A registration adds to the trust store only.
LEMMA RegisterInv ==
  ASSUME NEW a \in Agent, NEW g \in Guardian, SnapshotInv, Register(a, g)
  PROVE  SnapshotInv'
<1>1. TypeOK'
  <2>1. toRegister[a] \ {g} \subseteq Guardian /\ trusts[g] \cup {a} \subseteq Agent
    BY DEF SnapshotInv, TypeOK
  <2>2. toRegister' = [toRegister EXCEPT ![a] = toRegister[a] \ {g}]
    BY DEF Register
  <2>3. trusts' = [trusts EXCEPT ![g] = trusts[g] \cup {a}] \/ trusts' = trusts
    BY DEF Register, AddPeer
  <2>4. toRegister \in [Agent -> SUBSET Guardian] /\ trusts \in [Guardian -> SUBSET Agent]
    BY DEF SnapshotInv, TypeOK
  <2>5. toRegister' \in [Agent -> SUBSET Guardian]
    BY <2>1, <2>2, <2>4
  <2>6. trusts' \in [Guardian -> SUBSET Agent]
    BY <2>1, <2>3, <2>4
  <2>. QED  BY <2>5, <2>6 DEF Register, SnapshotInv, TypeOK
<1>2. OneKey' /\ OneEnrolment'
  BY DEF Register, SnapshotInv, OneKey, OneEnrolment
<1>. QED  BY <1>1, <1>2 DEF SnapshotInv

\* A snapshot is encrypted with the one key of the machine.
LEMMA PushSnapshotInv ==
  ASSUME NEW a \in Agent, SnapshotInv, PushSnapshot(a)
  PROVE  SnapshotInv'
<1>. DEFINE e == [from |-> a, run |-> run[a], seq |-> seq[a] + 1, key |-> KeyOf(a)]
<1>1. seq' = [seq EXCEPT ![a] = seq[a] + 1] /\ seq'[a] = seq[a] + 1
  BY DEF PushSnapshot, NextNumber, SnapshotInv, TypeOK
<1>2. run[a] \in 1 .. MaxRuns /\ seq[a] + 1 \in 1 .. MaxSeq
  BY BoundAssumption DEF PushSnapshot, SnapshotInv, TypeOK
<1>3. KeyOf(a) \in Key /\ KeyOf(a) = MachineKey(a)
  BY <1>2 DEF SnapshotInv, TypeOK, OneKey, KeyOf, Key, MachineKey
<1>4. e \in Envelope
  BY <1>2, <1>3 DEF Envelope
<1>5. network' = network \cup {[envelope |-> e, to |-> g] : g \in Guardian}
  BY <1>1 DEF PushSnapshot
<1>6. TypeOK'
  <2>1. network' \subseteq [envelope: Envelope, to: Guardian]
    BY <1>4, <1>5 DEF SnapshotInv, TypeOK
  <2>2. seq' \in [Agent -> 0 .. MaxSeq]
    BY <1>1, <1>2 DEF SnapshotInv, TypeOK
  <2>. QED  BY <2>1, <2>2 DEF PushSnapshot, SnapshotInv, TypeOK, guardianVars
<1>7. OneKey'
  <2>1. \A m \in network' : m.envelope.key = MachineKey(m.envelope.from)
    BY <1>3, <1>5 DEF SnapshotInv, OneKey
  <2>. QED  BY <2>1 DEF PushSnapshot, SnapshotInv, OneKey, guardianVars
<1>8. OneEnrolment'
  BY DEF PushSnapshot, SnapshotInv, OneEnrolment
<1>. QED  BY <1>6, <1>7, <1>8 DEF SnapshotInv

-----------------------------------------------------------------------------
(* The guardian's actions *)

\* A guardian gets the one key of an agent, or a key of its own.
LEMMA ResolveKeyInv ==
  ASSUME NEW g \in Guardian, SnapshotInv, ResolveKey(g)
  PROVE  SnapshotInv'
<1>. DEFINE Enrolled == \E a \in Agent : ObtainKey(a, g)
            Kept     == UNCHANGED measures
<1>1. faults' \in 0 .. MaxFaults
  BY BoundAssumption DEF ResolveKey, Fault, SnapshotInv, TypeOK
<1>2. PICK k \in Key : vaultKey' = [vaultKey EXCEPT ![g] = k] /\ k = MachineKey(k.owner)
  <2>1. ASSUME NEW a \in Agent, ObtainKey(a, g)
        PROVE  KeyOf(a) \in Key /\ KeyOf(a) = MachineKey(KeyOf(a).owner)
    <3>1. sealed[a] = 1
      BY <2>1 DEF ObtainKey, SharesKey, SnapshotInv, TypeOK, OneKey
    <3>. QED  BY <3>1 DEF KeyOf, Key, MachineKey
  <2>2. ASSUME GenerateKey(g)
        PROVE  \E k \in Key : vaultKey' = [vaultKey EXCEPT ![g] = k] /\ k = MachineKey(k.owner)
    <3>1. [owner |-> g, number |-> 1] \in Key
      BY DEF Key
    <3>. QED  BY <2>2, <3>1 DEF GenerateKey, MachineKey
  <2>. QED  BY <2>1, <2>2 DEF ResolveKey, ObtainKey
<1>3. OneEnrolment' /\ measures' \in [Agent -> SUBSET Measurement]
  <2>1. CASE Enrolled
    BY <2>1, EnrolsOne DEF ObtainKey, SharesKey, ResolveKey, SnapshotInv, TypeOK
  <2>2. CASE Kept
    BY <2>2 DEF ResolveKey, SnapshotInv, OneEnrolment, TypeOK
  <2>. QED  BY <2>1, <2>2 DEF ResolveKey
<1>4. TypeOK'
  BY <1>1, <1>2, <1>3 DEF ResolveKey, SnapshotInv, TypeOK
<1>5. OneKey'
  BY <1>2 DEF ResolveKey, SnapshotInv, TypeOK, OneKey
<1>. QED  BY <1>3, <1>4, <1>5 DEF SnapshotInv

\* A bounded queue: append, and drop the oldest when it has grown too long.
LEMMA BoundedQueue ==
  ASSUME NEW S, NEW q \in Seq(S), NEW x \in S, NEW n \in Nat \ {0}, Len(q) <= n
  PROVE  LET longer == Append(q, x)
             kept   == IF Len(longer) > n THEN Tail(longer) ELSE longer
         IN  kept \in Seq(S) /\ Len(kept) <= n
<1>1. Append(q, x) \in Seq(S) /\ Len(Append(q, x)) = Len(q) + 1 /\ Len(q) \in Nat
  BY LenProperties, AppendProperties
<1>2. PICK longer \in Seq(S) : longer = Append(q, x) /\ Len(longer) = Len(q) + 1
  BY <1>1
<1>3. longer # <<>>
  BY <1>1, <1>2, EmptySeq
<1>4. Tail(longer) \in Seq(S) /\ Len(Tail(longer)) = Len(longer) - 1
  BY <1>3, HeadTailProperties
<1>. QED  BY <1>1, <1>2, <1>4

\* The nonce cache keeps its type and its size.
LEMMA RememberTypes ==
  ASSUME NEW g \in Guardian, NEW e \in Envelope, TypeOK, Remember(g, e)
  PROVE  /\ nonces' \in [Guardian -> Seq(Agent \X (1..MaxRuns) \X (1..MaxSeq))]
         /\ \A h \in Guardian : Len(nonces'[h]) <= NonceCache
<1>1. PICK N : N = Agent \X (1..MaxRuns) \X (1..MaxSeq)
  OBVIOUS
<1>2. Nonce(e) \in N
  BY <1>1 DEF Nonce, Envelope
<1>3. nonces \in [Guardian -> Seq(N)] /\ Len(nonces[g]) <= NonceCache
  BY <1>1 DEF TypeOK
<1>4. PICK kept \in Seq(N) : Len(kept) <= NonceCache /\ nonces' = [nonces EXCEPT ![g] = kept]
  BY <1>2, <1>3, BoundedQueue, BoundAssumption DEF Remember
<1>5. nonces' \in [Guardian -> Seq(N)]
  BY <1>3, <1>4
<1>6. \A h \in Guardian : Len(nonces'[h]) <= NonceCache
  BY <1>3, <1>4 DEF TypeOK
<1>. QED  BY <1>1, <1>5, <1>6

\* What arrives is refused, or its nonce is remembered and it waits.
LEMMA ReceiveInv ==
  ASSUME NEW g \in Guardian, NEW e \in OnItsWay(g), SnapshotInv, Receive(g, e)
  PROVE  SnapshotInv'
<1>1. PICK m \in network : m.envelope = e /\ m.to = g
  BY DEF OnItsWay
<1>2. e \in Envelope /\ e.key = MachineKey(e.from)
  BY <1>1 DEF SnapshotInv, TypeOK, OneKey
<1>3. faults' \in 0 .. MaxFaults /\ network' \subseteq network
  BY BoundAssumption DEF Receive, Fault, SnapshotInv, TypeOK
<1>4. \/ Remember(g, e) /\ verifying' = [verifying EXCEPT ![g] = verifying[g] \cup {e}]
      \/ UNCHANGED <<nonces, verifying>>
  BY DEF Receive, ReceiveSnapshot, VerifyEnvelope
<1>5. /\ verifying \in [Guardian -> SUBSET Envelope]
      /\ verifying' \in [Guardian -> SUBSET Envelope]
      /\ \A h \in Guardian : verifying'[h] \subseteq verifying[h] \cup {e}
  <2>1. verifying \in [Guardian -> SUBSET Envelope]
    BY DEF SnapshotInv, TypeOK
  <2>2. verifying[g] \cup {e} \subseteq Envelope
    BY <1>2, <2>1
  <2>. QED  BY <1>4, <2>1, <2>2
<1>6. TypeOK'
  BY <1>2, <1>3, <1>4, <1>5, RememberTypes DEF Receive, SnapshotInv, TypeOK, agentVars
<1>7. OneKey'
  <2>1. \A h \in Guardian : \A x \in verifying'[h] : x.key = MachineKey(x.from)
    BY <1>2, <1>5 DEF SnapshotInv, OneKey
  <2>2. \A x \in network' : x.envelope.key = MachineKey(x.envelope.from)
    BY <1>3 DEF SnapshotInv, OneKey
  <2>. QED  BY <2>1, <2>2 DEF Receive, SnapshotInv, OneKey, agentVars
<1>8. OneEnrolment'
  BY DEF Receive, SnapshotInv, OneEnrolment, agentVars
<1>. QED  BY <1>6, <1>7, <1>8 DEF SnapshotInv

\* A verified snapshot is held if its number is greater.
LEMMA VerifiedInv ==
  ASSUME NEW g \in Guardian, NEW e \in verifying[g], SnapshotInv, Verified(g, e)
  PROVE  SnapshotInv'
<1>1. e \in Envelope /\ e.key = MachineKey(e.from)
  BY DEF SnapshotInv, TypeOK, OneKey
<1>2. held' = [held EXCEPT ![g] = e] \/ held' = held
  BY DEF Verified
<1>3. verifying' = [verifying EXCEPT ![g] = verifying[g] \ {e}]
  BY DEF Verified
<1>4. verifying' \in [Guardian -> SUBSET Envelope] /\ held' \in [Guardian -> Envelope \cup {None}]
  <2>1. verifying \in [Guardian -> SUBSET Envelope] /\ held \in [Guardian -> Envelope \cup {None}]
    BY DEF SnapshotInv, TypeOK
  <2>2. verifying[g] \ {e} \in SUBSET Envelope
    BY <2>1
  <2>3. verifying' \in [Guardian -> SUBSET Envelope]
    BY <1>3, <2>1, <2>2
  <2>. QED  BY <1>1, <1>2, <2>1, <2>3
<1>5. TypeOK'
  BY <1>4 DEF Verified, SnapshotInv, TypeOK, agentVars
<1>6. OneKey'
  <2>1. \A h \in Guardian : verifying'[h] \subseteq verifying[h]
    BY <1>3 DEF SnapshotInv, TypeOK
  <2>2. \A h \in Guardian : held'[h] # None => held'[h].key = MachineKey(held'[h].from)
    BY <1>1, <1>2 DEF SnapshotInv, TypeOK, OneKey
  <2>. QED  BY <2>1, <2>2 DEF Verified, SnapshotInv, OneKey, agentVars
<1>7. OneEnrolment'
  BY DEF Verified, SnapshotInv, OneEnrolment, agentVars
<1>. QED  BY <1>5, <1>6, <1>7 DEF SnapshotInv

\* A refused snapshot is forgotten.
LEMMA VerificationFailsInv ==
  ASSUME NEW g \in Guardian, NEW e \in verifying[g], SnapshotInv, VerificationFails(g, e)
  PROVE  SnapshotInv'
<1>1. verifying' = [verifying EXCEPT ![g] = verifying[g] \ {e}]
  BY DEF VerificationFails
<1>2. verifying' \in [Guardian -> SUBSET Envelope] /\ faults' \in 0 .. MaxFaults
  BY <1>1, BoundAssumption DEF VerificationFails, Fault, SnapshotInv, TypeOK
<1>3. TypeOK'
  BY <1>2 DEF VerificationFails, SnapshotInv, TypeOK, agentVars
<1>4. OneKey'
  <2>1. \A h \in Guardian : verifying'[h] \subseteq verifying[h]
    BY <1>1 DEF SnapshotInv, TypeOK
  <2>. QED  BY <2>1 DEF VerificationFails, SnapshotInv, OneKey, agentVars
<1>5. OneEnrolment'
  BY DEF VerificationFails, SnapshotInv, OneEnrolment, agentVars
<1>. QED  BY <1>3, <1>4, <1>5 DEF SnapshotInv

\* A restart forgets what a guardian knew.
LEMMA RestartGuardianInv ==
  ASSUME NEW g \in Guardian, NEW m \in Measurement, SnapshotInv, RestartGuardian(g, m)
  PROVE  SnapshotInv'
<1>1. TypeOK'
  <2>1. nonces' \in [Guardian -> Seq(Agent \X (1..MaxRuns) \X (1..MaxSeq))]
    BY EmptySeq DEF RestartGuardian, SnapshotInv, TypeOK
  <2>2. \A h \in Guardian : Len(nonces'[h]) <= NonceCache
    BY EmptySeq, BoundAssumption DEF RestartGuardian, SnapshotInv, TypeOK
  <2>3. /\ image' \in [Guardian -> Measurement] /\ phase' \in [Guardian -> {"asking", "up"}]
        /\ vaultKey' \in [Guardian -> Key \cup {None}] /\ trusts' \in [Guardian -> SUBSET Agent]
    BY DEF RestartGuardian, SnapshotInv, TypeOK
  <2>4. verifying' \in [Guardian -> SUBSET Envelope] /\ held' \in [Guardian -> Envelope \cup {None}]
    BY DEF RestartGuardian, SnapshotInv, TypeOK
  <2>5. faults' \in 0 .. MaxFaults
    BY BoundAssumption DEF RestartGuardian, Fault, SnapshotInv, TypeOK
  <2>. QED  BY <2>1, <2>2, <2>3, <2>4, <2>5 DEF RestartGuardian, SnapshotInv, TypeOK, agentVars
<1>2. OneKey'
  BY DEF RestartGuardian, SnapshotInv, TypeOK, OneKey, agentVars
<1>3. OneEnrolment'
  BY DEF RestartGuardian, SnapshotInv, OneEnrolment, agentVars
<1>. QED  BY <1>1, <1>2, <1>3 DEF SnapshotInv

\* A lost message leaves the others.
LEMMA LoseInv ==
  ASSUME NEW m \in network, SnapshotInv, Lose(m)
  PROVE  SnapshotInv'
<1>1. faults' \in 0 .. MaxFaults /\ network' \subseteq network
  BY BoundAssumption DEF Lose, Fault, SnapshotInv, TypeOK
<1>2. TypeOK'
  BY <1>1 DEF Lose, SnapshotInv, TypeOK, agentVars, guardianVars
<1>3. OneKey' /\ OneEnrolment'
  BY <1>1 DEF Lose, SnapshotInv, OneKey, OneEnrolment, agentVars, guardianVars
<1>. QED  BY <1>2, <1>3 DEF SnapshotInv

-----------------------------------------------------------------------------
(* Theorems *)

\* Every step keeps the invariant.
LEMMA NextInv == SnapshotInv /\ [Next]_vars => SnapshotInv'
<1>. SUFFICES ASSUME SnapshotInv, [Next]_vars PROVE SnapshotInv'
  OBVIOUS
<1>1. CASE AgentNext
  BY <1>1, StartAgentInv, PushSnapshotInv, VerifyInv, RegisterInv DEF AgentNext
<1>2. CASE GuardianNext
  BY <1>2, ResolveKeyInv, RestartGuardianInv, ReceiveInv, VerifiedInv, VerificationFailsInv DEF GuardianNext
<1>3. CASE \E m \in network : Lose(m)
  BY <1>3, LoseInv
<1>4. CASE UNCHANGED vars
  BY <1>4 DEF vars, agentVars, guardianVars, SnapshotInv, TypeOK, OneKey, OneEnrolment
<1>. QED  BY <1>1, <1>2, <1>3, <1>4 DEF Next

\* The inductive invariant of the snapshots.
THEOREM SnapshotInvariant == Spec => []SnapshotInv
  BY InitInv, NextInv, PTL DEF Spec

\* Agents, guardians and messages keep their types, and nonce caches their size.
THEOREM SnapshotTypes == Spec => []TypeOK
<1>1. SnapshotInv => TypeOK
  BY DEF SnapshotInv
<1>. QED  BY <1>1, SnapshotInvariant, PTL

\* An agent accepts what is configured, or one measurement it enrolled itself.
THEOREM EnrolsAtMostOne == Spec => []OneEnrolment
<1>1. SnapshotInv => OneEnrolment
  BY DEF SnapshotInv
<1>. QED  BY <1>1, SnapshotInvariant, PTL

\* The key a guardian obtained opens the snapshot it holds.
THEOREM KeysOpenSnapshots == Spec => []KeyOpensSnapshot
<1>1. SnapshotInv => KeyOpensSnapshot
  BY DEF SnapshotInv, OneKey, KeyOpensSnapshot
<1>. QED  BY <1>1, SnapshotInvariant, PTL

\* The step formula of NoRollback.
MovesForward ==
    \A g \in Guardian :
        LET old == held[g]
            new == held'[g] IN
        old # None /\ new # None /\ old.from = new.from /\ old.run = new.run
            => new = old \/ new.seq > old.seq

\* Only a verified snapshot with a greater number replaces another one.
LEMMA NextMovesForward == SnapshotInv /\ [Next]_vars => MovesForward
<1>. SUFFICES ASSUME SnapshotInv, [Next]_vars PROVE MovesForward
  OBVIOUS
<1>0. held \in [Guardian -> Envelope \cup {None}]
  BY DEF SnapshotInv, TypeOK
<1>1. CASE UNCHANGED held
  BY <1>1 DEF MovesForward
<1>2. ASSUME NEW g \in Guardian, NEW e \in verifying[g], Verified(g, e) PROVE MovesForward
  <2>1. CASE Takes(g, e)
    <3>1. held' = [held EXCEPT ![g] = e]
      BY <1>2, <2>1 DEF Verified
    <3>2. held[g] # None => e.seq > held[g].seq
      BY <2>1 DEF Takes, LatestSequence
    <3>. QED  BY <1>0, <3>1, <3>2 DEF MovesForward
  <2>2. CASE ~Takes(g, e)
    BY <1>1, <1>2, <2>2 DEF Verified
  <2>. QED  BY <2>1, <2>2
<1>3. ASSUME NEW g \in Guardian, NEW m \in Measurement, RestartGuardian(g, m) PROVE MovesForward
  BY <1>0, <1>3 DEF RestartGuardian, MovesForward
<1>4. CASE GuardianNext
  BY <1>1, <1>2, <1>3, <1>4 DEF GuardianNext, ResolveKey, Receive, VerificationFails
<1>5. CASE AgentNext
  BY <1>1, <1>5 DEF AgentNext, StartAgent, PushSnapshot, Verify, Register, guardianVars
<1>. QED  BY <1>1, <1>4, <1>5 DEF Next, Lose, vars, guardianVars

\* A guardian never goes back to an older snapshot of the same run.
THEOREM NeverRollsBack == Spec => NoRollback
<1>1. SnapshotInv /\ [Next]_vars => [MovesForward]_held
  BY NextMovesForward
<1>. QED  BY <1>1, SnapshotInvariant, PTL DEF Spec, NoRollback, MovesForward

-----------------------------------------------------------------------------
(* What a guardian holds is genuine *)

\* Every envelope under way was made.
SentIsMade == \A m \in network : Made(m.envelope)

GenuineInv == SnapshotInv /\ SentIsMade /\ HeldIsGenuine

\* What was made stays made: a start opens a new run, a snapshot counts on, and
\* nothing else touches the numbers.
LEMMA MadeStays ==
  ASSUME TypeOK, [Next]_vars, NEW e \in Envelope, Made(e)
  PROVE  Made(e)'
<1>1. /\ e.from \in Agent /\ e.run \in Nat /\ e.seq \in Nat
      /\ run \in [Agent -> Nat] /\ seq \in [Agent -> Nat]
  BY BoundAssumption DEF Envelope, TypeOK
<1>2. CASE UNCHANGED <<run, seq>>
  BY <1>2 DEF Made
<1>3. ASSUME NEW a \in Agent, StartAgent(a) PROVE Made(e)'
  <2>1. run' = [run EXCEPT ![a] = run[a] + 1] /\ \A b \in Agent : b # a => seq'[b] = seq[b]
    BY <1>1, <1>3 DEF StartAgent
  <2>2. CASE e.from = a
    <3>1. e.run <= run[a] /\ run'[a] = run[a] + 1
      BY <1>1, <2>1, <2>2 DEF Made
    <3>. QED  BY <1>1, <2>2, <3>1 DEF Made
  <2>3. CASE e.from # a
    BY <1>1, <2>1, <2>3 DEF Made
  <2>. QED  BY <2>2, <2>3
<1>4. ASSUME NEW a \in Agent, PushSnapshot(a) PROVE Made(e)'
  <2>1. seq' = [seq EXCEPT ![a] = seq[a] + 1] /\ run' = run
    BY <1>4 DEF PushSnapshot, NextNumber
  <2>2. seq[e.from] <= seq'[e.from]
    BY <1>1, <2>1
  <2>. QED  BY <1>1, <2>1, <2>2 DEF Made
<1>5. CASE AgentNext
  BY <1>2, <1>3, <1>4, <1>5 DEF AgentNext, Verify, Register
<1>6. CASE GuardianNext
  BY <1>2, <1>6 DEF GuardianNext, ResolveKey, RestartGuardian, Receive, Verified, VerificationFails, agentVars
<1>7. CASE \E m \in network : Lose(m)
  BY <1>2, <1>7 DEF Lose, agentVars
<1>8. CASE UNCHANGED vars
  BY <1>2, <1>8 DEF vars, agentVars
<1>. QED  BY <1>5, <1>6, <1>7, <1>8 DEF Next

\* An envelope is on its way only if it was before, or is the one just made.
LEMMA SentStaysMade ==
  ASSUME SnapshotInv, SentIsMade, [Next]_vars
  PROVE  SentIsMade'
<1>1. \A m \in network : Made(m.envelope)'
  <2>1. \A m \in network : m.envelope \in Envelope
    BY DEF SnapshotInv, TypeOK
  <2>. QED  BY <2>1, MadeStays DEF SentIsMade, SnapshotInv
<1>2. CASE network' \subseteq network
  BY <1>1, <1>2 DEF SentIsMade
<1>3. ASSUME NEW a \in Agent, PushSnapshot(a) PROVE SentIsMade'
  <2>1. PICK e : e = [from |-> a, run |-> run[a], seq |-> seq'[a], key |-> KeyOf(a)]
    OBVIOUS
  <2>2. network' = network \cup {[envelope |-> e, to |-> g] : g \in Guardian}
    BY <1>3, <2>1 DEF PushSnapshot
  <2>3. run' = run /\ seq[a] + 1 \in Nat /\ seq'[a] = seq[a] + 1
    BY <1>3, BoundAssumption DEF PushSnapshot, NextNumber, SnapshotInv, TypeOK
  <2>4. e.from = a /\ e.run = run'[a] /\ e.seq = seq'[a] /\ seq'[a] \in Nat
    BY <2>1, <2>3
  <2>5. Made(e)'
    BY <2>4 DEF Made
  <2>6. \A m \in network' : m \in network \/ m.envelope = e
    BY <2>1, <2>2
  <2>. QED  BY <1>1, <2>5, <2>6 DEF SentIsMade
<1>4. CASE AgentNext
  BY <1>2, <1>3, <1>4 DEF AgentNext, StartAgent, Verify, Register
<1>5. CASE GuardianNext
  BY <1>2, <1>5 DEF GuardianNext, ResolveKey, RestartGuardian, Receive, Verified, VerificationFails
<1>6. CASE (\E m \in network : Lose(m)) \/ UNCHANGED vars
  BY <1>2, <1>6 DEF Lose, vars
<1>. QED  BY <1>4, <1>5, <1>6 DEF Next

\* What a guardian holds or has under verification.
Kept(g) == verifying[g] \cup ({held[g]} \ {None})

\* Each step leaves a guardian what it had, lets it begin with the envelope of a
\* trusted agent, or takes all of it away together with the trust.
LEMMA KeptComesFromTrusted ==
  ASSUME SnapshotInv, HeldIsGenuine, [Next]_vars, NEW g \in Guardian, NEW e \in Kept(g)'
  PROVE  /\ e.from \in trusts'[g]
         /\ e \in Kept(g) \/ \E m \in network : m.envelope = e
<1>0. /\ \A h \in Guardian : \A x \in Kept(h) : x.from \in trusts[h]
      /\ trusts \in [Guardian -> SUBSET Agent]
      /\ verifying \in [Guardian -> SUBSET Envelope] /\ held \in [Guardian -> Envelope \cup {None}]
  BY DEF HeldIsGenuine, Kept, SnapshotInv, TypeOK
<1>1. CASE trusts[g] \subseteq trusts'[g] /\ Kept(g)' \subseteq Kept(g)
  BY <1>0, <1>1
<1>2. CASE UNCHANGED <<trusts, verifying, held>>
  BY <1>1, <1>2 DEF Kept
<1>3. ASSUME NEW a \in Agent, NEW h \in Guardian, Register(a, h)
      PROVE  trusts[g] \subseteq trusts'[g] /\ Kept(g)' \subseteq Kept(g)
  BY <1>0, <1>3 DEF Register, AddPeer, Kept
<1>4. ASSUME NEW h \in Guardian, NEW m \in Measurement, RestartGuardian(h, m)
      PROVE  trusts[g] \subseteq trusts'[g] /\ Kept(g)' \subseteq Kept(g)
  <2>1. CASE h = g
    <3>1. Kept(g)' = {}
      BY <1>0, <1>4, <2>1 DEF RestartGuardian, Kept
    <3>. QED  BY <3>1
  <2>2. CASE h # g
    BY <1>0, <1>4, <2>2 DEF RestartGuardian, Kept
  <2>. QED  BY <2>1, <2>2
<1>5. ASSUME NEW h \in Guardian, NEW x \in OnItsWay(h), Receive(h, x)
      PROVE  /\ e.from \in trusts'[g]
             /\ e \in Kept(g) \/ \E m \in network : m.envelope = e
  <2>1. UNCHANGED <<trusts, held>>
    BY <1>5 DEF Receive
  <2>2. PICK m \in network : m.envelope = x
    BY DEF OnItsWay
  <2>3. CASE UNCHANGED verifying
    BY <1>2, <2>1, <2>3
  <2>4. CASE x.from \in trusts[h] /\ verifying' = [verifying EXCEPT ![h] = @ \cup {x}]
    <3>1. e \in Kept(g) \/ (g = h /\ e = x)
      BY <1>0, <2>1, <2>4 DEF Kept
    <3>. QED  BY <1>0, <2>1, <2>2, <2>4, <3>1
  <2>. QED  BY <1>5, <2>3, <2>4 DEF Receive, ReceiveSnapshot
<1>6. ASSUME NEW h \in Guardian, NEW x \in verifying[h], Verified(h, x) \/ VerificationFails(h, x)
      PROVE  trusts[g] \subseteq trusts'[g] /\ Kept(g)' \subseteq Kept(g)
  <2>1. /\ UNCHANGED trusts
        /\ verifying' = [verifying EXCEPT ![h] = @ \ {x}]
        /\ held' = [held EXCEPT ![h] = x] \/ held' = held
    BY <1>6 DEF Verified, VerificationFails
  <2>. QED  BY <1>0, <2>1 DEF Kept
<1>7. CASE AgentNext
  BY <1>1, <1>2, <1>3, <1>7 DEF AgentNext, StartAgent, PushSnapshot, Verify, guardianVars
<1>8. CASE GuardianNext
  BY <1>1, <1>2, <1>4, <1>5, <1>6, <1>8 DEF GuardianNext, ResolveKey
<1>9. CASE (\E m \in network : Lose(m)) \/ UNCHANGED vars
  BY <1>2, <1>9 DEF Lose, vars, guardianVars
<1>. QED  BY <1>7, <1>8, <1>9 DEF Next

\* Every step keeps what is held genuine.
LEMMA GenuineStep == GenuineInv /\ [Next]_vars => GenuineInv'
<1>. SUFFICES ASSUME GenuineInv, [Next]_vars PROVE GenuineInv'
  OBVIOUS
<1>1. SnapshotInv /\ SentIsMade /\ HeldIsGenuine
  BY DEF GenuineInv
<1>2. SnapshotInv' /\ SentIsMade'
  BY <1>1, NextInv, SentStaysMade
<1>3. ASSUME NEW g \in Guardian, NEW e \in Kept(g)' PROVE e.from \in trusts'[g] /\ Made(e)'
  <2>1. e.from \in trusts'[g] /\ (e \in Kept(g) \/ \E m \in network : m.envelope = e)
    BY <1>1, <1>3, KeptComesFromTrusted
  <2>2. e \in Envelope /\ Made(e)
    BY <1>1, <2>1 DEF Kept, HeldIsGenuine, SentIsMade, SnapshotInv, TypeOK
  <2>. QED  BY <1>1, <2>1, <2>2, MadeStays DEF SnapshotInv
<1>4. HeldIsGenuine'
  BY <1>3 DEF Kept, HeldIsGenuine
<1>. QED  BY <1>2, <1>4 DEF GenuineInv

\* What a guardian holds was made by an agent it trusts.
THEOREM HeldStaysGenuine == Spec => []HeldIsGenuine
<1>1. Init => GenuineInv
  BY InitInv DEF Init, GenuineInv, SentIsMade, HeldIsGenuine
<1>2. GenuineInv => HeldIsGenuine
  BY DEF GenuineInv
<1>. QED  BY <1>1, <1>2, GenuineStep, PTL DEF Spec
=============================================================================
