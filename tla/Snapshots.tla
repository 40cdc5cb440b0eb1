------------------------------ MODULE Snapshots ------------------------------
(***************************************************************************)
(* The hourly snapshot of the fund's database on its way to the guardians: *)
(* panthers-fund/src/agent/vault-client.ts, vault/key-manager.ts and the   *)
(* job of cron.ts on one side; guardian-network/src/guardian/db-sync.ts,   *)
(* shared/signed-envelope.ts, trust-store.ts, api/server.ts and the key    *)
(* exchange of guardian/main.ts on the other.                              *)
(*                                                                         *)
(* An envelope is a record; that its hash and signature verify is taken    *)
(* for granted, and its age is abstracted: an envelope that has grown too  *)
(* old is one that was lost.  The await on the attestation service in the  *)
(* middle of receiveSnapshot and of POST /api/attestation is kept.         *)
(***************************************************************************)
EXTENDS Integers, Sequences, FiniteSets

CONSTANTS
    Agent,         \* machines that run the agent and register with guardians
    Guardian,
    None,          \* no snapshot, no key
    Measurement,   \* container measurements
    Configured,    \* values APPROVED_MEASUREMENTS may have at a start
    NonceCache,    \* size of the nonce cache
    MaxSeq,        \* bound: snapshots of one run of an agent
    MaxRuns,       \* bound: starts of an agent
    MaxFaults      \* bound: lost or repeated deliveries, failed verifications, guardian restarts

ASSUME NoneAssumption == None \notin Agent \cup Guardian
ASSUME ConfiguredAssumption == Configured \subseteq SUBSET Measurement
ASSUME BoundAssumption ==
    NonceCache \in Nat \ {0} /\ MaxSeq \in Nat /\ MaxRuns \in Nat /\ MaxFaults \in Nat

VARIABLES
    run,         \* starts of each agent so far; it runs
    seq,         \* VaultClient.sequenceNum
    sealed,      \* number of keys the machine has generated; the last is on its disk
    toVerify,    \* guardians found at the start whose attestation is still checked
    toRegister,  \* guardians that passed, with which the agent still registers
    configured,  \* APPROVED_MEASUREMENTS of this run of the agent
    measures,    \* approvedMeasurements of each agent, in memory
    network,     \* envelopes on their way
    image,       \* measurement of the image each guardian runs
    phase,       \* of a guardian: asking for the vault key, or up
    vaultKey,    \* of each guardian
    trusts,      \* agents in the trust store of each guardian
    nonces,      \* nonce cache of each guardian, oldest first
    verifying,   \* envelopes that wait for the attestation service
    held,        \* latestEncrypted of each guardian
    faults

agentVars == <<run, seq, sealed, toVerify, toRegister, configured, measures>>
guardianVars == <<image, phase, vaultKey, trusts, nonces, verifying, held>>
vars == <<agentVars, guardianVars, network, faults>>

\* A vault key: the n-th one generated by a machine.
Key == [owner: Agent \cup Guardian, number: Nat]

\* A signed envelope with a snapshot; <<from, run, seq>> stands for its nonce.
Envelope == [from: Agent, run: 1..MaxRuns, seq: 1..MaxSeq, key: Key]

KeyOf(a) == [owner |-> a, number |-> sealed[a]]

Nonce(e) == <<e.from, e.run, e.seq>>

LatestSequence(g) == IF held[g] = None THEN 0 ELSE held[g].seq

Fault == faults < MaxFaults /\ faults' = faults + 1

-----------------------------------------------------------------------------
(* The agent *)

\* Bug: a start does not look for the sealed key.
InitializeKeyAnew(a) == sealed' = [sealed EXCEPT ![a] = @ + 1]

\* VaultKeyManager.initialize: the sealed key, or a new one on the first start.
InitializeKey(a) == sealed' = [sealed EXCEPT ![a] = IF @ = 0 THEN 1 ELSE @]

\* Bug: a measurement is enrolled whether or not it is the first.
EnrollsEveryone(a, m) == TRUE

\* The first guardian of a run without configured measurements enrols its own,
\* every other one needs one of the set.
Enrolls(a, m) == measures[a] = {} \/ m \in measures[a]

\* The guardians found in the registry at a start: all of them, or, when it does
\* not answer, those of BOOTSTRAP_GUARDIANS that do.
Discovered(found) ==
    \/ found = Guardian /\ UNCHANGED faults
    \/ found \in SUBSET Guardian /\ Fault

\* A start: the sequence number and the approved measurements are in memory, the
\* latter read from the environment; what governance decides about them goes to
\* the database and is not read.  The bound leaves the new run enough numbers to
\* overtake the one before it.
StartAgent(a) ==
    /\ run[a] < MaxRuns
    /\ seq[a] + MaxFaults < MaxSeq
    /\ run' = [run EXCEPT ![a] = @ + 1]
    /\ seq' = [seq EXCEPT ![a] = 0]
    /\ InitializeKey(a)
    /\ \E found \in SUBSET Guardian : Discovered(found) /\ toVerify' = [toVerify EXCEPT ![a] = found]
    /\ toRegister' = [toRegister EXCEPT ![a] = {}]
    /\ \E c \in Configured :
        /\ configured' = [configured EXCEPT ![a] = c]
        /\ measures' = [measures EXCEPT ![a] = c]
    /\ UNCHANGED <<guardianVars, network>>

\* fetchAttestationQuote and verifyQuoteViaPCCS: the machine of the guardian
\* serves its quote, whatever the guardian does, and the service reads the
\* measurement of its image in it; or one of the two does not answer.
Measured(g, m) ==
    \/ m = image[g] /\ UNCHANGED faults
    \/ m = None /\ Fault

\* verifyGuardianAttestation, once per guardian found at the start; only those
\* that are verified stay.
Verify(a, g) ==
    /\ g \in toVerify[a]
    /\ toVerify' = [toVerify EXCEPT ![a] = @ \ {g}]
    /\ \E m \in Measurement \cup {None} :
        /\ Measured(g, m)
        /\ IF m # None /\ Enrolls(a, m)
           THEN /\ measures' = [measures EXCEPT ![a] = @ \cup {m}]
                /\ toRegister' = [toRegister EXCEPT ![a] = @ \cup {g}]
           ELSE UNCHANGED <<measures, toRegister>>
    /\ UNCHANGED <<run, seq, sealed, configured, guardianVars, network>>

\* addPeer: for as long as the guardian runs.
AddPeer(g, a) == trusts' = [trusts EXCEPT ![g] = @ \cup {a}]

\* Registration at start: a guardian that is up trusts the agent (AgentFailover
\* has the refusals), one that is not is never asked again.
Register(a, g) ==
    /\ toVerify[a] = {}
    /\ g \in toRegister[a]
    /\ toRegister' = [toRegister EXCEPT ![a] = @ \ {g}]
    /\ IF phase[g] = "up" THEN AddPeer(g, a) ELSE UNCHANGED trusts
    /\ UNCHANGED <<run, seq, sealed, toVerify, configured, measures, image, phase,
                   vaultKey, nonces, verifying, held, network, faults>>

\* Bug: the number grows when a guardian accepts the snapshot.
NumberIfAccepted(a) ==
    seq' = [seq EXCEPT ![a] =
                IF \E g \in Guardian : held[g] # None /\ held[g].from = a /\ held[g].run = run[a]
                THEN @ + 1 ELSE 1]

\* createSnapshot: a number for every snapshot, accepted or not.
NextNumber(a) == seq' = [seq EXCEPT ![a] = @ + 1]

\* The hourly job, or the tool trigger_db_sync, sends one envelope to every
\* guardian; both are set up after registration.  A guardian dropped by Verify
\* is found again in the registry within five minutes.
PushSnapshot(a) ==
    /\ run[a] > 0
    /\ toVerify[a] = {} /\ toRegister[a] = {}
    /\ seq[a] < MaxSeq
    /\ NextNumber(a)
    /\ LET e == [from |-> a, run |-> run[a], seq |-> seq'[a], key |-> KeyOf(a)] IN
       network' = network \cup {[envelope |-> e, to |-> g] : g \in Guardian}
    /\ UNCHANGED <<run, sealed, toVerify, toRegister, configured, measures,
                   guardianVars, faults>>

-----------------------------------------------------------------------------
(* The guardian *)

\* POST /api/attestation of the agent: the key, wrapped for a guardian whose
\* measurement is accepted.
SharesKey(a, g) == run[a] > 0 /\ Enrolls(a, image[g])

\* requestVaultKeyFromAgent.
ObtainKey(a, g) ==
    /\ SharesKey(a, g)
    /\ measures' = [measures EXCEPT ![a] = @ \cup {image[g]}]
    /\ vaultKey' = [vaultKey EXCEPT ![g] = KeyOf(a)]

\* generateVaultKey: nobody else has it.
GenerateKey(g) == vaultKey' = [vaultKey EXCEPT ![g] = [owner |-> g, number |-> 1]]

\* At the start of a guardian: the agent's key, or a random one when the agent
\* does not answer, refuses, or is not found.
ResolveKey(g) ==
    /\ phase[g] = "asking"
    /\ phase' = [phase EXCEPT ![g] = "up"]
    /\ \/ \E a \in Agent : ObtainKey(a, g) /\ UNCHANGED faults
       \/ (\A a \in Agent : ~SharesKey(a, g)) /\ GenerateKey(g) /\ UNCHANGED <<measures, faults>>
       \/ Fault /\ GenerateKey(g) /\ UNCHANGED measures
    /\ UNCHANGED <<run, seq, sealed, toVerify, toRegister, configured, image, trusts,
                   nonces, verifying, held, network>>

\* NonceTracker.check: remember the nonce, forget the oldest.
Remember(g, e) ==
    LET longer == Append(nonces[g], Nonce(e)) IN
    nonces' = [nonces EXCEPT ![g] = IF Len(longer) > NonceCache THEN Tail(longer) ELSE longer]

Seen(g, e) == \E i \in DOMAIN nonces[g] : nonces[g][i] = Nonce(e)

\* verifyEnvelope: the signature holds, so a message is refused when its nonce is
\* known; that it is not too old is in Lose.
VerifyEnvelope(g, e) == ~Seen(g, e) /\ Remember(g, e)

\* Bug: the sender is not looked up in the trust store.
ReceivesFromAnyone(g, e) ==
    \/ VerifyEnvelope(g, e) /\ verifying' = [verifying EXCEPT ![g] = @ \cup {e}]
    \/ Seen(g, e) /\ UNCHANGED <<nonces, verifying>>

\* receiveSnapshot up to the await.
ReceiveSnapshot(g, e) ==
    \/ /\ e.from \in trusts[g] /\ VerifyEnvelope(g, e)
       /\ verifying' = [verifying EXCEPT ![g] = @ \cup {e}]
    \/ /\ e.from \notin trusts[g] \/ Seen(g, e)
       /\ UNCHANGED <<nonces, verifying>>

\* POST /api/db/snapshot.  A repeated delivery leaves the message on its way.
Receive(g, e) ==
    LET message == [envelope |-> e, to |-> g] IN
    /\ message \in network
    /\ phase[g] = "up"
    /\ \/ network' = network \ {message} /\ UNCHANGED faults
       \/ Fault /\ UNCHANGED network
    /\ ReceiveSnapshot(g, e)
    /\ UNCHANGED <<agentVars, image, phase, vaultKey, trusts, held>>

\* Bug: the number is compared before the await, here with what is no longer
\* the latest.
TakesWhatWasNewer(g, e) == TRUE

Takes(g, e) == e.seq > LatestSequence(g)

\* receiveSnapshot after the await.
Verified(g, e) ==
    /\ e \in verifying[g]
    /\ verifying' = [verifying EXCEPT ![g] = @ \ {e}]
    /\ held' = IF Takes(g, e) THEN [held EXCEPT ![g] = e] ELSE held
    /\ UNCHANGED <<agentVars, image, phase, vaultKey, trusts, nonces, network, faults>>

\* The attestation service does not answer or refuses: rejected.
VerificationFails(g, e) ==
    /\ e \in verifying[g]
    /\ Fault
    /\ verifying' = [verifying EXCEPT ![g] = @ \ {e}]
    /\ UNCHANGED <<agentVars, image, phase, vaultKey, trusts, nonces, held, network>>

\* Everything the guardian knows of snapshots is in memory, the trust in the
\* agent and its vault key as well; it may come back with another image.
RestartGuardian(g, m) ==
    /\ Fault
    /\ image' = [image EXCEPT ![g] = m]
    /\ phase' = [phase EXCEPT ![g] = "asking"]
    /\ vaultKey' = [vaultKey EXCEPT ![g] = None]
    /\ trusts' = [trusts EXCEPT ![g] = {}]
    /\ nonces' = [nonces EXCEPT ![g] = <<>>]
    /\ verifying' = [verifying EXCEPT ![g] = {}]
    /\ held' = [held EXCEPT ![g] = None]
    /\ UNCHANGED <<agentVars, network>>

\* A message is lost, or arrives when it is too old.
Lose(m) ==
    /\ m \in network
    /\ Fault
    /\ network' = network \ {m}
    /\ UNCHANGED <<agentVars, guardianVars>>

-----------------------------------------------------------------------------

Init ==
    /\ run = [a \in Agent |-> 0]
    /\ seq = [a \in Agent |-> 0]
    /\ sealed = [a \in Agent |-> 0]
    /\ toVerify = [a \in Agent |-> {}]
    /\ toRegister = [a \in Agent |-> {}]
    /\ configured = [a \in Agent |-> {}]
    /\ measures = [a \in Agent |-> {}]
    /\ network = {}
    /\ image \in [Guardian -> Measurement]
    /\ phase = [g \in Guardian |-> "asking"]
    /\ vaultKey = [g \in Guardian |-> None]
    /\ trusts = [g \in Guardian |-> {}]
    /\ nonces = [g \in Guardian |-> <<>>]
    /\ verifying = [g \in Guardian |-> {}]
    /\ held = [g \in Guardian |-> None]
    /\ faults = 0

OnItsWay(g) == {m.envelope : m \in {n \in network : n.to = g}}

AgentNext ==
    \E a \in Agent :
        \/ StartAgent(a) \/ PushSnapshot(a)
        \/ \E g \in Guardian : Verify(a, g) \/ Register(a, g)

GuardianNext ==
    \E g \in Guardian :
        \/ ResolveKey(g)
        \/ \E m \in Measurement : RestartGuardian(g, m)
        \/ \E e \in OnItsWay(g) : Receive(g, e)
        \/ \E e \in verifying[g] : Verified(g, e) \/ VerificationFails(g, e)

Next == AgentNext \/ GuardianNext \/ \E m \in network : Lose(m)

\* The hourly job fires, what was sent arrives and is answered; starts of
\* machines are up to their operators.
Fairness ==
    /\ \A a \in Agent : WF_vars(PushSnapshot(a))
    /\ \A a \in Agent, g \in Guardian : WF_vars(Verify(a, g)) /\ WF_vars(Register(a, g))
    /\ \A g \in Guardian :
        /\ WF_vars(ResolveKey(g))
        /\ WF_vars(\E e \in OnItsWay(g) : Receive(g, e))
        /\ WF_vars(\E e \in verifying[g] : Verified(g, e))

Spec == Init /\ [][Next]_vars /\ Fairness

-----------------------------------------------------------------------------
(* Properties *)

\* The state is what agents, guardians and messages under way can hold; a nonce
\* cache never outgrows its size.
TypeOK ==
    /\ run \in [Agent -> 0..MaxRuns] /\ seq \in [Agent -> 0..MaxSeq]
    /\ sealed \in [Agent -> Nat]
    /\ toVerify \in [Agent -> SUBSET Guardian] /\ toRegister \in [Agent -> SUBSET Guardian]
    /\ configured \in [Agent -> SUBSET Measurement]
    /\ measures \in [Agent -> SUBSET Measurement]
    /\ image \in [Guardian -> Measurement]
    /\ network \subseteq [envelope: Envelope, to: Guardian]
    /\ phase \in [Guardian -> {"asking", "up"}]
    /\ vaultKey \in [Guardian -> Key \cup {None}]
    /\ held \in [Guardian -> Envelope \cup {None}]
    /\ nonces \in [Guardian -> Seq(Agent \X (1..MaxRuns) \X (1..MaxSeq))]
    /\ \A g \in Guardian : Len(nonces[g]) <= NonceCache
    /\ trusts \in [Guardian -> SUBSET Agent]
    /\ verifying \in [Guardian -> SUBSET Envelope]
    /\ faults \in 0..MaxFaults

\* A guardian never replaces a snapshot by an older or the same one of the same
\* run of the agent, in whatever order deliveries, repeated deliveries and
\* verifications end ("must be monotonically increasing", db-sync.ts).
NoRollback ==
    [][\A g \in Guardian :
        LET old == held[g]
            new == held'[g] IN
        old # None /\ new # None /\ old.from = new.from /\ old.run = new.run
            => new = old \/ new.seq > old.seq]_held

\* The key a guardian obtained from an agent opens the snapshots of that agent,
\* across restarts of both (VaultKeyManager persists the key).
KeyOpensSnapshot ==
    \A g \in Guardian :
        held[g] # None /\ vaultKey[g] # None /\ vaultKey[g].owner = held[g].from
            => held[g].key = vaultKey[g]

\* Snapshot e was made, in an earlier run of the agent or in this one.
Made(e) == e.run < run[e.from] \/ (e.run = run[e.from] /\ e.seq <= seq[e.from])

\* Whatever restarts and whatever arrives late or twice, what a guardian holds or
\* has verified comes from an agent it trusts now and was really made there: the
\* trust store and the snapshots go together when a guardian starts anew, and no
\* number is ahead of the agent's count.
HeldIsGenuine ==
    \A g \in Guardian :
        \A e \in verifying[g] \cup ({held[g]} \ {None}) : e.from \in trusts[g] /\ Made(e)

\* Whatever guardians ask and in whatever order, the agent accepts the configured
\* measurements and no other, or, when none is configured, at most one that it
\* enrolled on its own ("lock to its measurement for all future connections",
\* index.ts), at its start or in an answer to a guardian's request.
OneEnrolment ==
    \A a \in Agent :
        \/ measures[a] = configured[a]
        \/ configured[a] = {} /\ Cardinality(measures[a]) = 1

\* A restarted agent counts from one, and its snapshots are refused until it
\* overtakes the count of the run before; it does, whatever is lost meanwhile.
SnapshotsCatchUp ==
    \A a \in Agent, g \in Guardian :
        <>[](run[a] > 0 /\ a \in trusts[g] /\ trusts[g] = {a})
            => <>(held[g] # None /\ held[g].from = a /\ held[g].run = run[a])
=============================================================================
