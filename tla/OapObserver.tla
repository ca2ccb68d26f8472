---------------------------- MODULE OapObserver ----------------------------
(***************************************************************************)
(* The observe-only exchange of sealed evidence (src/hub/coherence:        *)
(* oap_v2_producer, strict_parse, trust_store, replay_guard, oap_observer, *)
(* oap_evidence): a producer signs an envelope over the bytes of a sealed  *)
(* run, a network loses, repeats, delays and damages envelopes, receivers  *)
(* that hold trust snapshots of different ages verify them, and a durable  *)
(* replay guard that the receivers share admits each submission once,      *)
(* although receivers die between the claim and its outcome.               *)
(*                                                                         *)
(* A digest is the content it is of.  A signature is the body it was made  *)
(* over and the key that made it.                                          *)
(***************************************************************************)
EXTENDS Integers, Sequences, FiniteSets, SequencesExt

CONSTANTS
    Receiver,       \* processes that observe, over one replay database
    Sealed,         \* the runs whose bytes a producer may be handed
    Handed,         \* what a producer is called with: a body, the four files,
                    \* an idempotency key and a contract version
    IdempotencyKey,
    Expected,       \* the context that a receiver expects
    Lifetimes,      \* lifetimes that a producer asks for
    MaxLifetime,    \* MAX_LIFETIME_SECONDS
    MaxAge,         \* max_snapshot_age_seconds
    Ttl,            \* the replay guard's ttl_seconds
    ValidUntil,     \* the end of the signing key's window
    MaxClock, MaxSent, MaxFaults,
    Nothing

ASSUME OapAssumption ==
    /\ MaxLifetime \in Nat /\ MaxAge \in Nat /\ Ttl \in Nat
    /\ MaxClock \in Nat /\ MaxSent \in Nat /\ MaxFaults \in Nat

\* A receiver expects a subject.  Attestations come from sealed runs, each over
\* the result of its own run; the other files may be of any run.
ASSUME EvidenceAssumption ==
    /\ "subject" \in DOMAIN Expected
    /\ \A run \in Sealed : run.attestation.statement = run.result
    /\ \A h \in Handed : \E run \in Sealed : h.bytes.attestation = run.attestation

VARIABLES
    clock,
    authority,      \* the signing key at its owner: revoked, since when, version
    trust,          \* the snapshot each receiver has loaded, or Nothing
    net,            \* envelopes that may be delivered, now and again
    claims,         \* the table replay_claims
    call,           \* the observe call each receiver is in
    accepted,       \* the observations accepted so far
    verified,       \* the v1 envelope verified last, as a set
    faults

vars == <<clock, authority, trust, net, claims, call, accepted, verified, faults>>

Idle == [pc |-> "idle"]

-----------------------------------------------------------------------------
(* trust_store.py                                                          *)

\* The entry that the owner provisions for its key.
TrustEntry ==
    [key_id |-> "k", producer |-> "devgate", audience |-> "oap", direction |-> "devgate-to-oap",
     valid_from |-> 0, valid_until |-> ValidUntil,
     revoked |-> authority.revoked, version |-> authority.version]

\* A trust file: with a snapshot time and one entry per key, or not.
Files ==
    {[snapshot_time |-> t, entries |-> s] :
        t \in {clock, Nothing}, s \in {<<TrustEntry>>, <<TrustEntry, TrustEntry>>, <<>>}}

\* TrustStore.load, with a bound on the snapshot's age: it fails closed.
load(doc) ==
    IF \/ doc.entries = <<>>
       \/ doc.snapshot_time = Nothing
       \/ \E i, j \in DOMAIN doc.entries :
             i # j /\ doc.entries[i].key_id = doc.entries[j].key_id
    THEN Nothing
    ELSE doc

\* The highest version in the snapshot.
revocation_version(store) ==
    CHOOSE v \in {e.version : e \in ToSet(store.entries)} :
        \A e \in ToSet(store.entries) : e.version <= v

\* Mutant: the age of the snapshot is not asked.
AgelessEvaluate(store, key_id, body, time) ==
    \E e \in ToSet(store.entries) :
       /\ e.key_id = key_id
       /\ ~e.revoked
       /\ e.producer = body.producer /\ e.direction = body.direction /\ e.audience = body.audience
       /\ e.valid_from <= time /\ time <= e.valid_until

\* TrustStore.evaluate: a fresh snapshot names the key for this exact scope.
evaluate(store, key_id, body, time) ==
    /\ time - store.snapshot_time <= MaxAge
    /\ \E e \in ToSet(store.entries) :
       /\ e.key_id = key_id
       /\ ~e.revoked
       /\ e.producer = body.producer /\ e.direction = body.direction /\ e.audience = body.audience
       /\ e.valid_from <= time /\ time <= e.valid_until

-----------------------------------------------------------------------------
(* strict_parse.py: the wire object.                                       *)

DECISION_EXIT_CODES ==
    [PASS |-> {0}, ADVISORY |-> {10}, FAIL |-> {20}, ERROR |-> {30, 31, 32, 33, 40}]

\* parse_object and the shape checks of parse_envelope: bounded canonical
\* JSON with exactly the fields of the contract.
WellFormed(e) == e.canonical /\ e.body.contract = "v2" /\ e.body.direction = "devgate-to-oap"

\* _validate_body and _check_status_semantics.
_validate_body(body) ==
    /\ body.exit \in DECISION_EXIT_CODES[body.decision]
    /\ body.expires - body.issued > 0
    /\ body.expires - body.issued <= MaxLifetime
    /\ body.decision = "PASS" => body.status = "PASS"
    /\ body.observe_only

parse_envelope(e) == WellFormed(e) /\ _validate_body(e.body)

\* The four digests of the body are those of the bytes at hand.
BytesMatch(body, bytes) ==
    /\ body.payload = bytes.payload /\ body.result = bytes.result
    /\ body.manifest = bytes.manifest /\ body.attestation = bytes.attestation

\* The signature is over every field but itself, by the key that it names.
sign_envelope(body, key_id) == [key_id |-> key_id, over |-> body]

SignatureHolds(e) == e.signature = sign_envelope(e.body, e.key_id)

verify_wire_envelope(e, store, time, bytes, audience) ==
    /\ parse_envelope(e)
    /\ evaluate(store, e.key_id, e.body, time)
    /\ e.body.audience = audience
    /\ BytesMatch(e.body, bytes)
    /\ SignatureHolds(e)
    /\ e.body.issued <= time /\ time < e.body.expires

-----------------------------------------------------------------------------
(* oap_v2_producer.py and oap_evidence.sign_envelope.                      *)

\* The wire object that produce builds: the caller's body with the digests of
\* the bytes bound afresh, signed.
Envelope(body, bytes, key, life, contract) ==
    LET whole == [contract |-> contract, direction |-> "devgate-to-oap",
                  producer |-> body.producer, audience |-> body.audience,
                  tenant |-> body.tenant, subject |-> body.subject, policy |-> body.policy,
                  context |-> body.context, evaluator |-> body.evaluator,
                  decision |-> body.decision, exit |-> body.exit, status |-> body.status,
                  semantics |-> body.semantics, idempotency_key |-> key,
                  issued |-> clock, expires |-> clock + life,
                  payload |-> bytes.payload, result |-> bytes.result,
                  manifest |-> bytes.manifest, attestation |-> bytes.attestation,
                  observe_only |-> TRUE]
    IN  [canonical |-> TRUE, body |-> whole, key_id |-> "k",
         signature |-> sign_envelope(whole, "k"), bytes |-> bytes]

\* The producer is handed the files of an output directory, which a later
\* run may have written in part.
produce(h, life) ==
    /\ Cardinality(net) < MaxSent
    /\ net' = net \cup {Envelope(h.body, h.bytes, h.key, life, h.contract)}
    /\ UNCHANGED <<clock, authority, trust, claims, call, accepted, verified, faults>>

\* The network changes an envelope's body or its encoding.
Damage ==
    /\ faults < MaxFaults /\ faults' = faults + 1
    /\ \E e \in net :
         \/ \E k \in IdempotencyKey :
              /\ k # e.body.idempotency_key
              /\ net' = (net \ {e}) \cup {[e EXCEPT !.body.idempotency_key = k]}
         \/ e.canonical /\ net' = (net \ {e}) \cup {[e EXCEPT !.canonical = FALSE]}
    /\ UNCHANGED <<clock, authority, trust, claims, call, accepted, verified>>

-----------------------------------------------------------------------------
(* oap_observer.py                                                         *)

_context_check(body) == \A f \in DOMAIN Expected : body[f] = Expected[f]

\* Mutant: the attestation's statement is not compared with the result.
CrossBindLoose(body, bytes) ==
    LET res == bytes.result  att == bytes.attestation IN
    /\ res.decision = body.decision /\ res.semantics = body.semantics
    /\ res.subject = body.subject
    /\ res.manifest = bytes.manifest
    /\ BytesMatch(body, bytes)
    /\ att.bound.subject = body.subject
    /\ att.bound.manifest = res.manifest

\* The result, the manifest and the attestation speak of each other.
_cross_bind(body, bytes) ==
    LET res == bytes.result  att == bytes.attestation IN
    /\ res.decision = body.decision /\ res.semantics = body.semantics
    /\ res.subject = body.subject /\ res.policy = body.policy
    /\ res.context = body.context /\ res.evaluator = body.evaluator
    /\ res.manifest = bytes.manifest
    /\ BytesMatch(body, bytes)
    /\ att.statement = res
    /\ att.bound.subject = body.subject /\ att.bound.policy = body.policy
    /\ att.bound.context = body.context /\ att.bound.evaluator = body.evaluator
    /\ att.bound.manifest = res.manifest

Scope(body) ==
    [producer |-> body.producer, tenant |-> body.tenant, direction |-> body.direction,
     audience |-> body.audience, subject |-> body.subject, payload |-> body.payload]

\* observe, up to its call of the replay guard.  The reference time, now and
\* the revocation version are the caller's, taken when it calls.
Observe(r, e) ==
    /\ call[r] = Idle /\ trust[r] # Nothing
    /\ verify_wire_envelope(e, trust[r], clock, e.bytes, Expected.audience)
    /\ _context_check(e.body)
    /\ _cross_bind(e.body, e.bytes)
    /\ e.body.exit \in DECISION_EXIT_CODES[e.body.decision]
    /\ call' = [call EXCEPT ![r] =
                  [pc |-> "claim", env |-> e, now |-> clock,
                   version |-> revocation_version(trust[r])]]
    /\ UNCHANGED <<clock, authority, trust, net, claims, accepted, verified, faults>>

-----------------------------------------------------------------------------
(* replay_guard.py                                                         *)

\* The row that a submission meets: the one of its key, else of its scope.
Existing(key, scope) ==
    LET byKey   == {c \in claims : c.key = key}
        byScope == {c \in claims : c.scope = scope}
    IN  IF byKey # {} THEN byKey ELSE byScope

\* Mutant: a claim past its time is forgotten.
ForgetfulStatus(key, scope, version, now) ==
    LET rows == {c \in Existing(key, scope) : now < c.expires} IN
    IF rows = {} THEN "admitted" ELSE "duplicate"

\* What SQLiteReplayBackend.claim answers.
ClaimStatus(key, scope, version, now) ==
    LET rows == Existing(key, scope)
        row  == CHOOSE c \in rows : TRUE
    IN  IF rows = {} THEN "admitted"
        ELSE IF version < row.version THEN "stale-revocation-snapshot"
        ELSE IF now >= row.expires THEN "expired"
        ELSE IF row.scope # scope THEN "conflict"
        ELSE "duplicate"

\* The immediate transaction: the row is inserted, or the call is refused.
Claim(r) ==
    LET c      == call[r]
        key    == c.env.body.idempotency_key
        status == ClaimStatus(key, Scope(c.env.body), c.version, c.now)
    IN
    /\ c.pc = "claim"
    /\ IF status = "admitted"
       THEN /\ claims' = claims \cup {[key |-> key, scope |-> Scope(c.env.body),
                                       version |-> c.version, expires |-> c.now + Ttl,
                                       outcome |-> Nothing]}
            /\ call' = [call EXCEPT ![r].pc = "record"]
       ELSE UNCHANGED claims /\ call' = [call EXCEPT ![r] = Idle]
    /\ UNCHANGED <<clock, authority, trust, net, accepted, verified, faults>>

\* record_outcome fills an empty outcome; observe returns the acceptance.
RecordOutcome(r) ==
    LET c == call[r] IN
    /\ c.pc = "record"
    /\ claims' = {IF row.key = c.env.body.idempotency_key /\ row.outcome = Nothing
                  THEN [row EXCEPT !.outcome = "observed"] ELSE row : row \in claims}
    /\ accepted' = Append(accepted, [env |-> c.env, at |-> c.now])
    /\ call' = [call EXCEPT ![r] = Idle]
    /\ UNCHANGED <<clock, authority, trust, net, verified, faults>>

\* A receiver dies: its call and its snapshot are gone, the table stays.
Dies(r) ==
    /\ trust[r] # Nothing
    /\ faults < MaxFaults /\ faults' = faults + 1
    /\ call' = [call EXCEPT ![r] = Idle]
    /\ trust' = [trust EXCEPT ![r] = Nothing]
    /\ UNCHANGED <<clock, authority, net, claims, accepted, verified>>

-----------------------------------------------------------------------------
(* oap_evidence.py: a flat v1 envelope, verified without replay state and  *)
(* without a lifetime of its own.                                          *)

\* The payload's digest and that of every reference that the envelope declares.
bind_v1_evidence(body, bytes) ==
    /\ body.payload = bytes.payload
    /\ \A purpose \in {"result", "manifest", "attestation"} : body[purpose] = bytes[purpose]

verify_envelope(e, store, time, audience) ==
    /\ e.body.contract = "v1"
    /\ evaluate(store, e.key_id, e.body, time)
    /\ e.body.audience = audience
    /\ bind_v1_evidence(e.body, e.bytes)
    /\ SignatureHolds(e)

VerifyV1(r, e) ==
    /\ call[r] = Idle /\ trust[r] # Nothing
    /\ verify_envelope(e, trust[r], clock, Expected.audience)
    /\ verified' = {[env |-> e, at |-> clock]}
    /\ verified' # verified
    /\ UNCHANGED <<clock, authority, trust, net, claims, call, accepted, faults>>

-----------------------------------------------------------------------------
(* Provisioning and time.                                                  *)

Revoke ==
    /\ ~authority.revoked
    /\ authority' = [revoked |-> TRUE, since |-> clock, version |-> authority.version + 1]
    /\ UNCHANGED <<clock, trust, net, claims, call, accepted, verified, faults>>

\* The owner provisions a file and the receiver loads it.  A file that is
\* loaded late is a snapshot that was loaded in time and not loaded again.
Load(r) ==
    /\ call[r] = Idle
    /\ \E doc \in Files : trust' = [trust EXCEPT ![r] = load(doc)] /\ trust' # trust
    /\ UNCHANGED <<clock, authority, net, claims, call, accepted, verified, faults>>

Tick ==
    /\ clock < MaxClock
    /\ clock' = clock + 1
    /\ UNCHANGED <<authority, trust, net, claims, call, accepted, verified, faults>>

Init ==
    /\ clock = 0
    /\ authority = [revoked |-> FALSE, since |-> Nothing, version |-> 0]
    /\ trust = [r \in Receiver |-> Nothing]
    /\ net = {} /\ claims = {} /\ accepted = <<>> /\ verified = {}
    /\ call = [r \in Receiver |-> Idle]
    /\ faults = 0

Next ==
    \/ \E h \in Handed, life \in Lifetimes : produce(h, life)
    \/ Damage
    \/ \E r \in Receiver :
         \/ \E e \in net : Observe(r, e) \/ VerifyV1(r, e)
         \/ Claim(r) \/ RecordOutcome(r) \/ Dies(r) \/ Load(r)
    \/ Revoke \/ Tick

Spec == Init /\ [][Next]_vars

-----------------------------------------------------------------------------
(***************************************************************************)
(* At most one acceptance per submission, ever: no two accepted            *)
(* observations share an idempotency key or a scope, although the network  *)
(* repeats and delays envelopes, two receivers race on one, one dies       *)
(* between claim and outcome, and the claim's time runs out                *)
(* (SQLiteReplayBackend.claim, oap_observer.observe).                      *)
(***************************************************************************)
AcceptedOnce ==
    \A i, j \in DOMAIN accepted : i # j =>
       /\ accepted[i].env.body.idempotency_key # accepted[j].env.body.idempotency_key
       /\ Scope(accepted[i].env.body) # Scope(accepted[j].env.body)

(***************************************************************************)
(* A revocation takes hold everywhere within the snapshot age bound: what  *)
(* is accepted or verified later than that after it was not signed by the  *)
(* revoked key, whichever file a receiver loaded and when                  *)
(* (TrustStore.load, TrustStore.evaluate).                                 *)
(***************************************************************************)
RevocationTakesHold ==
    authority.revoked =>
       \A o \in ToSet(accepted) \cup verified : o.at <= authority.since + MaxAge

(***************************************************************************)
(* What is accepted is one run: its decision is that of the run whose      *)
(* attestation it carries, for the subject the receiver expects, and it is *)
(* accepted while it is valid, although the producer may have been handed  *)
(* files of two runs and the network changes envelopes (oap_observer's     *)
(* _cross_bind, verify_wire_envelope).                                     *)
(***************************************************************************)
AcceptedIsOneRun ==
    \A o \in ToSet(accepted) :
       /\ \E run \in Sealed :
            /\ o.env.bytes.result = run.result /\ o.env.bytes.attestation = run.attestation
            /\ o.env.body.decision = run.result.decision
       /\ o.env.body.subject = Expected.subject
       /\ o.env.body.issued <= o.at /\ o.at < o.env.body.expires
=============================================================================
