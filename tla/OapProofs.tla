----------------------------- MODULE OapProofs -----------------------------
(***************************************************************************)
(* The exchange of evidence, for any number of receivers, submissions and  *)
(* faults, any snapshot age and any lifetime of a claim: what is accepted  *)
(* is accepted once, under a key that was good then, and is one run.       *)
(***************************************************************************)
EXTENDS OapObserver, TLAPS

Shape == {"canonical", "body", "key_id", "signature", "bytes"}

\* The tables that the actions update: one entry per receiver, rows and
\* envelopes with their fields, a call that is idle or holds its envelope.
Tables ==
    /\ clock \in Nat
    /\ DOMAIN trust = Receiver /\ DOMAIN call = Receiver
    /\ \E S : accepted \in Seq(S)
    /\ \A e \in net : DOMAIN e = Shape /\ \E h \in Handed : e.bytes = h.bytes
    /\ \A c \in claims : DOMAIN c = {"key", "scope", "version", "expires", "outcome"}
    /\ \A r \in Receiver :
          \/ call[r] = Idle
          \/ /\ call[r].pc \in {"claim", "record"}
             /\ DOMAIN call[r] = {"pc", "env", "now", "version"}

\* Two submissions share neither key nor scope.
Apart(e, f) ==
    /\ e.body.idempotency_key # f.body.idempotency_key
    /\ Scope(e.body) # Scope(f.body)

\* A row of the table stands for the submission.
Claimed(e, rows) == \E c \in rows : c.key = e.body.idempotency_key /\ c.scope = Scope(e.body)

\* Whoever was admitted, and is about to be or was accepted, has a row of its
\* own: a row outlives the receiver that inserted it and its own lifetime.
Admitted ==
    /\ \A i \in DOMAIN accepted : Claimed(accepted[i].env, claims)
    /\ \A i, j \in DOMAIN accepted : i # j => Apart(accepted[i].env, accepted[j].env)
    /\ \A r \in Receiver : call[r].pc = "record" =>
          /\ Claimed(call[r].env, claims)
          /\ \A i \in DOMAIN accepted : Apart(call[r].env, accepted[i].env)
          /\ \A s \in Receiver \ {r} : call[s].pc = "record" => Apart(call[r].env, call[s].env)

\* A snapshot is not from the future, and one that still trusts a revoked key
\* was taken before the revocation.
Snapshots ==
    /\ authority.revoked => authority.since \in Nat /\ authority.since <= clock
    /\ \A r \in Receiver : trust[r] # Nothing =>
          /\ trust[r].snapshot_time \in Nat /\ trust[r].snapshot_time <= clock
          /\ authority.revoked =>
                \A e \in ToSet(trust[r].entries) :
                   ~e.revoked => trust[r].snapshot_time <= authority.since

\* An observation was made by now and within the age bound of a revocation.
InTime(at, now, owner) ==
    /\ at \in Nat /\ at <= now
    /\ owner.revoked => at <= owner.since + MaxAge

\* What was verified is one sealed run, for the receiver, while valid.
OneRun(e, at) ==
    /\ \E run \in Sealed :
         /\ e.bytes.result = run.result /\ e.bytes.attestation = run.attestation
         /\ e.body.decision = run.result.decision
    /\ e.body.subject = Expected.subject
    /\ e.body.issued <= at /\ at < e.body.expires

Observed ==
    /\ \A r \in Receiver : call[r].pc # "idle" =>
          InTime(call[r].now, clock, authority) /\ OneRun(call[r].env, call[r].now)
    /\ \A i \in DOMAIN accepted :
          InTime(accepted[i].at, clock, authority) /\ OneRun(accepted[i].env, accepted[i].at)
    /\ \A o \in verified : InTime(o.at, clock, authority)

IInv == Tables /\ Admitted /\ Snapshots /\ Observed

-----------------------------------------------------------------------------
LEMMA Appended ==
    ASSUME NEW S, NEW s \in Seq(S), NEW x
    PROVE  /\ Append(s, x) \in Seq(S \cup {x})
           /\ Len(s) \in Nat /\ DOMAIN s = 1..Len(s)
           /\ DOMAIN Append(s, x) = 1..(Len(s) + 1)
           /\ \A i \in 1..Len(s) : Append(s, x)[i] = s[i]
           /\ Append(s, x)[Len(s) + 1] = x
<1>1. s \in Seq(S \cup {x})  OBVIOUS
<1> QED BY <1>1

\* A snapshot that trusts the key for this body is fresh and holds an entry
\* that is not revoked (TrustStore.evaluate).
LEMMA FreshWhenTrusted ==
    ASSUME Tables, Snapshots, NEW r \in Receiver, trust[r] # Nothing, NEW key, NEW body,
           evaluate(trust[r], key, body, clock)
    PROVE  InTime(clock, clock, authority)
<1>1. PICK e \in ToSet(trust[r].entries) : ~e.revoked  BY DEF evaluate
<1>2. clock - trust[r].snapshot_time <= MaxAge  BY DEF evaluate
<1> QED BY <1>1, <1>2, OapAssumption DEF Tables, Snapshots, InTime

-----------------------------------------------------------------------------
(***************************************************************************)
(* The actions.                                                            *)
(***************************************************************************)
LEMMA InitIInv == ASSUME Init PROVE IInv
<1>1. accepted = <<>> /\ DOMAIN accepted = {} /\ accepted \in Seq({})
  BY DEF Init
<1>2. \A r \in Receiver : call[r] = Idle /\ call[r].pc = "idle" /\ trust[r] = Nothing
  BY DEF Init, Idle
<1>3. Tables
  BY <1>1, <1>2 DEF Init, Tables
<1>4. Admitted /\ Snapshots /\ Observed
  BY <1>1, <1>2 DEF Init, Admitted, Snapshots, Observed
<1> QED BY <1>3, <1>4 DEF IInv

\* produce puts an envelope over a handed submission on the network.
LEMMA ProduceKeeps ==
    ASSUME IInv, NEW h \in Handed, NEW life \in Lifetimes, produce(h, life)
    PROVE  IInv'
<1> DEFINE e == Envelope(h.body, h.bytes, h.key, life, h.contract)
<1>1. DOMAIN e = Shape /\ e.bytes = h.bytes
  BY DEF Envelope, Shape
<1> HIDE DEF e
<1>2. net' = net \cup {e}  BY DEF produce, e
<1>3. Tables'
  BY <1>1, <1>2 DEF IInv, Tables, produce
<1>4. Admitted' /\ Snapshots' /\ Observed'
  BY DEF IInv, Admitted, Claimed, Apart, Snapshots, Observed, InTime, OneRun, produce
<1> QED BY <1>3, <1>4 DEF IInv

\* The network changes the key or the encoding of an envelope, not its files.
LEMMA DamageKeeps ==
    ASSUME IInv, Damage
    PROVE  IInv'
<1> DEFINE Turned(e, f) == /\ net' = (net \ {e}) \cup {f}
                           /\ \/ \E k \in IdempotencyKey : f = [e EXCEPT !.body.idempotency_key = k]
                              \/ f = [e EXCEPT !.canonical = FALSE]
<1>0. PICK e \in net : \E f : Turned(e, f)
  BY DEF Damage
<1>1. PICK f : Turned(e, f)
  BY <1>0
<1>2. DOMAIN e = Shape  BY DEF IInv, Tables
<1>3. DOMAIN f = Shape /\ f.bytes = e.bytes  BY <1>1, <1>2 DEF Shape
<1>4. Tables'
  BY <1>1, <1>3 DEF IInv, Tables, Damage
<1>5. Admitted' /\ Snapshots' /\ Observed'
  BY DEF IInv, Admitted, Claimed, Apart, Snapshots, Observed, InTime, OneRun, Damage
<1> QED BY <1>4, <1>5 DEF IInv

\* observe verifies an envelope and holds it for its claim.
LEMMA ObserveKeeps ==
    ASSUME IInv, NEW r \in Receiver, NEW e \in net, Observe(r, e)
    PROVE  IInv'
<1> DEFINE c == [pc |-> "claim", env |-> e, now |-> clock,
                 version |-> revocation_version(trust[r])]
<1>1. /\ call' = [call EXCEPT ![r] = c] /\ trust[r] # Nothing
      /\ verify_wire_envelope(e, trust[r], clock, e.bytes, Expected.audience)
      /\ _context_check(e.body) /\ _cross_bind(e.body, e.bytes)
      /\ UNCHANGED <<clock, authority, trust, net, claims, accepted, verified>>
  BY DEF Observe
<1>2. /\ c.pc = "claim" /\ c.env = e /\ c.now = clock
      /\ DOMAIN c = {"pc", "env", "now", "version"}
  OBVIOUS
<1> HIDE DEF c
<1>3. call'[r] = c /\ \A s \in Receiver \ {r} : call'[s] = call[s]
  BY <1>1 DEF IInv, Tables
<1>4. DOMAIN call' = Receiver  BY <1>1 DEF IInv, Tables
<1>5. Tables'
  BY <1>1, <1>2, <1>3, <1>4 DEF IInv, Tables
<1>6. Admitted'
  BY <1>1, <1>2, <1>3 DEF IInv, Admitted, Claimed, Apart
<1>7. Snapshots'  BY <1>1 DEF IInv, Snapshots
<1>8. InTime(clock, clock, authority)
  BY <1>1, FreshWhenTrusted DEF IInv, verify_wire_envelope
<1>9. OneRun(e, clock)
  <2>1. PICK run \in Sealed : e.bytes.attestation = run.attestation
    BY EvidenceAssumption DEF IInv, Tables
  <2>2. run.attestation.statement = run.result  BY EvidenceAssumption
  <2>3. e.bytes.attestation.statement = e.bytes.result /\ e.bytes.result.decision = e.body.decision
    BY <1>1 DEF _cross_bind
  <2>4. e.body.subject = Expected.subject
    BY <1>1, EvidenceAssumption DEF _context_check
  <2>5. e.body.issued <= clock /\ clock < e.body.expires
    BY <1>1 DEF verify_wire_envelope
  <2> QED BY <2>1, <2>2, <2>3, <2>4, <2>5 DEF OneRun
<1>10. \A at : InTime(at, clock', authority') <=> InTime(at, clock, authority)
  BY <1>1 DEF InTime
<1>11. Observed'
  BY <1>1, <1>2, <1>3, <1>8, <1>9, <1>10 DEF IInv, Observed, OneRun
<1> QED BY <1>5, <1>6, <1>7, <1>11 DEF IInv

\* A submission is admitted when no row has its key or its scope, and then its
\* own row is there (SQLiteReplayBackend.claim).
LEMMA ClaimKeeps ==
    ASSUME IInv, NEW r \in Receiver, Claim(r)
    PROVE  IInv'
<1> DEFINE e   == call[r].env
           key == e.body.idempotency_key
           sc  == Scope(e.body)
           row == [key |-> key, scope |-> sc, version |-> call[r].version,
                   expires |-> call[r].now + Ttl, outcome |-> Nothing]
           st  == ClaimStatus(key, sc, call[r].version, call[r].now)
<1>1. /\ call[r].pc = "claim"
      /\ UNCHANGED <<clock, authority, trust, net, accepted, verified>>
      /\ \/ /\ st = "admitted" /\ claims' = claims \cup {row}
            /\ call' = [call EXCEPT ![r].pc = "record"]
         \/ claims' = claims /\ call' = [call EXCEPT ![r] = Idle]
  BY DEF Claim
<1>2. DOMAIN call[r] = {"pc", "env", "now", "version"} /\ DOMAIN call = Receiver
  BY <1>1 DEF IInv, Tables, Idle
<1>3. Idle.pc = "idle"  BY DEF Idle
<1>4. \A at : InTime(at, clock', authority') <=> InTime(at, clock, authority)
  BY <1>1 DEF InTime
<1>5. Snapshots'  BY <1>1 DEF IInv, Snapshots
<1>6. CASE claims' = claims /\ call' = [call EXCEPT ![r] = Idle]
  <2>1. call'[r] = Idle /\ \A s \in Receiver \ {r} : call'[s] = call[s]
    BY <1>2, <1>6
  <2>2. DOMAIN call' = Receiver  BY <1>2, <1>6
  <2>3. Tables'  BY <1>1, <1>6, <2>1, <2>2 DEF IInv, Tables
  <2>4. Admitted'  BY <1>1, <1>3, <1>6, <2>1 DEF IInv, Admitted, Claimed, Apart
  <2>5. Observed'  BY <1>1, <1>3, <1>4, <2>1 DEF IInv, Observed, OneRun
  <2> QED BY <1>5, <2>3, <2>4, <2>5 DEF IInv
<1>7. CASE /\ st = "admitted" /\ claims' = claims \cup {row}
           /\ call' = [call EXCEPT ![r].pc = "record"]
  <2>1. /\ \A s \in Receiver \ {r} : call'[s] = call[s]
        /\ call'[r].pc = "record" /\ call'[r].env = e /\ call'[r].now = call[r].now
        /\ DOMAIN call'[r] = {"pc", "env", "now", "version"}
    BY <1>2, <1>7
  <2>2. DOMAIN call' = Receiver  BY <1>2, <1>7
  <2>3. \A c \in claims : c.key # key /\ c.scope # sc
    <3>1. Existing(key, sc) = {}
      BY <1>7 DEF ClaimStatus
    <3> QED BY <3>1 DEF Existing
  <2>4. /\ row.key = key /\ row.scope = sc
        /\ DOMAIN row = {"key", "scope", "version", "expires", "outcome"}
    OBVIOUS
  <2> HIDE DEF row, st
  <2>5. Tables'  BY <1>1, <1>7, <2>1, <2>2, <2>4 DEF IInv, Tables
  <2>6. /\ Claimed(e, claims')
        /\ \A f : Claimed(f, claims) => Claimed(f, claims') /\ Apart(e, f) /\ Apart(f, e)
    <3>1. Claimed(e, claims')  BY <1>7, <2>4 DEF Claimed
    <3>2. ASSUME NEW f, Claimed(f, claims)
          PROVE  Claimed(f, claims') /\ Apart(e, f) /\ Apart(f, e)
      BY <1>7, <2>3, <3>2 DEF Claimed, Apart
    <3> QED BY <3>1, <3>2
  <2>7. Admitted'
    <3>1. /\ \A i \in DOMAIN accepted : Claimed(accepted[i].env, claims')
          /\ \A i, j \in DOMAIN accepted : i # j => Apart(accepted[i].env, accepted[j].env)
      BY <2>6 DEF IInv, Admitted
    <3>2. ASSUME NEW s \in Receiver, call'[s].pc = "record"
          PROVE  /\ Claimed(call'[s].env, claims')
                 /\ \A i \in DOMAIN accepted : Apart(call'[s].env, accepted[i].env)
                 /\ \A t \in Receiver \ {s} :
                       call'[t].pc = "record" => Apart(call'[s].env, call'[t].env)
      <4>1. CASE s = r
        BY <2>1, <2>6, <4>1 DEF IInv, Admitted
      <4>2. CASE s # r
        BY <2>1, <2>6, <3>2, <4>2 DEF IInv, Admitted
      <4> QED BY <4>1, <4>2
    <3> QED BY <1>1, <3>1, <3>2 DEF Admitted
  <2>8. Observed'  BY <1>1, <1>4, <2>1 DEF IInv, Observed, OneRun
  <2> QED BY <1>5, <2>5, <2>7, <2>8 DEF IInv
<1> QED BY <1>1, <1>6, <1>7

\* The outcome is noted in the rows of the key; the observation is accepted.
LEMMA RecordOutcomeKeeps ==
    ASSUME IInv, NEW r \in Receiver, RecordOutcome(r)
    PROVE  IInv'
<1> DEFINE e == call[r].env
           o == [env |-> e, at |-> call[r].now]
           noted(row) == IF row.key = e.body.idempotency_key /\ row.outcome = Nothing
                         THEN [row EXCEPT !.outcome = "observed"] ELSE row
           n == Len(accepted)
<1>1. /\ call[r].pc = "record"
      /\ claims' = {noted(row) : row \in claims}
      /\ accepted' = Append(accepted, o)
      /\ call' = [call EXCEPT ![r] = Idle]
      /\ UNCHANGED <<clock, authority, trust, net, verified>>
  BY DEF RecordOutcome
<1>2. o.env = e /\ o.at = call[r].now  OBVIOUS
<1>3. \A row \in claims : /\ noted(row).key = row.key /\ noted(row).scope = row.scope
                          /\ DOMAIN noted(row) = DOMAIN row
  BY DEF IInv, Tables
<1>4. PICK S : accepted \in Seq(S)  BY DEF IInv, Tables
<1> HIDE DEF o, noted, n
<1>5. /\ accepted' \in Seq(S \cup {o}) /\ n \in Nat /\ DOMAIN accepted = 1..n
      /\ DOMAIN accepted' = 1..(n + 1)
      /\ \A i \in 1..n : accepted'[i] = accepted[i]
      /\ accepted'[n + 1] = o
  BY <1>1, <1>4, Appended DEF n
<1>6. DOMAIN call' = Receiver /\ call'[r] = Idle /\ Idle.pc = "idle"
      /\ \A s \in Receiver \ {r} : call'[s] = call[s]
  BY <1>1 DEF IInv, Tables, Idle
<1>7. \A f : Claimed(f, claims) => Claimed(f, claims')
  BY <1>1, <1>3 DEF Claimed
<1>8. Tables'
  BY <1>1, <1>3, <1>5, <1>6 DEF IInv, Tables
<1>9. Snapshots'  BY <1>1 DEF IInv, Snapshots
<1>10. \A at : InTime(at, clock', authority') <=> InTime(at, clock, authority)
  BY <1>1 DEF InTime
<1>11. Observed'
  <2>1. \A s \in Receiver : call'[s].pc # "idle" =>
           InTime(call'[s].now, clock', authority') /\ OneRun(call'[s].env, call'[s].now)
    BY <1>6, <1>10 DEF IInv, Observed
  <2>2. ASSUME NEW i \in 1..(n + 1)
        PROVE  /\ InTime(accepted'[i].at, clock', authority')
               /\ OneRun(accepted'[i].env, accepted'[i].at)
    <3>1. CASE i \in 1..n  BY <1>5, <1>10, <3>1 DEF IInv, Observed
    <3>2. CASE i = n + 1  BY <1>1, <1>2, <1>5, <1>10, <3>2 DEF IInv, Observed
    <3> QED BY <1>5, <3>1, <3>2
  <2>3. \A x \in verified : InTime(x.at, clock', authority')  BY <1>10 DEF IInv, Observed
  <2> QED BY <1>1, <1>5, <2>1, <2>2, <2>3 DEF Observed, OneRun
<1>12. Admitted'
  <2>1. /\ Claimed(e, claims') /\ \A i \in 1..n : Claimed(accepted[i].env, claims')
        /\ \A i \in 1..n : Apart(e, accepted[i].env) /\ Apart(accepted[i].env, e)
        /\ \A i, j \in 1..n : i # j => Apart(accepted[i].env, accepted[j].env)
    BY <1>1, <1>5, <1>7 DEF IInv, Admitted, Apart
  <2>2. \A i \in 1..(n + 1) : Claimed(accepted'[i].env, claims')
    BY <1>2, <1>5, <2>1
  <2>3. \A i, j \in 1..(n + 1) : i # j => Apart(accepted'[i].env, accepted'[j].env)
    BY <1>2, <1>5, <2>1
  <2>4. ASSUME NEW s \in Receiver, call'[s].pc = "record"
        PROVE  /\ Claimed(call'[s].env, claims')
               /\ \A i \in 1..(n + 1) : Apart(call'[s].env, accepted'[i].env)
               /\ \A t \in Receiver \ {s} :
                     call'[t].pc = "record" => Apart(call'[s].env, call'[t].env)
    <3>1. s # r /\ call'[s] = call[s]  BY <1>6, <2>4
    <3>2. /\ Claimed(call[s].env, claims')
          /\ \A i \in 1..n : Apart(call[s].env, accepted[i].env)
          /\ Apart(call[s].env, e)
      BY <1>1, <1>5, <1>7, <2>4, <3>1 DEF IInv, Admitted
    <3>3. \A t \in Receiver \ {s} :
             call'[t].pc = "record" => Apart(call'[s].env, call'[t].env)
      BY <1>6, <2>4, <3>1 DEF IInv, Admitted
    <3> QED BY <1>2, <1>5, <3>1, <3>2, <3>3
  <2> QED BY <1>5, <2>2, <2>3, <2>4 DEF Admitted, Apart
<1> QED BY <1>8, <1>9, <1>11, <1>12 DEF IInv

\* A receiver that dies takes its call with it and leaves the rows.
LEMMA DiesKeeps ==
    ASSUME IInv, NEW r \in Receiver, Dies(r)
    PROVE  IInv'
<1>1. /\ call' = [call EXCEPT ![r] = Idle] /\ trust' = [trust EXCEPT ![r] = Nothing]
      /\ UNCHANGED <<clock, authority, net, claims, accepted, verified>>
  BY DEF Dies
<1>2. /\ DOMAIN call' = Receiver /\ call'[r] = Idle /\ Idle.pc = "idle"
      /\ \A s \in Receiver \ {r} : call'[s] = call[s]
      /\ DOMAIN trust' = Receiver /\ trust'[r] = Nothing
      /\ \A s \in Receiver \ {r} : trust'[s] = trust[s]
  BY <1>1 DEF IInv, Tables, Idle
<1>3. Tables'  BY <1>1, <1>2 DEF IInv, Tables
<1>4. Admitted'  BY <1>1, <1>2 DEF IInv, Admitted
<1>5. Snapshots'  BY <1>1, <1>2 DEF IInv, Snapshots
<1>6. Observed'  BY <1>1, <1>2 DEF IInv, Observed
<1> QED BY <1>3, <1>4, <1>5, <1>6 DEF IInv

\* A v1 envelope is verified against the snapshot at hand (verify_envelope).
LEMMA VerifyV1Keeps ==
    ASSUME IInv, NEW r \in Receiver, NEW e \in net, VerifyV1(r, e)
    PROVE  IInv'
<1>1. /\ evaluate(trust[r], e.key_id, e.body, clock) /\ trust[r] # Nothing
      /\ verified' = {[env |-> e, at |-> clock]}
      /\ UNCHANGED <<clock, authority, trust, net, claims, call, accepted>>
  BY DEF VerifyV1, verify_envelope
<1>2. InTime(clock, clock, authority)  BY <1>1, FreshWhenTrusted DEF IInv
<1>3. Tables' /\ Admitted' /\ Snapshots'
  BY <1>1 DEF IInv, Tables, Admitted, Snapshots
<1>4. \A o \in verified' : InTime(o.at, clock', authority')  BY <1>1, <1>2
<1>5. Observed'  BY <1>1, <1>4 DEF IInv, Observed
<1> QED BY <1>3, <1>5 DEF IInv

\* A revocation comes after all that was observed and every snapshot loaded.
LEMMA RevokeKeeps ==
    ASSUME IInv, Revoke
    PROVE  IInv'
<1>1. /\ authority' = [revoked |-> TRUE, since |-> clock, version |-> authority.version + 1]
      /\ UNCHANGED <<clock, trust, net, claims, call, accepted, verified>>
  BY DEF Revoke
<1>2. authority'.revoked /\ authority'.since = clock /\ clock \in Nat
  BY <1>1 DEF IInv, Tables
<1>3. \A at : InTime(at, clock, authority) => InTime(at, clock', authority')
  BY <1>1, <1>2, OapAssumption DEF InTime
<1>4. Tables' /\ Admitted'  BY <1>1 DEF IInv, Tables, Admitted
<1>5. Snapshots'  BY <1>1, <1>2 DEF IInv, Snapshots
<1>6. Observed'  BY <1>1, <1>3 DEF IInv, Observed
<1> QED BY <1>4, <1>5, <1>6 DEF IInv

\* A file is provisioned from the owner's record as it is then; what does not
\* load leaves the receiver without a snapshot (TrustStore.load).
LEMMA LoadKeeps ==
    ASSUME IInv, NEW r \in Receiver, Load(r)
    PROVE  IInv'
<1>1. PICK doc \in Files : trust' = [trust EXCEPT ![r] = load(doc)]
  BY DEF Load
<1>2. UNCHANGED <<clock, authority, net, claims, call, accepted, verified>>
  BY DEF Load
<1>3. /\ DOMAIN trust' = Receiver /\ trust'[r] = load(doc)
      /\ \A s \in Receiver \ {r} : trust'[s] = trust[s]
  BY <1>1 DEF IInv, Tables
<1>4. load(doc) # Nothing =>
        /\ load(doc).snapshot_time = clock
        /\ \A e \in ToSet(load(doc).entries) : e.revoked = authority.revoked
  <2>1. \A e \in ToSet(doc.entries) : e = TrustEntry
    BY DEF Files, ToSet
  <2>2. doc.snapshot_time \in {clock, Nothing}  BY DEF Files
  <2>3. load(doc) = Nothing \/ (load(doc) = doc /\ doc.snapshot_time # Nothing)
    BY DEF load
  <2> QED BY <2>1, <2>2, <2>3 DEF TrustEntry
<1>5. Tables'  BY <1>2, <1>3 DEF IInv, Tables
<1>6. Admitted' /\ Observed'  BY <1>2 DEF IInv, Admitted, Observed
<1>7. Snapshots'
  <2> HIDE <1>1
  <2> QED BY <1>2, <1>3, <1>4 DEF IInv, Tables, Snapshots
<1> QED BY <1>5, <1>6, <1>7 DEF IInv

LEMMA TickKeeps ==
    ASSUME IInv, Tick
    PROVE  IInv'
<1>1. /\ clock' = clock + 1 /\ clock \in Nat
      /\ UNCHANGED <<authority, trust, net, claims, call, accepted, verified>>
  BY DEF Tick, IInv, Tables
<1>2. \A at : InTime(at, clock, authority) => InTime(at, clock', authority')
  BY <1>1 DEF InTime
<1>3. Tables' /\ Admitted'  BY <1>1 DEF IInv, Tables, Admitted
<1>4. Snapshots'  BY <1>1 DEF IInv, Snapshots
<1>5. Observed'  BY <1>1, <1>2 DEF IInv, Observed
<1> QED BY <1>3, <1>4, <1>5 DEF IInv

LEMMA NextIInv == IInv /\ [Next]_vars => IInv'
<1> SUFFICES ASSUME IInv, [Next]_vars PROVE IInv'  OBVIOUS
<1>1. ASSUME NEW h \in Handed, NEW life \in Lifetimes, produce(h, life) PROVE IInv'
  BY <1>1, ProduceKeeps
<1>2. CASE Damage  BY <1>2, DamageKeeps
<1>3. ASSUME NEW r \in Receiver, NEW e \in net, Observe(r, e) \/ VerifyV1(r, e)
      PROVE  IInv'
  BY <1>3, ObserveKeeps, VerifyV1Keeps
<1>4. ASSUME NEW r \in Receiver, Claim(r) \/ RecordOutcome(r) \/ Dies(r) \/ Load(r)
      PROVE  IInv'
  BY <1>4, ClaimKeeps, RecordOutcomeKeeps, DiesKeeps, LoadKeeps
<1>5. CASE Revoke  BY <1>5, RevokeKeeps
<1>6. CASE Tick  BY <1>6, TickKeeps
<1>7. CASE UNCHANGED vars
  BY <1>7 DEF vars, IInv, Tables, Admitted, Snapshots, Observed
<1> QED BY <1>1, <1>2, <1>3, <1>4, <1>5, <1>6, <1>7 DEF Next

-----------------------------------------------------------------------------
(***************************************************************************)
(* The theorems.                                                           *)
(***************************************************************************)
LEMMA Exchange == Spec => []IInv
BY InitIInv, NextIInv, PTL DEF Spec

\* No two accepted observations share a key or a scope, whatever the network
\* repeats, whoever races or dies between claim and outcome, and however long
\* ago a claim's time ran out (SQLiteReplayBackend.claim, oap_observer.observe).
THEOREM SubmissionsAcceptedOnce == Spec => []AcceptedOnce
<1>1. IInv => AcceptedOnce  BY DEF IInv, Admitted, Apart, AcceptedOnce
<1> QED BY <1>1, Exchange, PTL

\* Nothing is accepted or verified under a revoked key later than the age
\* bound after its revocation (TrustStore.load, TrustStore.evaluate).
THEOREM RevocationBounded == Spec => []RevocationTakesHold
<1>1. IInv => RevocationTakesHold
  BY DEF IInv, Observed, InTime, RevocationTakesHold, ToSet
<1> QED BY <1>1, Exchange, PTL

\* What is accepted is one sealed run, for the receiver's subject, while it is
\* valid (_cross_bind, verify_wire_envelope).
THEOREM AcceptedRuns == Spec => []AcceptedIsOneRun
<1>1. IInv => AcceptedIsOneRun
  BY DEF IInv, Observed, OneRun, AcceptedIsOneRun, ToSet
<1> QED BY <1>1, Exchange, PTL
=============================================================================
