---------------------------- MODULE AgentChannel ----------------------------
(***************************************************************************)
(* The manager's side of the outbound host-agent channel: AgentChannel of  *)
(* src/fleet-manager/fleet_manager/channel.py.  An operator issues tokens, *)
(* a host redeems one for a credential, keys are rotated and revoked, and  *)
(* signed reports arrive.                                                  *)
(*                                                                         *)
(* Hosts and the wire are outside the manager, so nothing is assumed of    *)
(* them: any envelope may arrive at any time and any number of times, and  *)
(* whoever holds a private key signs whatever it likes with it.  The       *)
(* instant of a call is the caller's: it read the clock up to Lag ticks    *)
(* before its call got its turn.                                           *)
(***************************************************************************)
EXTENDS Integers, Sequences, FiniteSets

CONSTANTS
  Host, Key, Token, Nonce,
  Nobody,              \* no host, no token
  TokenLife,           \* ttl of a token
  CredentialLife,      \* credential_lifetime
  Overlap,             \* ROTATION_OVERLAP
  MessageLife,         \* MAX_MESSAGE_LIFETIME
  Skew,                \* MAX_CLOCK_SKEW
  Lag,                 \* how long a call waits after it read the clock
  MaxTime, MaxSequence, MaxReports  \* bounds; the last on the reports delivered

ASSUME ChannelAssumption ==
  /\ Nobody \notin Host \cup Token
  /\ \A n \in {TokenLife, CredentialLife, Overlap, MessageLife} : n \in Nat \ {0}
  /\ Skew \in Nat /\ Lag \in Nat /\ MaxTime \in Nat
  /\ MaxSequence \in Nat \ {0} /\ MaxReports \in Nat

VARIABLES
  now,          \* the manager's clock
  tokens,       \* _tokens and _consumed
  credentials,  \* _credentials
  holder,       \* _keys: which host a public key is enrolled to
  last,         \* _last_sequence, 0 for none
  seen,         \* _nonces: when a nonce expires, 0 for one not remembered
  delivered     \* history: the reports accepted, in order, per (host, key)

vars == <<now, tokens, credentials, holder, last, seen, delivered>>

Identity == Host \X Key

Instant == {t \in (now - Lag)..now : t >= 0}

EnrollmentToken == [status: {"unissued", "outstanding", "consumed"},
                    host: Host \cup {Nobody}, issued: Nat, expires: Nat]

\* `token` is history: the enrolment a credential descends from.
HostCredential == [status: {"absent", "active", "retiring", "revoked"},
                   issued: Nat, not_after: Nat, retires: Nat, generation: Nat,
                   token: Token \cup {Nobody}]

\* A report, its body left out.  `genuine`: the signature verifies under `key`.
ChannelEnvelope == [host: Host, key: Key, genuine: BOOLEAN, sequence: 1..MaxSequence,
                    nonce: Nonce, issued: 0..(MaxTime + Skew + 1),
                    lifetime: 1..MessageLife]

Expires(e) == e.issued + e.lifetime

AcceptedReport == [sequence: Nat, nonce: Nonce, expires: Nat, at: Nat]

Unissued == [status |-> "unissued", host |-> Nobody, issued |-> 0, expires |-> 0]

Absent == [status |-> "absent", issued |-> 0, not_after |-> 0, retires |-> 0,
           generation |-> 0, token |-> Nobody]

\* The tables of the channel hold what their names say (AgentChannel.__init__).
ChannelTypeOK ==
  /\ now \in 0..MaxTime
  /\ tokens \in [Token -> EnrollmentToken]
  /\ credentials \in [Identity -> HostCredential]
  /\ holder \in [Key -> Host \cup {Nobody}]
  /\ last \in [Identity -> 0..MaxSequence]
  /\ seen \in [Identity -> [Nonce -> Nat]]
  /\ delivered \in [Identity -> Seq(AcceptedReport)]

Init ==
  /\ now = 0
  /\ tokens = [t \in Token |-> Unissued]
  /\ credentials = [i \in Identity |-> Absent]
  /\ holder = [k \in Key |-> Nobody]
  /\ last = [i \in Identity |-> 0]
  /\ seen = [i \in Identity |-> [n \in Nonce |-> 0]]
  /\ delivered = [i \in Identity |-> <<>>]

-----------------------------------------------------------------------------
(* Enrolment *)

Enrolled(i) == credentials[i].status # "absent"

\* The new active credential of one host: its first one, or the next of a rotation.
Active(at, generation, t) ==
  [status |-> "active", issued |-> at, not_after |-> at + CredentialLife, retires |-> 0,
   generation |-> generation, token |-> t]

\* A token is minted for a host that never held a credential; tokens already
\* outstanding for it are not looked at.
issue_token(t, h, at) ==
  /\ tokens[t].status = "unissued"
  /\ \A k \in Key : ~Enrolled(<<h, k>>)
  /\ tokens' = [tokens EXCEPT ![t] = [status |-> "outstanding", host |-> h,
                                      issued |-> at, expires |-> at + TokenLife]]
  /\ UNCHANGED <<now, credentials, holder, last, seen, delivered>>

Redeemable(t, at) ==
  /\ tokens[t].status = "outstanding"
  /\ at <= tokens[t].expires
  /\ at >= tokens[t].issued

enroll(t, k, at) ==
  /\ Redeemable(t, at)
  /\ holder[k] = Nobody
  /\ tokens' = [tokens EXCEPT ![t].status = "consumed"]
  /\ credentials' = [credentials EXCEPT ![<<tokens[t].host, k>>] = Active(at, 1, t)]
  /\ holder' = [holder EXCEPT ![k] = tokens[t].host]
  /\ UNCHANGED <<now, last, seen, delivered>>

-----------------------------------------------------------------------------
(* Rotation and revocation *)

\* Mutant: the old key's credential is left active.
RotateKeepingOld(h, k, new, at) ==
  /\ credentials[<<h, k>>].status = "active"
  /\ at >= credentials[<<h, k>>].issued
  /\ holder[new] = Nobody
  /\ credentials' = [credentials EXCEPT
       ![<<h, new>>] = Active(at, credentials[<<h, k>>].generation + 1, credentials[<<h, k>>].token)]
  /\ holder' = [holder EXCEPT ![new] = h]
  /\ UNCHANGED <<now, tokens, last, seen, delivered>>

\* Only the active key is rotated, onto a key no host ever held.  The old key
\* goes on verifying for the overlap: a report may be in flight.
rotate(h, k, new, at) ==
  /\ credentials[<<h, k>>].status = "active"
  /\ at >= credentials[<<h, k>>].issued
  /\ holder[new] = Nobody
  /\ credentials' = [credentials EXCEPT
       ![<<h, k>>].status = "retiring",
       ![<<h, k>>].retires = at + Overlap,
       ![<<h, new>>] = Active(at, credentials[<<h, k>>].generation + 1, credentials[<<h, k>>].token)]
  /\ holder' = [holder EXCEPT ![new] = h]
  /\ UNCHANGED <<now, tokens, last, seen, delivered>>

\* Mutant: the key is given back to the pool of unused keys.
RevokeFreeingKey(h, k, at) ==
  /\ credentials[<<h, k>>].status \in {"active", "retiring"}
  /\ at >= credentials[<<h, k>>].issued
  /\ credentials' = [credentials EXCEPT ![<<h, k>>].status = "revoked", ![<<h, k>>].retires = 0]
  /\ holder' = [holder EXCEPT ![k] = Nobody]
  /\ UNCHANGED <<now, tokens, last, seen, delivered>>

revoke(h, k, at) ==
  /\ credentials[<<h, k>>].status \in {"active", "retiring"}
  /\ at >= credentials[<<h, k>>].issued
  /\ credentials' = [credentials EXCEPT ![<<h, k>>].status = "revoked", ![<<h, k>>].retires = 0]
  /\ UNCHANGED <<now, tokens, holder, last, seen, delivered>>

\* The credentials `active` finds for a host; it raises unless there is one.
ActiveCredentials(h) == {k \in Key : credentials[<<h, k>>].status = "active"}

-----------------------------------------------------------------------------
(* Reports *)

usable_at(c, at) ==
  /\ c.status \in {"active", "retiring"}
  /\ at <= c.not_after
  /\ c.status = "retiring" => at <= c.retires

\* Mutant: the check of the sequence accepts the last one again.
FreshOrSame(e) == e.sequence >= last[<<e.host, e.key>>]

Fresh(e) == e.sequence > last[<<e.host, e.key>>]

\* Every check before the nonce table is touched.
Checked(e, at) ==
  /\ Enrolled(<<e.host, e.key>>)
  /\ usable_at(credentials[<<e.host, e.key>>], at)
  /\ at < Expires(e)
  /\ at >= e.issued - Skew
  /\ e.genuine
  /\ Fresh(e)

\* The nonces of an identity still remembered at an instant.
Pruned(i, at) == [n \in Nonce |-> IF seen[i][n] < at THEN 0 ELSE seen[i][n]]

\* accept, when every check passes: the replay state is committed last.
accept(e, at) ==
  LET i == <<e.host, e.key>> IN
  /\ Checked(e, at)
  /\ Pruned(i, at)[e.nonce] = 0
  /\ last' = [last EXCEPT ![i] = e.sequence]
  /\ seen' = [seen EXCEPT ![i] = [Pruned(i, at) EXCEPT ![e.nonce] = Expires(e)]]
  /\ delivered' = [delivered EXCEPT ![i] = Append(@,
       [sequence |-> e.sequence, nonce |-> e.nonce, expires |-> Expires(e), at |-> now])]
  /\ UNCHANGED <<now, tokens, credentials, holder>>

\* Fewer than MaxReports reports were delivered.
Room == Cardinality(UNION {{i} \X DOMAIN delivered[i] : i \in Identity}) < MaxReports

\* Mutant: the sequence is recorded before the report is refused.
RefuseCommitted(e, at) ==
  LET i == <<e.host, e.key>> IN
  /\ Checked(e, at)
  /\ Pruned(i, at)[e.nonce] # 0
  /\ seen' = [seen EXCEPT ![i] = Pruned(i, at)]
  /\ last' = [last EXCEPT ![i] = e.sequence]
  /\ UNCHANGED <<now, tokens, credentials, holder, delivered>>

\* accept, when the nonce is still remembered: the table was pruned by then.
\* Every other refusal comes before and leaves the channel as it was.
RefuseNonce(e, at) ==
  LET i == <<e.host, e.key>> IN
  /\ Checked(e, at)
  /\ Pruned(i, at)[e.nonce] # 0
  /\ seen' = [seen EXCEPT ![i] = Pruned(i, at)]
  /\ UNCHANGED <<now, tokens, credentials, holder, last, delivered>>

Tick ==
  /\ now < MaxTime
  /\ now' = now + 1
  /\ UNCHANGED <<tokens, credentials, holder, last, seen, delivered>>

Next ==
  \/ Tick
  \/ \E at \in Instant :
       \/ \E t \in Token, h \in Host : issue_token(t, h, at)
       \/ \E t \in Token, k \in Key : enroll(t, k, at)
       \/ \E h \in Host, k, new \in Key : rotate(h, k, new, at)
       \/ \E h \in Host, k \in Key : revoke(h, k, at)
       \/ Room /\ \E e \in ChannelEnvelope : accept(e, at)
       \/ \E e \in ChannelEnvelope : RefuseNonce(e, at)

ChannelSpec == Init /\ [][Next]_vars

-----------------------------------------------------------------------------
(* Properties *)

\* A report is delivered at most once and the reports of one key in the order
\* their host numbered them, however the wire repeats and reorders them and
\* whatever instants the calls carry; a nonce comes back only after the report
\* that carried it expired.  (accept: sequence, nonce table and its pruning.)
DeliveredOnceInOrder ==
  \A i \in Identity : \A m, n \in DOMAIN delivered[i] : m < n =>
    /\ delivered[i][m].sequence < delivered[i][n].sequence
    /\ delivered[i][m].nonce = delivered[i][n].nonce => delivered[i][m].expires < delivered[i][n].at

\* What was refused costs the real host nothing: a report signed by its key,
\* in its window, with a number above and a nonce apart from all that was
\* delivered before, passes every check of accept.
RefusalsBurnNothing ==
  \A e \in ChannelEnvelope :
    LET i == <<e.host, e.key>> IN
    /\ e.genuine
    /\ credentials[i].status # "absent" /\ usable_at(credentials[i], now)
    /\ now < Expires(e) /\ now >= e.issued - Skew
    /\ \A m \in DOMAIN delivered[i] :
         delivered[i][m].sequence < e.sequence /\ delivered[i][m].nonce # e.nonce
    => Checked(e, now) /\ Pruned(i, now)[e.nonce] = 0

\* A key speaks for one host, forever: whatever is enrolled, rotated and
\* revoked, no two hosts ever held a credential with the same key.
KeyNamesOneHost ==
  \A g, h \in Host, k \in Key : Enrolled(<<g, k>>) /\ Enrolled(<<h, k>>) => g = h

\* One redemption, one identity: of all the credentials that descend from one
\* token at most one is active, and they are all its host's.
OneKeyPerToken ==
  \A i, j \in Identity :
    Enrolled(i) /\ Enrolled(j) /\ credentials[i].token = credentials[j].token /\ i # j =>
      /\ i[1] = j[1]
      /\ ~(credentials[i].status = "active" /\ credentials[j].status = "active")

\* A rotated key is heard only while reports signed before the rotation can
\* still be in flight: nothing under it is delivered later than the overlap
\* (and the wait of the call) after its successor was issued.
OverlapIsBounded ==
  \A i, j \in Identity :
    /\ Enrolled(i) /\ Enrolled(j)
    /\ credentials[i].token = credentials[j].token
    /\ credentials[i].generation < credentials[j].generation
    => \A m \in DOMAIN delivered[i] : delivered[i][m].at <= credentials[j].issued + Overlap + Lag

\* Credentials through any sequence of enroll, rotate and revoke: a key speaks
\* for one host, a token for one active key, and a rotated key falls silent.
CredentialsAreSound == KeyNamesOneHost /\ OneKeyPerToken /\ OverlapIsBounded

\* Revocation is final and immediate: a revoked key stays revoked, with the
\* host it was revoked for, and nothing is delivered under it again.
RevocationIsFinal ==
  [][\A i \in Identity : credentials[i].status = "revoked" =>
        /\ credentials'[i].status = "revoked"
        /\ holder'[i[2]] = i[1]
        /\ delivered'[i] = delivered[i]]_vars

\* A host never has two active keys.  "the ledger must name exactly one"
\* (channel.py, active).
OneActiveKey ==
  \A h \in Host : \A k, l \in ActiveCredentials(h) : k = l

\* A host all of whose keys are revoked can be given a new token.  "rotate it,
\* or revoke it first" (issue_token), "enroll a new token for this host"
\* (rotate).
RevokedHostsReenroll ==
  \A h \in Host, t \in Token :
    /\ tokens[t].status = "unissued"
    /\ \A k \in Key : credentials[<<h, k>>].status \in {"absent", "revoked"}
    => ENABLED issue_token(t, h, now)
=============================================================================
