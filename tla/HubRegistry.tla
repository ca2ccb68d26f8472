---------------------------- MODULE HubRegistry ----------------------------
(***************************************************************************)
(* The hub's system of record: one JSON document (runners.json) held in    *)
(* memory behind HubState._lock, written whole by Registry.save after each *)
(* handler, and reloaded by a restart.  Handlers: /enroll, /heartbeat,     *)
(* /revoke, /toolchain/decide, /toolchain/build-report.                    *)
(*                                                                         *)
(* A handler runs under the lock, so it is one step; what is not atomic    *)
(* with it is the save (which may raise, leaving memory ahead of the file) *)
(* and the answer (which may be lost, leaving the client to retry).        *)
(***************************************************************************)
EXTENDS ToolchainRequests, FiniteSets

CONSTANTS
    Token,        \* one-time enrollment tokens in HUB_ENROLLMENT_TOKENS
    Hbt,          \* heartbeat tokens tokens.mint_token can mint
    Enrolled0,    \* lanes already enrolled when the behaviour starts
    Unreported,   \* registry.UNREPORTED: the field was not in the body
    Faults,       \* what may go wrong: "save" raises, the "answer" is lost
    MaxVersion,   \* bound on a row's version
    MaxTime       \* bound on the hub's clock

ASSUME HubAssumption ==
    /\ None \notin Token \cup Hbt
    /\ Unreported \notin Digest \cup {None}
    /\ Enrolled0 \subseteq Lane /\ IsFiniteSet(Enrolled0)
    /\ Faults \subseteq {"save", "answer"}
    /\ MaxVersion \in Nat \ {0}
    /\ MaxTime \in Nat

VARIABLES
    mem,     \* Registry._data
    disk,    \* the document in runners.json
    now,     \* the hub's clock
    held,    \* the heartbeat token each spoke was given in a 200 to /enroll
    acked,   \* decisions and builds answered 200, revocations answered 200
    call     \* the last request the hub served, and how it ended

vars == <<mem, disk, now, held, acked, call>>

Runner == [status  : {"unknown", "enrolled", "revoked"},
           tok     : Hbt \cup {None},       \* heartbeat_token_hash
           profile : Profile \cup {None},   \* toolchain_profile_id
           image   : Digest \cup {None}]    \* lane_image_digest

Document == [tokens   : SUBSET Token,       \* enrollment_tokens
             runners  : [Lane -> Runner],
             rows     : [Key -> Row],       \* toolchain_requests
             consumed : SUBSET Nonce]       \* toolchain_consumed_nonces

Unknown == [status |-> "unknown", tok |-> None, profile |-> None, image |-> None]

Call == [op : {"start", "restart", "profile", "tick", "enroll", "heartbeat",
               "revoke", "decide", "build"},
         lane : Lane \cup {None}, tool : Tool \cup {None},
         nonce : Nonce \cup {None},
         status : {0, 200, 400, 401, 403, 404, 409},
         audit : AuditName, idem : BOOLEAN,
         clean : SUBSET Tool,     \* tools this heartbeat's probe evidence passed
         answered : BOOLEAN]      \* the client received the answer

NoCall(op) == [op |-> op, lane |-> None, tool |-> None, nonce |-> None,
               status |-> 0, audit |-> "none", idem |-> FALSE,
               clean |-> {}, answered |-> FALSE]

Acked == [lane : Lane, tool : Tool, after : Nat, event : Event]
         \cup [revoked : Lane]

TypeOK ==
    /\ mem \in Document
    /\ disk \in Document
    /\ now \in Nat
    /\ held \in [Lane -> Hbt \cup {None}]
    /\ acked \subseteq Acked
    /\ call \in Call

-----------------------------------------------------------------------------
(***************************************************************************)
(* HubState.with_registry: run the handler under the lock, save, answer.   *)
(* res = [doc, call, save, ack]; `save' is FALSE for the two results       *)
(* with_registry does not save (False and ALREADY_ENROLLED).               *)
(***************************************************************************)
Within(doc) == \A k \in Key : doc.rows[k].version <= MaxVersion

\* Mutant: a retry that changes nothing is answered without a save.
RetryUnsaved(res) ==
    /\ disk' = IF res.save /\ ~res.call.idem THEN res.doc ELSE disk
    /\ call' = [res.call EXCEPT !.answered = TRUE]
    /\ acked' = acked \cup res.ack

Answered(res) ==
    /\ disk' = IF res.save THEN res.doc ELSE disk
    /\ call' = [res.call EXCEPT !.answered = TRUE]
    /\ acked' = acked \cup res.ack

\* The file was replaced, but the process or the connection died before the
\* answer reached the client.
AnswerLost(res) ==
    /\ "answer" \in Faults
    /\ res.save
    /\ disk' = res.doc
    /\ call' = res.call
    /\ UNCHANGED acked

\* Registry.save raised: memory keeps the change, the file does not, and the
\* handler thread dies without an answer.
SaveFailed(res) ==
    /\ res.save
    /\ "save" \in Faults
    /\ call' = res.call
    /\ UNCHANGED <<disk, acked>>

with_registry(res) ==
    /\ Within(res.doc)
    /\ mem' = res.doc
    /\ Answered(res) \/ AnswerLost(res) \/ SaveFailed(res)
    /\ UNCHANGED now

\* A result that leaves the document as it is.
Refuse(c, status, save) ==
    [doc |-> mem, save |-> save, ack |-> {}, call |-> [c EXCEPT !.status = status]]

-----------------------------------------------------------------------------
(***************************************************************************)
(* /enroll.  A name already in the registry, revoked or not, is a 409 that *)
(* spends no token; the token is otherwise verified and consumed, and the  *)
(* minted heartbeat token leaves the hub in this one answer.               *)
(***************************************************************************)
FreshHbt == Hbt \ ({held[l] : l \in Lane} \cup {mem.runners[l].tok : l \in Lane}
                   \cup {disk.runners[l].tok : l \in Lane})

EnrollDoc(doc, l, t, h) ==
    [doc EXCEPT !.tokens = @ \ {t},
                !.runners[l] = [Unknown EXCEPT !.status = "enrolled", !.tok = h]]

\* Mutant: the token is consumed before the duplicate is noticed.
DuplicateSpendsToken(l, t) ==
    LET c == [NoCall("enroll") EXCEPT !.lane = l] IN
    /\ mem.runners[l].status # "unknown" \/ t \notin mem.tokens
    /\ with_registry([doc |-> [mem EXCEPT !.tokens = @ \ {t}], save |-> TRUE,
                      ack |-> {}, call |-> [c EXCEPT !.status = 409]])
    /\ UNCHANGED held

EnrollRefused(l, t) ==
    LET c == [NoCall("enroll") EXCEPT !.lane = l] IN
    /\ \/ /\ mem.runners[l].status # "unknown"
          /\ with_registry(Refuse(c, 409, FALSE))
       \/ /\ mem.runners[l].status = "unknown"
          /\ t \notin mem.tokens
          /\ with_registry(Refuse(c, 401, FALSE))
    /\ UNCHANGED held

EnrollAccepted(l, t) ==
    /\ mem.runners[l].status = "unknown"
    /\ t \in mem.tokens
    /\ \E h \in FreshHbt :
          /\ with_registry([doc |-> EnrollDoc(mem, l, t, h), save |-> TRUE,
                            ack |-> {},
                            call |-> [NoCall("enroll") EXCEPT !.lane = l,
                                                             !.status = 200]])
          /\ held' = IF call'.answered THEN [held EXCEPT ![l] = h] ELSE held

Enroll(l, t) == EnrollRefused(l, t) \/ EnrollAccepted(l, t)

-----------------------------------------------------------------------------
verify_heartbeat_token(l, h) ==
    /\ mem.runners[l].status = "enrolled"
    /\ h # None
    /\ mem.runners[l].tok = h

(***************************************************************************)
(* /heartbeat.  Registry.heartbeat records the gap report, then writes the *)
(* lane's own digest and runs the digest-based consequences.               *)
(***************************************************************************)
HeartbeatDoc(doc, l, dig, gap, probe_complete) ==
    LET reported == IF dig = Unreported THEN doc.runners[l].image ELSE dig IN
    [doc EXCEPT
        !.runners[l].image = reported,
        !.rows = [k \in Key |->
                    IF k[1] = l
                    THEN HeartbeatRow(doc.rows[k], k[2], doc.runners[l].profile,
                                      reported, gap, probe_complete)
                    ELSE doc.rows[k]]]

Gap == [kind : {"absent", "refused"}, tools : {{}}]
       \cup [kind : {"list"}, tools : SUBSET Tool]

Heartbeat(l, h, dig, gap, probe_complete) ==
    LET c == [NoCall("heartbeat") EXCEPT
                !.lane = l,
                !.clean = IF probe_complete /\ gap.kind = "list"
                          THEN Tool \ gap.tools ELSE {}]
    IN
    /\ IF verify_heartbeat_token(l, h)
       THEN with_registry([doc |-> HeartbeatDoc(mem, l, dig, gap, probe_complete),
                           save |-> TRUE, ack |-> {},
                           call |-> [c EXCEPT !.status = 200]])
       ELSE with_registry(Refuse([c EXCEPT !.clean = {}], 401, FALSE))
    /\ UNCHANGED held

(***************************************************************************)
(* /revoke: the record stays, unenrolled and without a verifier.           *)
(***************************************************************************)
RevokeDoc(doc, l) ==
    [doc EXCEPT !.runners[l].status = "revoked", !.runners[l].tok = None]

Revoke(l, h) ==
    LET c == [NoCall("revoke") EXCEPT !.lane = l] IN
    /\ IF verify_heartbeat_token(l, h)
       THEN with_registry([doc |-> RevokeDoc(mem, l), save |-> TRUE,
                           ack |-> {[revoked |-> l]},
                           call |-> [c EXCEPT !.status = 200]])
       ELSE with_registry(Refuse(c, 401, FALSE))
    /\ UNCHANGED held

-----------------------------------------------------------------------------
(***************************************************************************)
(* /toolchain/decide: handle_decide refuses an over-long note before it    *)
(* takes the lock; decide_request resolves the row, runs decide() and,     *)
(* on a 200 that applied, consumes the nonce hub-wide; on any 200 the      *)
(* nonce is also noted on the row.                                         *)
(***************************************************************************)
\* Mutant: a retry that applies nothing consumes its nonce too.
RetryConsumesNonce(doc, k, d, v, at) ==
    LET row == IF v.idem THEN doc.rows[k] ELSE decide(doc.rows[k], d, at) IN
    [doc EXCEPT
        !.rows[k] = [row EXCEPT !.nonces = @ \cup ({d.nonce} \ {None})],
        !.consumed = @ \cup ({d.nonce} \ {None})]

DecideDoc(doc, k, d, v, at) ==
    LET row == IF v.idem THEN doc.rows[k] ELSE decide(doc.rows[k], d, at) IN
    [doc EXCEPT
        !.rows[k] = [row EXCEPT !.nonces = @ \cup ({d.nonce} \ {None})],
        !.consumed = IF v.idem THEN @ ELSE @ \cup {d.nonce}]

DecideAck(k, d, v) ==
    {[lane |-> k[1], tool |-> k[2],
      after |-> mem.rows[k].version + (IF v.idem THEN 0 ELSE 1),
      event |-> EventOf(d)]}

Decide(k, d) ==
    LET c == [NoCall("decide") EXCEPT !.lane = k[1], !.tool = k[2],
                                      !.nonce = d.nonce]
        v == decide_verdict(mem.rows[k], d, mem.consumed)
    IN
    /\ IF d.note = TooLong
       THEN with_registry(Refuse(c, 400, FALSE))
       ELSE IF mem.rows[k].state = "absent"
       THEN with_registry(Refuse(c, 404, TRUE))
       ELSE IF v.status # 200
       THEN with_registry(Refuse([c EXCEPT !.audit = v.audit], v.status, TRUE))
       ELSE with_registry([doc |-> DecideDoc(mem, k, d, v, now), save |-> TRUE,
                           ack |-> DecideAck(k, d, v),
                           call |-> [c EXCEPT !.status = 200, !.idem = v.idem,
                                              !.audit = v.audit]])
    /\ UNCHANGED held

(***************************************************************************)
(* /toolchain/build-report.                                                *)
(***************************************************************************)
ReportBuild(k, b) ==
    LET c == [NoCall("build") EXCEPT !.lane = k[1], !.tool = k[2]]
        v == report_verdict(mem.rows[k], b)
    IN
    /\ IF mem.rows[k].state = "absent"
       THEN with_registry(Refuse(c, IF b.class = "absent" THEN 401 ELSE 404, TRUE))
       ELSE IF v.status # 200
       THEN with_registry(Refuse([c EXCEPT !.audit = v.audit], v.status, TRUE))
       ELSE with_registry([doc |-> [mem EXCEPT !.rows[k] = report_build(@, b)],
                           save |-> TRUE,
                           ack |-> {[lane |-> k[1], tool |-> k[2],
                                     after |-> mem.rows[k].version + 1,
                                     event |-> BuildEvent(b)]},
                           call |-> [c EXCEPT !.status = 200, !.audit = v.audit]])
    /\ UNCHANGED held

-----------------------------------------------------------------------------
\* Registry.set_lane_profile: the reviewed assignment, in memory; the next
\* handler that saves writes it out.
SetLaneProfile(l, p) ==
    /\ mem.runners[l].status # "unknown"
    /\ mem' = [mem EXCEPT !.runners[l].profile = p]
    /\ call' = [NoCall("profile") EXCEPT !.lane = l]
    /\ UNCHANGED <<disk, now, held, acked>>

\* The process dies, at rest or holding unsaved changes, and main() starts
\* again: load the file, load_enrollment_tokens(HUB_ENROLLMENT_TOKENS), save.
load_enrollment_tokens(doc) == [doc EXCEPT !.tokens = @ \cup Token]

Restart ==
    /\ mem' = load_enrollment_tokens(disk)
    /\ disk' = load_enrollment_tokens(disk)
    /\ call' = NoCall("restart")
    /\ UNCHANGED <<now, held, acked>>

Tick ==
    /\ now < MaxTime
    /\ now' = now + 1
    /\ call' = NoCall("tick")
    /\ UNCHANGED <<mem, disk, held, acked>>

-----------------------------------------------------------------------------
(***************************************************************************)
(* Requests.  A client names the version it last read (the current one or  *)
(* the one before) or none.                                                *)
(***************************************************************************)
ExpectedOf(k) == {0, mem.rows[k].version}
                 \cup {v \in 1..MaxVersion : v + 1 = mem.rows[k].version}

OperatorDecision(k) ==
    [action : {"approve", "deny"}, class : {"operator"}, actor : Actor,
     nonce : Nonce \cup {None}, expected : ExpectedOf(k), note : Note \cup {None}]

\* Decisions no operator could mean: no actor claim, a note above the cap, or
\* a secret that is not an operator credential with the decide scope.
BadDecision(k) ==
    [action : {"approve"}, class : CredentialClass, actor : {None},
     nonce : {None}, expected : {0}, note : {None, TooLong}]

BuilderReport(k) ==
    [class : {"builder"}, profile : Profile \cup {None}, digest : Digest,
     complete : BOOLEAN, note : {None}, expected : ExpectedOf(k)]
    \cup
    [class : {"builder"}, profile : {None}, digest : {None}, complete : {TRUE},
     note : Note \cup {None, TooLong}, expected : ExpectedOf(k)]

OtherReport(k) ==
    [class : CredentialClass \ {"builder"}, profile : Profile, digest : Digest,
     complete : {TRUE}, note : {None}, expected : {mem.rows[k].version}]

Init ==
    /\ \E hbt \in [Enrolled0 -> Hbt], prof \in [Enrolled0 -> Profile \cup {None}] :
          /\ \A l, m \in Enrolled0 : hbt[l] = hbt[m] => l = m
          /\ mem = [tokens |-> Token,
                    runners |-> [l \in Lane |->
                        IF l \in Enrolled0
                        THEN [Unknown EXCEPT !.status = "enrolled",
                                             !.tok = hbt[l], !.profile = prof[l]]
                        ELSE Unknown],
                    rows |-> [k \in Key |-> NoRow],
                    consumed |-> {}]
          /\ held = [l \in Lane |-> IF l \in Enrolled0 THEN hbt[l] ELSE None]
    /\ disk = mem
    /\ now = 0
    /\ acked = {}
    /\ call = NoCall("start")

Next ==
    \/ \E l \in Lane :
          \/ \E t \in Token \cup {None} : Enroll(l, t)
          \/ \E h \in Hbt \cup {None} :
                \/ Revoke(l, h)
                \/ \E dig \in Digest \cup {None, Unreported}, gap \in Gap,
                      p \in BOOLEAN : Heartbeat(l, h, dig, gap, p)
          \/ \E p \in Profile \cup {None} : SetLaneProfile(l, p)
    \/ \E k \in Key :
          \/ \E d \in OperatorDecision(k) \cup BadDecision(k) : Decide(k, d)
          \/ \E b \in BuilderReport(k) \cup OtherReport(k) : ReportBuild(k, b)
    \/ Restart
    \/ Tick

Spec == Init /\ [][Next]_vars

-----------------------------------------------------------------------------
(***************************************************************************)
(* Properties                                                              *)
(***************************************************************************)

\* The audit trail of every request, in memory and on disk, explains its
\* state: one entry per version, each a step of the normative table
\* (mon-tc-04; decide, report_build, note_lane_evidence, save and load).
AuditReplays ==
    \A k \in Key : HistoryExplains(mem.rows[k]) /\ HistoryExplains(disk.rows[k])

\* No request carries evidence its state does not justify, and none is built
\* or fulfilled without a reviewed profile (mon-tc-05; report_build,
\* _converge_or_clear, _regress_if_reported).
EvidenceMatchesState ==
    \A k \in Key : EvidenceFits(mem.rows[k]) /\ EvidenceFits(disk.rows[k])

Decisions(doc) ==
    {p \in Key \X (1..MaxVersion) :
        LET h == doc.rows[p[1]].history IN
        /\ p[2] <= Len(h)
        /\ h[p[2]].event \in {"decide-approve", "decide-deny"}}

\* Every decision in the audit trails was paid for with a nonce of its own:
\* across rows, retries, lost answers, failed saves and restarts there are
\* exactly as many applied decisions as consumed nonces (mon-tc-03;
\* decide_request, consume_nonce).
DecisionsSpendNonces ==
    /\ Cardinality(Decisions(mem)) = Cardinality(mem.consumed)
    /\ Cardinality(Decisions(disk)) = Cardinality(disk.consumed)

\* What a client was told with a 200 is in the file: a decision or build
\* report at its version, a revocation for good (with_registry saves before
\* the handler answers, also when it answers a retry).
AckedIsDurable ==
    \A a \in acked :
        IF "revoked" \in DOMAIN a
        THEN disk.runners[a.revoked].status = "revoked"
        ELSE LET h == disk.rows[<<a.lane, a.tool>>].history IN
             a.after <= Len(h) /\ h[a.after].event = a.event

\* A heartbeat token a spoke received keeps working until that lane is
\* revoked, whatever saves failed since (Registry.enroll, do_enroll).
HeldTokenIsGood ==
    \A l \in Lane : held[l] # None =>
        \/ disk.runners[l].status = "revoked"
        \/ disk.runners[l].status = "enrolled" /\ disk.runners[l].tok = held[l]

\* No enrollment token is spent without a runner to show for it: a refused
\* duplicate, a wrong token or a failed save costs none (do_enroll,
\* consume_enrollment_token).
TokensPayForRunners ==
    \A doc \in {mem, disk} :
        Cardinality(Token \ doc.tokens)
            <= Cardinality({l \in Lane : doc.runners[l].status # "unknown"})

\* Enrollment over failed saves, lost answers and restarts: what a spoke was
\* given works, and what was spent shows (do_enroll, Registry.enroll).
EnrollmentsHold == HeldTokenIsGood /\ TokensPayForRunners

\* What the hub promises about requests, as RequestLifecycle states it; with
\* saves that succeed, the requests in memory implement it, restarts included.
Lifecycle == INSTANCE RequestLifecycle WITH
    state   <- [k \in Key |-> mem.rows[k].state],
    version <- [k \in Key |-> mem.rows[k].version],
    awaited <- [k \in Key |-> mem.rows[k].digest],
    image   <- [l \in Lane |-> mem.runners[l].image],
    spent   <- mem.consumed

\* Every handler, heartbeat and restart is a step of the promised life cycle
\* or leaves it alone (decide_request, report_build, Registry.heartbeat).
ImplementsLifecycle == Lifecycle!Spec

-----------------------------------------------------------------------------
(***************************************************************************)
(* Fairness.  The spokes heartbeat on a timer (every 300 s) and the CI job *)
(* of an approved request retries until its report is accepted; operators, *)
(* revocations and failure reports are never owed.                         *)
(***************************************************************************)
ReportsBuild(k) ==
    \E d \in Digest : ReportBuild(k, [class |-> "builder",
                                      profile |-> mem.rows[k].profile,
                                      digest |-> d, complete |-> TRUE,
                                      note |-> None,
                                      expected |-> mem.rows[k].version])

RunsBuild(k) ==
    /\ mem.rows[k].digest # None
    /\ Heartbeat(k[1], held[k[1]], mem.rows[k].digest,
                 [kind |-> "list", tools |-> {}], TRUE)

ReportsMissing(k) ==
    Heartbeat(k[1], held[k[1]], Unreported, [kind |-> "list", tools |-> {k[2]}], TRUE)

RolloutFairness ==
    \A k \in Key : /\ WF_vars(mem.rows[k].state = "approved" /\ ReportsBuild(k))
                   /\ WF_vars(mem.rows[k].state = "built" /\ RunsBuild(k))

RolloutSpec == Spec /\ RolloutFairness

\* An approved request whose builder reports and whose lane runs what was
\* built does not linger: it is fulfilled, or a failed build reopened it, or
\* the lane reported another image or was revoked (report_build,
\* _converge_or_clear).  Rows opened without a profile are excluded, and so
\* are rows too close to the bound on versions to finish.
ApprovedSettles ==
    \A k \in Key :
        (/\ mem.rows[k].state = "approved"
         /\ mem.rows[k].profile # None
         /\ mem.rows[k].version + 2 <= MaxVersion)
        ~> \/ mem.rows[k].state \in {"fulfilled", "open"}
           \/ mem.rows[k].state = "built" /\ mem.rows[k].digest = None
           \/ mem.runners[k[1]].status = "revoked"

ReportFairness ==
    /\ WF_vars(Tick)
    /\ \A k \in Key : WF_vars(ReportsMissing(k))

ReportSpec == Spec /\ ReportFairness

-----------------------------------------------------------------------------
(***************************************************************************)
(* What the repository says of the hub and the code does not do.           *)
(***************************************************************************)

\* A nonce the hub has consumed is never accepted again (mon-tc-03, and
\* decide's docstring: "Replay is refused before idempotency").
ReplayIsRefused ==
    [][call'.op = "decide" /\ call'.nonce \in mem.consumed => call'.status # 200]_vars

\* A nonce noted on a row by an accepted decision is a consumed nonce
\* (decide_request: "the nonce was already consumed on the original
\* application").
AcceptedNonceIsConsumed ==
    \A k \in Key : mem.rows[k].nonces \subseteq mem.consumed

\* An enrollment token enrolls one runner ("one-time", main() and mon-enroll-01).
EnrollmentTokenIsOneTime ==
    Cardinality({l \in Lane : mem.runners[l].status # "unknown"} \ Enrolled0)
        <= Cardinality(Token)

\* After a lane's heartbeat no row of the lane still waits for a digest other
\* than the one the lane runs (toolchain_evidence's docstring: "the awaited
\* digest is cleared").
DeadWaitIsCleared ==
    [][call'.op = "heartbeat" /\ call'.status = 200 =>
          \A k \in Key :
             /\ k[1] = call'.lane
             /\ mem'.rows[k].state = "built"
             /\ mem'.runners[k[1]].image # None
             => mem'.rows[k].digest \in {None, mem'.runners[k[1]].image}]_vars

\* A 409 already_enrolled is only answered for a live name (the runbook: "use
\* --revoke first to re-enroll cleanly").
RevokedNameCanEnroll ==
    [][call'.op = "enroll" /\ call'.status = 409 =>
          mem.runners[call'.lane].status # "revoked"]_vars

\* A denied request whose tool is still reported after the suppression window
\* returns to open (mon-tc-04: "after the window it returns to `open`").
DeniedReopens ==
    \A k \in Key :
        (mem.rows[k].state = "denied" /\ mem.rows[k].version < MaxVersion)
        ~> (\/ mem.rows[k].state # "denied"
            \/ mem.runners[k[1]].status = "revoked")

\* A built request whose lane ends up running the recorded image, heartbeat
\* after heartbeat with a clean probe, leaves `built' (mon-tc-04: "a later
\* heartbeat reports the recorded digest and the required probe passes").
BuiltConverges ==
    \A k \in Key, d \in Digest :
        [](/\ mem.rows[k].state = "built"
           /\ mem.rows[k].digest = d
           /\ mem.rows[k].version < MaxVersion
           /\ <>[](mem.runners[k[1]].image = d)
           => <>(\/ mem.rows[k].state # "built"
                 \/ mem.runners[k[1]].status = "revoked"))

\* The lane heartbeats forever with a clean, complete probe.
ArrivalFairness ==
    \A k \in Key : WF_vars(Heartbeat(k[1], held[k[1]], Unreported,
                                     [kind |-> "list", tools |-> {}], TRUE))

ArrivalSpec == Spec /\ ArrivalFairness
=============================================================================
