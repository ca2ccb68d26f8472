------------------------- MODULE ToolchainRequests -------------------------
(***************************************************************************)
(* The runner-toolchain request engine of the hub: one row per (lane,      *)
(* tool), the guarded transition table of mon-tc-04, operator decisions    *)
(* (toolchain_transitions.decide), builder reports                         *)
(* (toolchain_evidence.report_build) and the consequences of a lane's      *)
(* heartbeat (toolchain_store.record_gap_report,                           *)
(* toolchain_evidence.note_lane_evidence).                                 *)
(*                                                                         *)
(* The Python engine is "dict-only": it takes a row and mutates it under   *)
(* the caller's lock.  Here every function returns the new row, and the    *)
(* module HubRegistry owns the document, the lock and the save.            *)
(*                                                                         *)
(* A row's history keeps the entries that move the row (the ones whose     *)
(* version_after differs from version_before, and the opening one).  The   *)
(* entries written for a refusal leave every other field alone; which one  *)
(* is written is the field `audit' of an operation's result.               *)
(***************************************************************************)
EXTENDS Naturals, Sequences

CONSTANTS
    Lane,        \* runner names: the canonical lane identifiers
    Tool,        \* the closed tool vocabulary
    Profile,     \* reviewed toolchain profile ids
    Digest,      \* lane image digests
    Nonce,       \* nonces of operator decisions
    Actor,       \* actor claims
    Note,        \* notes within the cap of DECISION_NOTE_MAX_CHARS
    TooLong,     \* a note above that cap
    None,        \* Python's None
    Window       \* TOOL_REQUEST_SUPPRESSION_DAYS, in ticks of the hub's clock

ASSUME NoneAssumption ==
    /\ None \notin Lane \cup Tool \cup Profile \cup Digest \cup Nonce
                   \cup Actor \cup Note
    /\ TooLong \notin Note \cup {None}

ASSUME WindowAssumption == Window \in Nat

Key == Lane \X Tool

State == {"open", "approved", "built", "fulfilled", "denied"}

Event == {"gap-reported", "decide-approve", "decide-deny", "report-built",
          "build-failed", "converge", "gap-regressed",
          "report-suppressed", "report-after-window"}

\* Names of the audit entries an operation may leave, "none" for no entry.
AuditName == Event \cup {"none", "rejected_credential_class",
                         "rejected-conflict", "rejected-replay",
                         "rejected-missing-note", "rejected-transition"}

(***************************************************************************)
(* The normative table: Rule(s, e) is the state the event e moves a row in *)
(* state s to, or NoRule when the table has no such entry.                 *)
(***************************************************************************)
NoRule == "no-rule"

Rule(s, e) ==
    CASE s = "open"      /\ e = "decide-approve"      -> "approved"
      [] s = "open"      /\ e = "decide-deny"         -> "denied"
      [] s = "approved"  /\ e = "report-built"        -> "built"
      [] s = "built"     /\ e = "converge"            -> "fulfilled"
      [] s = "approved"  /\ e = "build-failed"        -> "open"
      [] s = "built"     /\ e = "build-failed"        -> "open"
      [] s = "fulfilled" /\ e = "gap-regressed"       -> "open"
      [] s = "denied"    /\ e = "report-suppressed"   -> "denied"
      [] s = "denied"    /\ e = "report-after-window" -> "open"
      [] OTHER -> NoRule

(***************************************************************************)
(* Rows.  `after' is version_after; version_before is always one less.     *)
(* A (lane, tool) nobody has reported has the row NoRow.                   *)
(***************************************************************************)
Entry == [event : Event, from : State \cup {None}, to : State,
          after : Nat, actor : Actor \cup {None}, note : Note \cup {None}]

Row == [state    : State \cup {"absent"},
        version  : Nat,
        profile  : Profile \cup {None},   \* required_profile
        nonces   : SUBSET Nonce,
        digest   : Digest \cup {None},    \* lane_image_digest: the awaited one
        cleared  : Digest \cup {None},    \* awaiting_cleared
        until    : Nat,                   \* suppression_until
        history  : Seq(Entry)]

NoRow == [state |-> "absent", version |-> 0, profile |-> None, nonces |-> {},
          digest |-> None, cleared |-> None, until |-> 0, history |-> <<>>]

new_request_row(p) ==
    [state |-> "open", version |-> 1, profile |-> p, nonces |-> {},
     digest |-> None, cleared |-> None, until |-> 0,
     history |-> << [event |-> "gap-reported", from |-> None, to |-> "open",
                     after |-> 1, actor |-> None, note |-> None] >>]

audit_record(row, event, actor, note) ==
    [event |-> event, from |-> row.state, to |-> Rule(row.state, event),
     after |-> row.version + 1, actor |-> actor, note |-> note]

\* The part every applied transition shares: the table's target state, one
\* more version, one more history entry.
Move(row, event, actor, note) ==
    [row EXCEPT !.state   = Rule(row.state, event),
                !.version = row.version + 1,
                !.history = Append(row.history,
                                   audit_record(row, event, actor, note))]

-----------------------------------------------------------------------------
(***************************************************************************)
(* Operator decisions.  A decision is a record [action, class, actor,      *)
(* nonce, expected, note]; `class' is what classify() found the presented  *)
(* secret to be, and `expected' is 0 when no expected_version was sent.    *)
(***************************************************************************)
RefusedClass == {"enrollment", "heartbeat", "runner_key", "builder",
                 "operator-unscoped", "unknown"}

CredentialClass == RefusedClass \cup {"absent", "operator", "builder-anonymous"}

EventOf(d) == IF d.action = "approve" THEN "decide-approve" ELSE "decide-deny"

AlreadyApplied(row, d) ==
    /\ d.expected = row.version
    /\ \E i \in 1..Len(row.history) :
          LET h == row.history[i] IN
          /\ h.after = row.version
          /\ h.event = EventOf(d)
          /\ h.actor = d.actor
          /\ h.note = d.note

Verdict(status, audit, idem) ==
    [status |-> status, audit |-> audit, idem |-> idem]

\* The checks of decide(), in the order the code makes them.
decide_verdict(row, d, consumed) ==
    IF d.class = "absent" THEN Verdict(401, "none", FALSE)
    ELSE IF d.class # "operator"
         THEN Verdict(403, "rejected_credential_class", FALSE)
    ELSE IF d.expected # 0 /\ d.expected # row.version
         THEN Verdict(409, "rejected-conflict", FALSE)
    ELSE IF AlreadyApplied(row, d) THEN Verdict(200, "none", TRUE)
    ELSE IF d.actor = None \/ d.nonce = None THEN Verdict(400, "none", FALSE)
    ELSE IF d.nonce \in consumed THEN Verdict(409, "rejected-replay", FALSE)
    ELSE IF d.note = TooLong THEN Verdict(400, "none", FALSE)
    ELSE IF d.action = "deny" /\ d.note = None
         THEN Verdict(400, "rejected-missing-note", FALSE)
    ELSE IF Rule(row.state, EventOf(d)) = NoRule
         THEN Verdict(409, "rejected-transition", FALSE)
    ELSE Verdict(200, EventOf(d), FALSE)

decide(row, d, now) ==
    LET moved == Move(row, EventOf(d), d.actor, d.note) IN
    [moved EXCEPT !.nonces = @ \cup {d.nonce},
                  !.until  = IF moved.state = "denied" THEN now + Window ELSE @]

-----------------------------------------------------------------------------
(***************************************************************************)
(* Builder reports: [class, profile, digest, complete, note, expected].    *)
(* A digest of None states a failed build; `complete' says that the build  *)
(* id and the digest of a success are there and not empty.                 *)
(***************************************************************************)
BuildEvent(b) == IF b.digest = None THEN "build-failed" ELSE "report-built"

report_verdict(row, b) ==
    IF b.class = "absent" THEN Verdict(401, "none", FALSE)
    ELSE IF b.class \notin {"builder", "builder-anonymous"}
         THEN Verdict(403, "rejected_credential_class", FALSE)
    ELSE IF b.class = "builder-anonymous" THEN Verdict(403, "none", FALSE)
    ELSE IF b.digest # None /\ (~b.complete \/ b.profile = None)
         THEN Verdict(400, "none", FALSE)
    ELSE IF b.note = TooLong THEN Verdict(400, "none", FALSE)
    ELSE IF b.digest = None /\ b.note = None
         THEN Verdict(400, "rejected-missing-note", FALSE)
    ELSE IF b.expected = 0 THEN Verdict(400, "none", FALSE)
    ELSE IF b.expected # row.version
         THEN Verdict(409, "rejected-conflict", FALSE)
    ELSE IF Rule(row.state, BuildEvent(b)) = NoRule
         THEN Verdict(409, "rejected-transition", FALSE)
    ELSE IF b.digest # None /\ (row.profile = None \/ row.profile # b.profile)
         THEN Verdict(409, "rejected-transition", FALSE)
    ELSE Verdict(200, BuildEvent(b), FALSE)

report_build(row, b) ==
    [Move(row, BuildEvent(b), None, b.note) EXCEPT !.digest = b.digest]

-----------------------------------------------------------------------------
(***************************************************************************)
(* A heartbeat's effect on its lane's rows.  gap = [kind, tools]: the      *)
(* field was "absent", carried a "refused" submission, or an accepted      *)
(* "list" of tools.  `reported' is the lane's stored digest after this     *)
(* heartbeat's own digest has been written.                                *)
(***************************************************************************)
record_gap_report(row, tool, gap, profile) ==
    IF gap.kind = "list" /\ tool \in gap.tools /\ row.state = "absent"
    THEN new_request_row(profile)
    ELSE row      \* a known row only has its last_seen stamps refreshed

\* Mutant: a reported gap is taken for a passing probe.
ProbeInverted(tool, gap, probe_complete) ==
    probe_complete /\ gap.kind = "list" /\ tool \in gap.tools

_probe_passes(tool, gap, probe_complete) ==
    probe_complete /\ gap.kind = "list" /\ tool \notin gap.tools

\* Mutants: the transition is applied without its history entry; the reported
\* digest is not compared with the awaited one.
ConvergeUnaudited(row, tool, reported, gap, probe_complete) ==
    IF row.digest = None \/ reported # row.digest
       \/ ~_probe_passes(tool, gap, probe_complete)
    THEN row
    ELSE [row EXCEPT !.state = "fulfilled", !.version = @ + 1, !.cleared = None]

ConvergeOnAnyImage(row, tool, reported, gap, probe_complete) ==
    IF row.digest = None \/ reported = None
       \/ ~_probe_passes(tool, gap, probe_complete)
    THEN row
    ELSE [Move(row, "converge", None, None) EXCEPT !.cleared = None]

_converge_or_clear(row, tool, reported, gap, probe_complete) ==
    IF row.digest = None \/ reported = None THEN row
    ELSE IF reported # row.digest
         THEN IF row.cleared = reported
              THEN row
              ELSE [row EXCEPT !.digest = None, !.cleared = reported]
    ELSE IF ~_probe_passes(tool, gap, probe_complete) THEN row
    ELSE [Move(row, "converge", None, None) EXCEPT !.cleared = None]

\* Mutant: the digest of the lost fulfilment stays on the row.
RegressKeepsDigest(row, tool, gap) ==
    IF gap.kind = "list" /\ tool \in gap.tools
    THEN Move(row, "gap-regressed", None, None)
    ELSE row

_regress_if_reported(row, tool, gap) ==
    IF gap.kind = "list" /\ tool \in gap.tools
    THEN [Move(row, "gap-regressed", None, None) EXCEPT !.digest = None]
    ELSE row

note_lane_evidence(row, tool, reported, gap, probe_complete) ==
    CASE row.state = "built"
           -> _converge_or_clear(row, tool, reported, gap, probe_complete)
      [] row.state = "fulfilled" -> _regress_if_reported(row, tool, gap)
      [] OTHER -> row

HeartbeatRow(row, tool, profile, reported, gap, probe_complete) ==
    note_lane_evidence(record_gap_report(row, tool, gap, profile),
                       tool, reported, gap, probe_complete)

-----------------------------------------------------------------------------
(***************************************************************************)
(* The audit trail explains the row: a history with one entry per version, *)
(* each a step of the table from the state the previous entry reached,     *)
(* ending in the row's current state.                                      *)
(***************************************************************************)
HistoryExplains(row) ==
    IF row.state = "absent"
    THEN row = NoRow
    ELSE LET h == row.history IN
         /\ Len(h) = row.version
         /\ row.version >= 1
         /\ h[1].event = "gap-reported" /\ h[1].to = "open"
         /\ h[row.version].to = row.state
         /\ \A i \in 1..Len(h) : h[i].after = i
         /\ \A i \in 2..Len(h) :
               /\ h[i].from = h[i - 1].to
               /\ h[i].to = Rule(h[i].from, h[i].event)

(***************************************************************************)
(* The evidence a row carries fits its state: an awaited or recorded       *)
(* digest only while it is built or fulfilled, a fulfilled row always with *)
(* the digest it was fulfilled against, and a deciding actor behind every  *)
(* decision in the trail.                                                  *)
(***************************************************************************)
EvidenceFits(row) ==
    /\ row.digest # None => row.state \in {"built", "fulfilled"}
    /\ row.state = "fulfilled" => row.digest # None
    /\ row.state \in {"built", "fulfilled"} => row.profile # None
    /\ \A i \in 1..Len(row.history) :
          row.history[i].event \in {"decide-approve", "decide-deny"} =>
             /\ row.history[i].actor # None
             /\ row.history[i].event = "decide-deny" =>
                   row.history[i].note # None
=============================================================================
