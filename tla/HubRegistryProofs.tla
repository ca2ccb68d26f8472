------------------------- MODULE HubRegistryProofs -------------------------
(***************************************************************************)
(* What holds of the hub for every set of lanes, tools, digests, nonces    *)
(* and tokens: types, the audit trail and the evidence on a request.       *)
(*                                                                         *)
(* A request row is good when it is well typed, its history explains its   *)
(* state and the evidence it carries fits that state.  The engine keeps    *)
(* rows good (first part); a handler writes a document of good rows to     *)
(* memory and the file gets that document or keeps its own (second part).  *)
(* The third part is about what survives crashes and restarts.             *)
(***************************************************************************)
EXTENDS HubRegistry, FiniteSetTheorems, SequenceTheorems, TLAPS

GoodRow(row) == row \in Row /\ HistoryExplains(row) /\ EvidenceFits(row)

-----------------------------------------------------------------------------
(***************************************************************************)
(* The transition table and the move every applied transition shares.      *)
(***************************************************************************)

\* A move of the table starts and ends in one of the five states (TRANSITIONS).
LEMMA RuleStates ==
    ASSUME NEW s, NEW e, Rule(s, e) # NoRule
    PROVE  s \in State /\ Rule(s, e) \in State
BY DEF Rule, NoRule, State

\* An applied transition changes a row's state, version and history, and leaves
\* its other fields alone (decide, report_build, _converge_or_clear,
\* _regress_if_reported).
LEMMA MoveFields ==
    ASSUME NEW row \in Row, NEW e \in Event, Rule(row.state, e) # NoRule,
           NEW a \in Actor \cup {None}, NEW n \in Note \cup {None}
    PROVE  LET r == Move(row, e, a, n)
               x == audit_record(row, e, a, n)
           IN  /\ r \in Row
               /\ x \in Entry
               /\ r.state = Rule(row.state, e)
               /\ r.version = row.version + 1
               /\ r.history = Append(row.history, x)
               /\ r.profile = row.profile /\ r.nonces = row.nonces
               /\ r.digest = row.digest /\ r.cleared = row.cleared
               /\ r.until = row.until
<1> DEFINE x == audit_record(row, e, a, n)
<1>1. x \in Entry
  BY RuleStates DEF audit_record, Entry, Row
<1>2. Append(row.history, x) \in Seq(Entry)
  BY <1>1 DEF Row
<1>3. row.version + 1 \in Nat
  BY DEF Row
<1>4. Rule(row.state, e) \in State \cup {"absent"}
  BY RuleStates
<1> HIDE DEF x
<1>5. [row EXCEPT !.state = Rule(row.state, e), !.version = row.version + 1,
                  !.history = Append(row.history, x)] \in Row
  BY <1>2, <1>3, <1>4, Zenon DEF Row
<1>6. Move(row, e, a, n) =
        [row EXCEPT !.state = Rule(row.state, e), !.version = row.version + 1,
                    !.history = Append(row.history, x)]
  BY Zenon DEF Move, x
<1> QED
  BY <1>1, <1>5, <1>6 DEF Row, x

\* A row that has made one more move of the table, with a named decider behind
\* a decision and evidence that fits the new state, is good.
LEMMA AppliedIsGood ==
    ASSUME NEW row, GoodRow(row), NEW e \in Event, Rule(row.state, e) # NoRule,
           NEW a \in Actor \cup {None}, NEW n \in Note \cup {None},
           e \in {"decide-approve", "decide-deny"} => a # None,
           e = "decide-deny" => n # None,
           NEW r \in Row,
           r.state = Rule(row.state, e),
           r.version = row.version + 1,
           r.history = Append(row.history, audit_record(row, e, a, n)),
           r.digest # None => r.state \in {"built", "fulfilled"},
           r.state = "fulfilled" => r.digest # None,
           r.state \in {"built", "fulfilled"} => r.profile # None
    PROVE  GoodRow(r)
<1> DEFINE x == audit_record(row, e, a, n)
           h == row.history
<1>1. /\ row.state \in State /\ r.state \in State
      /\ row.state # "absent" /\ r.state # "absent"
  BY RuleStates DEF State
<1>2. /\ x.event = e /\ x.from = row.state /\ x.to = r.state
      /\ x.after = row.version + 1 /\ x.actor = a /\ x.note = n
  BY DEF audit_record
<1>3. h \in Seq(Entry) /\ x \in Entry /\ row.version \in Nat /\ r.version \in Nat
  BY MoveFields DEF GoodRow, Row
<1>4. /\ Len(r.history) = Len(h) + 1
      /\ \A i \in 1..Len(h) : r.history[i] = h[i]
      /\ r.history[Len(h) + 1] = x
  BY <1>3
<1>5. /\ Len(h) = row.version /\ row.version >= 1
      /\ h[1].event = "gap-reported" /\ h[1].to = "open"
      /\ h[row.version].to = row.state
      /\ \A i \in 1..Len(h) : h[i].after = i
      /\ \A i \in 2..Len(h) :
            h[i].from = h[i - 1].to /\ h[i].to = Rule(h[i].from, h[i].event)
  BY <1>1 DEF GoodRow, HistoryExplains
<1> HIDE DEF x, h
<1>6. HistoryExplains(r)
  <2>1. Len(r.history) = r.version /\ r.version >= 1
    BY <1>3, <1>4, <1>5
  <2>2. r.history[1].event = "gap-reported" /\ r.history[1].to = "open"
    BY <1>3, <1>4, <1>5
  <2>3. r.history[r.version].to = r.state
    BY <1>2, <1>4, <1>5
  <2>4. ASSUME NEW i \in 1..Len(r.history) PROVE r.history[i].after = i
    <3>1. CASE i \in 1..Len(h)
      BY <3>1, <1>4, <1>5
    <3>2. CASE i = Len(h) + 1
      BY <3>2, <1>2, <1>4, <1>5
    <3> QED BY <3>1, <3>2, <1>3, <1>4, <1>5
  <2>5. ASSUME NEW i \in 2..Len(r.history)
        PROVE  /\ r.history[i].from = r.history[i - 1].to
               /\ r.history[i].to = Rule(r.history[i].from, r.history[i].event)
    <3>1. CASE i \in 2..Len(h)
      <4>1. i \in 1..Len(h) /\ i - 1 \in 1..Len(h)
        BY <3>1, <1>3, <1>5
      <4> QED BY <3>1, <4>1, <1>4, <1>5
    <3>2. CASE i = Len(h) + 1
      <4>1. i - 1 = Len(h) /\ Len(h) \in 1..Len(h)
        BY <3>2, <1>3, <1>5
      <4>2. r.history[i - 1].to = row.state /\ r.history[i] = x
        BY <3>2, <4>1, <1>4, <1>5
      <4> QED BY <4>2, <1>2
    <3> QED BY <3>1, <3>2, <1>3, <1>4, <1>5
  <2> QED BY <2>1, <2>2, <2>3, <2>4, <2>5, <1>1 DEF HistoryExplains
<1>7. ASSUME NEW i \in 1..Len(r.history),
             r.history[i].event \in {"decide-approve", "decide-deny"}
      PROVE  /\ r.history[i].actor # None
             /\ r.history[i].event = "decide-deny" => r.history[i].note # None
  <2>1. CASE i \in 1..Len(h)
    BY <2>1, <1>4, <1>7 DEF GoodRow, EvidenceFits, h
  <2>2. CASE i = Len(h) + 1
    BY <2>2, <1>2, <1>4, <1>7
  <2> QED BY <2>1, <2>2, <1>3, <1>4, <1>5
<1> QED BY <1>6, <1>7 DEF GoodRow, EvidenceFits

\* A change of fields the history does not record keeps a row good as long as
\* its digest still fits its state.
LEMMA AnnotatedIsGood ==
    ASSUME NEW row, GoodRow(row), row.state # "absent", NEW r \in Row,
           r.state = row.state, r.version = row.version,
           r.history = row.history, r.profile = row.profile,
           r.digest = row.digest \/ (r.digest = None /\ row.state # "fulfilled")
    PROVE  GoodRow(r)
BY DEF GoodRow, HistoryExplains, EvidenceFits

-----------------------------------------------------------------------------
(***************************************************************************)
(* The engine's operations keep rows good.                                 *)
(***************************************************************************)

\* The row a first report opens is good (new_request_row).
LEMMA NewRowIsGood ==
    ASSUME NEW p \in Profile \cup {None}
    PROVE  GoodRow(new_request_row(p))
<1> DEFINE r == new_request_row(p)
           x == [event |-> "gap-reported", from |-> None, to |-> "open",
                 after |-> 1, actor |-> None, note |-> None]
<1>1. x \in Entry
  BY DEF Entry, Event, State
<1>2. <<x>> \in Seq(Entry) /\ Len(<<x>>) = 1 /\ <<x>>[1] = x
  BY <1>1
<1>3. /\ x.event = "gap-reported" /\ x.to = "open" /\ x.after = 1
      /\ r.state = "open" /\ r.version = 1 /\ r.digest = None
      /\ r.history = <<x>>
  BY DEF new_request_row
<1> HIDE DEF x
<1>4. r \in Row
  BY <1>2, <1>3 DEF new_request_row, Row, State, x
<1> HIDE DEF r
<1>5. HistoryExplains(r)
  BY <1>2, <1>3 DEF HistoryExplains
<1>6. EvidenceFits(r)
  BY <1>2, <1>3 DEF EvidenceFits
<1> QED BY <1>4, <1>5, <1>6 DEF GoodRow, r

\* An accepted decision of a named operator keeps the row good (decide).
LEMMA DecideIsGood ==
    ASSUME NEW row, GoodRow(row), NEW d, NEW consumed, NEW at \in Nat,
           d.action \in {"approve", "deny"},
           d.actor \in Actor \cup {None},
           d.nonce \in Nonce \cup {None},
           d.note \in Note \cup {None, TooLong},
           decide_verdict(row, d, consumed).status = 200,
           ~ decide_verdict(row, d, consumed).idem
    PROVE  /\ GoodRow(decide(row, d, at))
           /\ d.nonce \in Nonce
           /\ d.nonce \notin consumed
           /\ row.state = "open"
           /\ decide(row, d, at).version = row.version + 1
           /\ decide(row, d, at).state \in {"approved", "denied"}
           /\ decide(row, d, at).digest = row.digest
           /\ decide(row, d, at).history =
                 Append(row.history, audit_record(row, EventOf(d), d.actor, d.note))
<1> DEFINE e == EventOf(d)
           m == Move(row, e, d.actor, d.note)
           r == decide(row, d, at)
<1>1. /\ d.note # TooLong /\ d.actor # None /\ d.nonce # None
      /\ d.nonce \notin consumed
      /\ ~ (d.action = "deny" /\ d.note = None)
      /\ Rule(row.state, e) # NoRule
  BY DEF decide_verdict, Verdict
<1>2. e \in {"decide-approve", "decide-deny"} /\ e \in Event
  BY DEF EventOf, Event
<1>3. e = "decide-deny" => d.note # None
  BY <1>1 DEF EventOf
<1>4. /\ row.state = "open" /\ Rule(row.state, e) \in {"approved", "denied"}
  BY <1>1, <1>2 DEF Rule, NoRule
<1>5. /\ d.actor \in Actor \cup {None} /\ d.note \in Note \cup {None}
      /\ d.nonce \in Nonce /\ row \in Row
  BY <1>1 DEF GoodRow
<1> HIDE DEF e
<1>6. /\ m \in Row
      /\ m.state = Rule(row.state, e)
      /\ m.version = row.version + 1
      /\ m.history = Append(row.history, audit_record(row, e, d.actor, d.note))
      /\ m.profile = row.profile /\ m.digest = row.digest
      /\ m.nonces = row.nonces /\ m.until = row.until
  BY <1>1, <1>2, <1>5, MoveFields
<1> HIDE DEF m
<1>7. r = [m EXCEPT !.nonces = m.nonces \cup {d.nonce},
                    !.until = IF m.state = "denied" THEN at + Window ELSE m.until]
  BY Zenon DEF decide, m, e
<1>8. m.nonces \cup {d.nonce} \in SUBSET Nonce
  BY <1>5, <1>6 DEF Row
<1>9. (IF m.state = "denied" THEN at + Window ELSE m.until) \in Nat
  BY <1>6, WindowAssumption DEF Row
<1>10. r \in Row
  <2> DEFINE ns == m.nonces \cup {d.nonce}
             u  == IF m.state = "denied" THEN at + Window ELSE m.until
  <2>1. r = [m EXCEPT !.nonces = ns, !.until = u]
    BY <1>7, Zenon
  <2> HIDE DEF ns, u, r
  <2>2. ns \in SUBSET Nonce /\ u \in Nat
    BY <1>8, <1>9 DEF ns, u
  <2>3. [m EXCEPT !.nonces = ns, !.until = u] \in Row
    BY <1>6, <2>2, Zenon DEF Row
  <2> QED BY <2>1, <2>3
<1>11. /\ r.state = m.state /\ r.version = m.version /\ r.history = m.history
       /\ r.profile = m.profile /\ r.digest = m.digest
  BY <1>6, <1>7 DEF Row
<1>12. row.digest = None
  BY <1>4, NoneAssumption DEF GoodRow, EvidenceFits
<1> HIDE DEF r
<1>13. GoodRow(r)
  BY <1>1, <1>2, <1>3, <1>4, <1>5, <1>6, <1>10, <1>11, <1>12, AppliedIsGood
<1> QED BY <1>1, <1>4, <1>5, <1>6, <1>11, <1>13 DEF r, e

\* An accepted builder report keeps the row good (report_build).
LEMMA ReportBuildIsGood ==
    ASSUME NEW row, GoodRow(row), NEW b,
           b.digest \in Digest \cup {None},
           b.note \in Note \cup {None, TooLong},
           report_verdict(row, b).status = 200
    PROVE  /\ GoodRow(report_build(row, b))
           /\ BuildEvent(b) \in Event
           /\ row.state \in {"approved", "built"}
           /\ report_build(row, b).version = row.version + 1
           /\ report_build(row, b).digest = b.digest
           /\ report_build(row, b).state = Rule(row.state, BuildEvent(b))
           /\ report_build(row, b).history =
                 Append(row.history, audit_record(row, BuildEvent(b), None, b.note))
<1> DEFINE e == BuildEvent(b)
           m == Move(row, e, None, b.note)
           r == report_build(row, b)
<1>1. /\ b.note # TooLong
      /\ Rule(row.state, e) # NoRule
      /\ b.digest # None => row.profile # None
  BY DEF report_verdict, Verdict
<1>2. e \in {"report-built", "build-failed"} /\ e \in Event
  BY DEF BuildEvent, Event
<1>3. /\ b.digest = None => e = "build-failed"
      /\ b.digest # None => e = "report-built"
  BY DEF BuildEvent
<1>4. /\ row.state \in {"approved", "built"}
      /\ e = "build-failed" => Rule(row.state, e) = "open"
      /\ e = "report-built" => Rule(row.state, e) = "built"
  BY <1>1, <1>2 DEF Rule, NoRule
<1>5. row \in Row /\ b.note \in Note \cup {None} /\ None \in Actor \cup {None}
  BY <1>1 DEF GoodRow
<1> HIDE DEF e
<1>6. /\ m \in Row
      /\ m.state = Rule(row.state, e)
      /\ m.version = row.version + 1
      /\ m.history = Append(row.history, audit_record(row, e, None, b.note))
      /\ m.profile = row.profile
  BY <1>1, <1>2, <1>5, MoveFields
<1> HIDE DEF m
<1>7. r = [m EXCEPT !.digest = b.digest]
  BY DEF report_build, m, e
<1>8. /\ r \in Row /\ r.state = m.state /\ r.version = m.version
      /\ r.history = m.history /\ r.profile = m.profile /\ r.digest = b.digest
  BY <1>6, <1>7, SMTT(30) DEF Row
<1> HIDE DEF r
<1>9. /\ r.digest # None => r.state \in {"built", "fulfilled"}
      /\ r.state = "fulfilled" => r.digest # None
      /\ r.state \in {"built", "fulfilled"} => r.profile # None
  BY <1>1, <1>2, <1>3, <1>4, <1>6, <1>8
<1>10. /\ e # "decide-approve" /\ e # "decide-deny"
       /\ r.state = Rule(row.state, e)
       /\ r.version = row.version + 1
       /\ r.history = Append(row.history, audit_record(row, e, None, b.note))
  BY <1>2, <1>6, <1>8
<1>11. GoodRow(r)
  <2> DEFINE a == None
             n == b.note
  <2>1. /\ a \in Actor \cup {None} /\ n \in Note \cup {None}
        /\ r.history = Append(row.history, audit_record(row, e, a, n))
    BY <1>5, <1>10
  <2> HIDE DEF a, n
  <2>2. /\ Rule(row.state, e) # NoRule /\ e \in Event /\ r \in Row
        /\ r.state = Rule(row.state, e) /\ r.version = row.version + 1
    BY <1>1, <1>2, <1>8, <1>10
  <2>3. /\ e \in {"decide-approve", "decide-deny"} => a # None
        /\ e = "decide-deny" => n # None
    BY <1>10
  <2> QED BY ONLY GoodRow(row), <1>9, <2>1, <2>2, <2>3, AppliedIsGood
<1> QED BY <1>2, <1>4, <1>6, <1>8, <1>11 DEF r, e

\* A heartbeat leaves every row of its lane good: it opens it, converges it,
\* gives up its dead wait, reopens it or leaves it (record_gap_report,
\* note_lane_evidence).  It converges a row only on the awaited digest.
LEMMA HeartbeatRowIsGood ==
    ASSUME NEW row, GoodRow(row), NEW tool, NEW gap, NEW probe_complete,
           NEW profile \in Profile \cup {None},
           NEW reported \in Digest \cup {None}
    PROVE  GoodRow(HeartbeatRow(row, tool, profile, reported, gap, probe_complete))
<1> DEFINE q == record_gap_report(row, tool, gap, profile)
           r == note_lane_evidence(q, tool, reported, gap, probe_complete)
<1> SUFFICES GoodRow(r)
  BY DEF HeartbeatRow
<1>1. GoodRow(q)
  BY NewRowIsGood DEF record_gap_report
<1> HIDE DEF q
<1>2. ASSUME NEW e \in {"converge", "gap-regressed"}, Rule(q.state, e) # NoRule
      PROVE  LET m == Move(q, e, None, None)
             IN /\ m \in Row
                /\ m.state = Rule(q.state, e)
                /\ m.version = q.version + 1
                /\ m.history = Append(q.history, audit_record(q, e, None, None))
                /\ m.profile = q.profile /\ m.digest = q.digest
  <2>1. q \in Row /\ e \in Event
    BY <1>1 DEF GoodRow, Event
  <2> QED BY <1>2, <2>1, MoveFields
<1>3. CASE q.state = "built"
  <2>1. r = _converge_or_clear(q, tool, reported, gap, probe_complete)
    BY <1>3 DEF note_lane_evidence
  <2>2. CASE r = q
    BY <2>2, <1>1
  <2>3. CASE r = [q EXCEPT !.digest = None, !.cleared = reported]
    <3>1. [q EXCEPT !.digest = None, !.cleared = reported] \in Row
      <4>1. q \in Row /\ None \in Digest \cup {None}
        BY <1>1 DEF GoodRow
      <4> QED BY <4>1, Zenon DEF Row
    <3>2. /\ r.state = q.state /\ r.version = q.version /\ r.digest = None
          /\ r.history = q.history /\ r.profile = q.profile
      BY <2>3, <1>1 DEF GoodRow, Row
    <3> HIDE DEF r
    <3> QED BY <3>1, <3>2, <2>3, <1>1, <1>3, AnnotatedIsGood
  <2>4. CASE /\ q.digest # None /\ reported = q.digest
             /\ r = [Move(q, "converge", None, None) EXCEPT !.cleared = None]
    <3> DEFINE m == Move(q, "converge", None, None)
    <3>1. Rule(q.state, "converge") = "fulfilled" /\ "fulfilled" # NoRule
      BY <1>3 DEF Rule, NoRule
    <3>2. /\ m \in Row /\ m.state = "fulfilled" /\ m.version = q.version + 1
          /\ m.history = Append(q.history, audit_record(q, "converge", None, None))
          /\ m.profile = q.profile /\ m.digest = q.digest
      BY <3>1, <1>2
    <3> HIDE DEF m, r
    <3>3. /\ r \in Row /\ r.state = m.state /\ r.version = m.version
          /\ r.history = m.history /\ r.profile = m.profile /\ r.digest = m.digest
      BY <3>2, <2>4 DEF Row, m
    <3>4. q.profile # None
      BY <1>1, <1>3 DEF GoodRow, EvidenceFits
    <3>5. "converge" \in Event /\ None \in Actor \cup {None} /\ None \in Note \cup {None}
      BY DEF Event
    <3>6. /\ r.state = Rule(q.state, "converge") /\ r.version = q.version + 1
          /\ r.history = Append(q.history, audit_record(q, "converge", None, None))
          /\ r.digest # None /\ r.state = "fulfilled" /\ r.profile # None
      BY <3>1, <3>2, <3>3, <3>4, <2>4
    <3> QED BY ONLY <1>1, <3>1, <3>3, <3>5, <3>6, AppliedIsGood
  <2> QED BY <2>1, <2>2, <2>3, <2>4 DEF _converge_or_clear
<1>4. CASE q.state = "fulfilled"
  <2>1. r = _regress_if_reported(q, tool, gap)
    BY <1>4 DEF note_lane_evidence
  <2>2. CASE r = q
    BY <2>2, <1>1
  <2>3. CASE r = [Move(q, "gap-regressed", None, None) EXCEPT !.digest = None]
    <3> DEFINE m == Move(q, "gap-regressed", None, None)
    <3>1. Rule(q.state, "gap-regressed") = "open" /\ "open" # NoRule
      BY <1>4 DEF Rule, NoRule
    <3>2. /\ m \in Row /\ m.state = "open" /\ m.version = q.version + 1
          /\ m.history = Append(q.history, audit_record(q, "gap-regressed", None, None))
          /\ m.profile = q.profile
      BY <3>1, <1>2
    <3> HIDE DEF m, r
    <3>3. /\ r \in Row /\ r.state = m.state /\ r.version = m.version
          /\ r.history = m.history /\ r.digest = None
      BY <3>2, <2>3 DEF Row, m
    <3>4. "gap-regressed" \in Event /\ None \in Actor \cup {None} /\ None \in Note \cup {None}
      BY DEF Event
    <3> QED BY <3>1, <3>2, <3>3, <3>4, <1>1, AppliedIsGood
  <2> QED BY <2>1, <2>2, <2>3 DEF _regress_if_reported
<1>5. CASE q.state \notin {"built", "fulfilled"}
  BY <1>1, <1>5 DEF note_lane_evidence
<1> QED BY <1>3, <1>4, <1>5

-----------------------------------------------------------------------------
(***************************************************************************)
(* Documents of good rows, and the handlers that write them.               *)
(***************************************************************************)
GoodDoc(doc) == doc \in Document /\ \A k \in Key : GoodRow(doc.rows[k])

\* /enroll, /revoke, /heartbeat, /toolchain/decide, /toolchain/build-report,
\* a profile assignment and a restart each write a good document.
LEMMA EnrollDocIsGood ==
    ASSUME NEW doc, GoodDoc(doc), NEW l \in Lane, NEW t, NEW h \in Hbt
    PROVE  GoodDoc(EnrollDoc(doc, l, t, h))
<1> DEFINE T == doc.tokens \ {t}
           q == [Unknown EXCEPT !.status = "enrolled", !.tok = h]
           Q == [doc.runners EXCEPT ![l] = q]
           d == EnrollDoc(doc, l, t, h)
<1>1. q \in Runner
  BY DEF Unknown, Runner
<1>2. doc \in Document /\ T \in SUBSET Token /\ Q \in [Lane -> Runner]
  BY <1>1 DEF GoodDoc, Document
<1>3. d = [doc EXCEPT !.tokens = T, !.runners = Q]
  BY DEF EnrollDoc
<1> HIDE DEF T, Q
<1>4. [doc EXCEPT !.tokens = T, !.runners = Q] \in Document
  BY <1>2, Zenon DEF Document
<1>5. [doc EXCEPT !.tokens = T, !.runners = Q].rows = doc.rows
  BY <1>2 DEF Document
<1> QED BY <1>3, <1>4, <1>5 DEF GoodDoc

\* /revoke keeps the registry a document of good rows (Registry.revoke).
LEMMA RevokeDocIsGood ==
    ASSUME NEW doc, GoodDoc(doc), NEW l \in Lane
    PROVE  GoodDoc(RevokeDoc(doc, l))
<1> DEFINE q == [doc.runners[l] EXCEPT !.status = "revoked", !.tok = None]
           Q == [doc.runners EXCEPT ![l] = q]
           d == RevokeDoc(doc, l)
<1>1. q \in Runner
  BY Zenon DEF GoodDoc, Document, Runner
<1>2. doc \in Document /\ Q \in [Lane -> Runner]
  BY <1>1 DEF GoodDoc, Document
<1>3. d = [doc EXCEPT !.runners = Q]
  BY DEF RevokeDoc
<1> HIDE DEF Q
<1>4. [doc EXCEPT !.runners = Q] \in Document
  BY <1>2, Zenon DEF Document
<1>5. [doc EXCEPT !.runners = Q].rows = doc.rows
  BY <1>2 DEF Document
<1> QED BY <1>3, <1>4, <1>5 DEF GoodDoc

\* /heartbeat keeps the registry a document of good rows (Registry.heartbeat).
LEMMA HeartbeatDocIsGood ==
    ASSUME NEW doc, GoodDoc(doc), NEW l \in Lane,
           NEW dig \in Digest \cup {None, Unreported}, NEW gap,
           NEW probe_complete
    PROVE  GoodDoc(HeartbeatDoc(doc, l, dig, gap, probe_complete))
<1> DEFINE rep == IF dig = Unreported THEN doc.runners[l].image ELSE dig
           q == [doc.runners[l] EXCEPT !.image = rep]
           Q == [doc.runners EXCEPT ![l] = q]
           R == [k \in Key |->
                    IF k[1] = l
                    THEN HeartbeatRow(doc.rows[k], k[2], doc.runners[l].profile,
                                      rep, gap, probe_complete)
                    ELSE doc.rows[k]]
           d == HeartbeatDoc(doc, l, dig, gap, probe_complete)
<1>1. rep \in Digest \cup {None} /\ doc.runners[l].profile \in Profile \cup {None}
  BY DEF GoodDoc, Document, Runner
<1>2. d = [doc EXCEPT !.runners = Q, !.rows = R]
  BY DEF HeartbeatDoc, GoodDoc, Document
<1> HIDE DEF rep
<1>3. q \in Runner
  BY <1>1 DEF GoodDoc, Document, Runner
<1>4. doc \in Document /\ Q \in [Lane -> Runner]
  BY <1>3 DEF GoodDoc, Document
<1>5. ASSUME NEW k \in Key PROVE GoodRow(R[k])
  <2>1. GoodRow(doc.rows[k])
    BY DEF GoodDoc
  <2>2. GoodRow(HeartbeatRow(doc.rows[k], k[2], doc.runners[l].profile,
                             rep, gap, probe_complete))
    BY <1>1, <2>1, HeartbeatRowIsGood
  <2> QED BY <2>1, <2>2
<1>6. R \in [Key -> Row]
  BY <1>5 DEF GoodRow
<1> HIDE DEF Q, R
<1>7. [doc EXCEPT !.runners = Q, !.rows = R] \in Document
  BY <1>4, <1>6, Zenon DEF Document
<1>8. [doc EXCEPT !.runners = Q, !.rows = R].rows = R
  BY <1>4 DEF Document
<1> QED BY <1>2, <1>5, <1>7, <1>8 DEF GoodDoc

\* One row and the consumed nonces replaced: what a decision and a builder
\* report write (decide_request, report_build).
LEMMA RowDocIsGood ==
    ASSUME NEW doc, GoodDoc(doc), NEW k \in Key, NEW r, GoodRow(r),
           NEW C \in SUBSET Nonce
    PROVE  /\ GoodDoc([doc EXCEPT !.rows[k] = r])
           /\ GoodDoc([doc EXCEPT !.rows[k] = r, !.consumed = C])
<1> DEFINE R == [doc.rows EXCEPT ![k] = r]
<1>1. doc \in Document /\ R \in [Key -> Row] /\ \A j \in Key : GoodRow(R[j])
  BY DEF GoodDoc, Document, GoodRow
<1> HIDE DEF R
<1>2. /\ [doc EXCEPT !.rows = R] \in Document
      /\ [doc EXCEPT !.rows = R, !.consumed = C] \in Document
  BY <1>1, Zenon DEF Document
<1>3. /\ [doc EXCEPT !.rows = R].rows = R
      /\ [doc EXCEPT !.rows = R, !.consumed = C].rows = R
  BY <1>1 DEF Document
<1>4. /\ [doc EXCEPT !.rows[k] = r] = [doc EXCEPT !.rows = R]
      /\ [doc EXCEPT !.rows[k] = r, !.consumed = C]
            = [doc EXCEPT !.rows = R, !.consumed = C]
  BY DEF R
<1> QED BY <1>1, <1>2, <1>3, <1>4 DEF GoodDoc

\* A decision that is answered 200 writes a good document (decide_request).
LEMMA DecideDocIsGood ==
    ASSUME NEW doc, GoodDoc(doc), NEW k \in Key, NEW d, NEW at \in Nat,
           d.action \in {"approve", "deny"},
           d.actor \in Actor \cup {None},
           d.nonce \in Nonce \cup {None},
           d.note \in Note \cup {None, TooLong},
           doc.rows[k].state # "absent",
           NEW v, v = decide_verdict(doc.rows[k], d, doc.consumed),
           v.status = 200, v.idem \in BOOLEAN
    PROVE  GoodDoc(DecideDoc(doc, k, d, v, at))
<1> DEFINE row == IF v.idem THEN doc.rows[k] ELSE decide(doc.rows[k], d, at)
           ns  == row.nonces \cup ({d.nonce} \ {None})
           r   == [row EXCEPT !.nonces = ns]
           C   == IF v.idem THEN doc.consumed ELSE doc.consumed \cup {d.nonce}
<1>1. GoodRow(doc.rows[k]) /\ doc.consumed \in SUBSET Nonce
  BY DEF GoodDoc, Document
<1>2. GoodRow(row) /\ C \in SUBSET Nonce /\ row.state # "absent"
  <2>1. CASE v.idem
    BY <1>1, <2>1
  <2>2. CASE ~v.idem
    BY <1>1, <2>2, DecideIsGood
  <2> QED BY <2>1, <2>2
<1>3. DecideDoc(doc, k, d, v, at) = [doc EXCEPT !.rows[k] = r, !.consumed = C]
  BY DEF DecideDoc
<1> HIDE DEF row, C
<1>4. ns \in SUBSET Nonce
  BY <1>2 DEF GoodRow, Row
<1>5. /\ r \in Row /\ r.state = row.state /\ r.version = row.version
      /\ r.history = row.history /\ r.profile = row.profile
      /\ r.digest = row.digest
  BY <1>2, <1>4 DEF GoodRow, Row
<1> HIDE DEF r
<1>6. GoodRow(r)
  BY <1>2, <1>5, AnnotatedIsGood
<1>7. GoodDoc([doc EXCEPT !.rows[k] = r, !.consumed = C])
  <2>1. GoodDoc(doc) /\ k \in Key /\ GoodRow(r) /\ C \in SUBSET Nonce
    BY <1>2, <1>6
  <2> QED BY ONLY <2>1, RowDocIsGood
<1> QED BY <1>3, <1>7

-----------------------------------------------------------------------------
(***************************************************************************)
(* The inductive invariant.  Nothing weaker is inductive: that the history *)
(* explains a row needs its type, and that the evidence fits needs that a  *)
(* row which is open carries none.                                         *)
(***************************************************************************)
IInv ==
    /\ GoodDoc(mem) /\ GoodDoc(disk)
    /\ now \in Nat
    /\ held \in [Lane -> Hbt \cup {None}]
    /\ acked \subseteq Acked
    /\ call \in Call

\* The invariant is what the three properties say together.
LEMMA IInvImplies ==
    ASSUME IInv PROVE TypeOK /\ AuditReplays /\ EvidenceMatchesState
BY DEF IInv, GoodDoc, GoodRow, TypeOK, AuditReplays, EvidenceMatchesState

\* Whatever a handler's result is, with_registry leaves memory with the
\* result's document and the file with it or with its own.
LEMMA WithRegistryKeeps ==
    ASSUME IInv, NEW res, GoodDoc(res.doc), res.call \in Call,
           res.ack \subseteq Acked, with_registry(res)
    PROVE  /\ GoodDoc(mem') /\ GoodDoc(disk') /\ now' \in Nat
           /\ acked' \subseteq Acked /\ call' \in Call
<1>1. GoodDoc(mem') /\ now' \in Nat
  BY DEF IInv, with_registry
<1>2. CASE Answered(res)
  <2>1. ASSUME NEW c \in Call, NEW b \in BOOLEAN
        PROVE  [c EXCEPT !.answered = b] \in Call
    BY DEF Call
  <2>2. [res.call EXCEPT !.answered = TRUE] \in Call
    BY <2>1, TRUE \in BOOLEAN
  <2> QED BY <1>1, <1>2, <2>2 DEF IInv, Answered
<1>3. CASE AnswerLost(res)
  BY <1>1, <1>3 DEF IInv, AnswerLost
<1>4. CASE SaveFailed(res)
  BY <1>1, <1>4 DEF IInv, SaveFailed
<1> QED BY <1>2, <1>3, <1>4 DEF with_registry

\* A refusal leaves the invariant alone.
LEMMA RefuseKeeps ==
    ASSUME IInv, NEW c, NEW status, NEW save,
           [c EXCEPT !.status = status] \in Call,
           with_registry(Refuse(c, status, save))
    PROVE  /\ GoodDoc(mem') /\ GoodDoc(disk') /\ now' \in Nat
           /\ acked' \subseteq Acked /\ call' \in Call
<1> DEFINE res == Refuse(c, status, save)
<1>1. /\ res.doc = mem /\ res.ack = {} /\ res.call = [c EXCEPT !.status = status]
  BY DEF Refuse
<1>2. GoodDoc(res.doc) /\ res.call \in Call /\ res.ack \subseteq Acked
  BY <1>1 DEF IInv
<1> HIDE DEF res
<1>3. with_registry(res)
  BY DEF res
<1> QED BY <1>2, <1>3, WithRegistryKeeps

\* The verdicts of decide() and report_build() are statuses the hub sends and
\* names of audit entries.
LEMMA VerdictTypes ==
    ASSUME NEW row, NEW d, NEW consumed
    PROVE  /\ decide_verdict(row, d, consumed).status \in {200, 400, 401, 403, 409}
           /\ decide_verdict(row, d, consumed).audit \in AuditName
           /\ decide_verdict(row, d, consumed).idem \in BOOLEAN
           /\ report_verdict(row, d).status \in {200, 400, 401, 403, 409}
           /\ report_verdict(row, d).audit \in AuditName
<1>1. EventOf(d) \in AuditName /\ BuildEvent(d) \in AuditName
  BY DEF EventOf, BuildEvent, AuditName, Event
<1>2. /\ decide_verdict(row, d, consumed).status \in {200, 400, 401, 403, 409}
      /\ report_verdict(row, d).status \in {200, 400, 401, 403, 409}
  BY DEF decide_verdict, report_verdict, Verdict
<1>3. decide_verdict(row, d, consumed).audit \in AuditName
  BY <1>1 DEF decide_verdict, Verdict, AuditName
<1>4. report_verdict(row, d).audit \in AuditName
  BY <1>1 DEF report_verdict, Verdict, AuditName
<1>5. decide_verdict(row, d, consumed).idem \in BOOLEAN
  BY Zenon DEF decide_verdict, Verdict
<1> QED BY <1>2, <1>3, <1>4, <1>5

\* The record of a request: its fields, given the operation.
LEMMA CallType ==
    ASSUME NEW op \in {"start", "restart", "profile", "tick", "enroll",
                       "heartbeat", "revoke", "decide", "build"}
    PROVE  NoCall(op) \in Call
<1>1. FALSE \in BOOLEAN /\ {} \in SUBSET Tool /\ "none" \in AuditName
  BY DEF AuditName
<1> QED BY <1>1, ZenonT(60) DEF NoCall, Call

\* One field of such a record replaced.
LEMMA CallFields ==
    ASSUME NEW c \in Call, NEW x
    PROVE  /\ x \in Lane => [c EXCEPT !.lane = x] \in Call
           /\ x \in Tool => [c EXCEPT !.tool = x] \in Call
           /\ x \in Nonce \cup {None} => [c EXCEPT !.nonce = x] \in Call
           /\ x \in {0, 200, 400, 401, 403, 404, 409}
                 => [c EXCEPT !.status = x] \in Call
           /\ x \in AuditName => [c EXCEPT !.audit = x] \in Call
           /\ x \in BOOLEAN => [c EXCEPT !.idem = x] \in Call
           /\ x \in SUBSET Tool => [c EXCEPT !.clean = x] \in Call
BY DEF Call

\* No row at all is a good row.
LEMMA NoRowIsGood == GoodRow(NoRow)
<1>1. <<>> \in Seq(Entry) /\ Len(<<>>) = 0
  BY EmptySeq
<1>2. NoRow \in Row
  BY <1>1 DEF NoRow, Row
<1>3. NoRow.state = "absent" /\ NoRow.digest = None /\ Len(NoRow.history) = 0
  BY <1>1 DEF NoRow
<1>4. HistoryExplains(NoRow)
  BY <1>3 DEF HistoryExplains
<1>5. EvidenceFits(NoRow)
  BY <1>3 DEF EvidenceFits
<1> QED BY <1>2, <1>4, <1>5 DEF GoodRow

\* The registry a hub starts with is good (Registry.__init__).
LEMMA InitIInv == Init => IInv
<1> SUFFICES ASSUME Init PROVE IInv
  OBVIOUS
<1> PICK hbt \in [Enrolled0 -> Hbt], prof \in [Enrolled0 -> Profile \cup {None}] :
          /\ mem = [tokens |-> Token,
                    runners |-> [l \in Lane |->
                        IF l \in Enrolled0
                        THEN [Unknown EXCEPT !.status = "enrolled",
                                             !.tok = hbt[l], !.profile = prof[l]]
                        ELSE Unknown],
                    rows |-> [k \in Key |-> NoRow],
                    consumed |-> {}]
          /\ held = [l \in Lane |-> IF l \in Enrolled0 THEN hbt[l] ELSE None]
  BY DEF Init
<1>1. GoodRow(NoRow)
  BY NoRowIsGood
<1>2. mem.runners \in [Lane -> Runner]
  BY DEF Unknown, Runner
<1>3. /\ mem.rows = [k \in Key |-> NoRow] /\ mem.consumed = {}
      /\ mem.tokens = Token
      /\ mem = [tokens |-> mem.tokens, runners |-> mem.runners,
                rows |-> mem.rows, consumed |-> mem.consumed]
  OBVIOUS
<1>4. mem.rows \in [Key -> Row]
  BY <1>1, <1>3 DEF GoodRow
<1>5. GoodDoc(mem)
  BY <1>1, <1>2, <1>3, <1>4 DEF GoodDoc, Document
<1>6. held \in [Lane -> Hbt \cup {None}]
  OBVIOUS
<1>7. call \in Call
  BY CallType DEF Init
<1> QED BY <1>5, <1>6, <1>7 DEF Init, IInv

LEMMA EnrollKeeps ==
    ASSUME IInv, NEW l \in Lane, NEW t, Enroll(l, t) PROVE IInv'
<1>1. CASE EnrollRefused(l, t)
  <2> DEFINE c == [NoCall("enroll") EXCEPT !.lane = l]
  <2>1. /\ [c EXCEPT !.status = 409] \in Call
        /\ [c EXCEPT !.status = 401] \in Call
    <3>1. NoCall("enroll") \in Call
      BY CallType
    <3>2. c \in Call
      BY <3>1, CallFields, Zenon
    <3> HIDE DEF c
    <3> QED BY <3>2 DEF Call
  <2> HIDE DEF c
  <2>2. \/ with_registry(Refuse(c, 409, FALSE))
        \/ with_registry(Refuse(c, 401, FALSE))
    BY <1>1 DEF EnrollRefused, c
  <2>3. held' = held
    BY <1>1 DEF EnrollRefused
  <2>4. /\ GoodDoc(mem') /\ GoodDoc(disk') /\ now' \in Nat
        /\ acked' \subseteq Acked /\ call' \in Call
    BY <2>1, <2>2, RefuseKeeps, ZenonT(60)
  <2> QED BY <2>3, <2>4 DEF IInv
<1>2. CASE EnrollAccepted(l, t)
  <2> PICK h \in FreshHbt :
          /\ with_registry([doc |-> EnrollDoc(mem, l, t, h), save |-> TRUE,
                            ack |-> {},
                            call |-> [NoCall("enroll") EXCEPT !.lane = l,
                                                             !.status = 200]])
          /\ held' = IF call'.answered THEN [held EXCEPT ![l] = h] ELSE held
    BY <1>2 DEF EnrollAccepted
  <2> DEFINE res == [doc |-> EnrollDoc(mem, l, t, h), save |-> TRUE, ack |-> {},
                     call |-> [NoCall("enroll") EXCEPT !.lane = l, !.status = 200]]
  <2>1. h \in Hbt
    BY DEF FreshHbt
  <2>2. GoodDoc(res.doc)
    BY <2>1, EnrollDocIsGood DEF IInv
  <2>3. res.call \in Call /\ res.ack \subseteq Acked
    <3>1. NoCall("enroll") \in Call
      BY CallType
    <3>2. [NoCall("enroll") EXCEPT !.lane = l] \in Call
      BY <3>1, CallFields, Zenon
    <3> QED BY <3>2, CallFields, ZenonT(60)
  <2>4. with_registry(res)
    OBVIOUS
  <2> HIDE DEF res
  <2>5. /\ GoodDoc(mem') /\ GoodDoc(disk') /\ now' \in Nat
        /\ acked' \subseteq Acked /\ call' \in Call
    BY <2>2, <2>3, <2>4, WithRegistryKeeps
  <2>6. held' \in [Lane -> Hbt \cup {None}]
    BY <2>1 DEF IInv
  <2> QED BY <2>5, <2>6 DEF IInv
<1> QED BY <1>1, <1>2 DEF Enroll

LEMMA RevokeKeeps ==
    ASSUME IInv, NEW l \in Lane, NEW h, Revoke(l, h) PROVE IInv'
<1> DEFINE c == [NoCall("revoke") EXCEPT !.lane = l]
           res == [doc |-> RevokeDoc(mem, l), save |-> TRUE,
                   ack |-> {[revoked |-> l]}, call |-> [c EXCEPT !.status = 200]]
<1>1. c \in Call
  <2>1. NoCall("revoke") \in Call
    BY CallType
  <2> QED BY <2>1, CallFields, Zenon
<1>2. held' = held /\ (with_registry(res) \/ with_registry(Refuse(c, 401, FALSE)))
  BY DEF Revoke
<1> HIDE DEF c
<1>3. [c EXCEPT !.status = 401] \in Call /\ [c EXCEPT !.status = 200] \in Call
  BY <1>1 DEF Call
<1>4. GoodDoc(res.doc) /\ res.call \in Call /\ res.ack \subseteq Acked
  <2>1. GoodDoc(RevokeDoc(mem, l))
    BY RevokeDocIsGood DEF IInv
  <2> QED BY <1>3, <2>1 DEF Acked
<1> HIDE DEF res
<1>5. CASE with_registry(res)
  BY <1>2, <1>4, <1>5, WithRegistryKeeps DEF IInv
<1>6. CASE with_registry(Refuse(c, 401, FALSE))
  <2>1. /\ GoodDoc(mem') /\ GoodDoc(disk') /\ now' \in Nat
        /\ acked' \subseteq Acked /\ call' \in Call
    BY <1>3, <1>6, RefuseKeeps, ZenonT(60)
  <2> QED BY <1>2, <2>1 DEF IInv
<1> QED BY <1>2, <1>5, <1>6

LEMMA HeartbeatKeeps ==
    ASSUME IInv, NEW l \in Lane, NEW h,
           NEW dig \in Digest \cup {None, Unreported}, NEW gap, NEW p \in BOOLEAN,
           Heartbeat(l, h, dig, gap, p)
    PROVE  IInv'
<1> DEFINE clean == IF p /\ gap.kind = "list" THEN Tool \ gap.tools ELSE {}
           b == [NoCall("heartbeat") EXCEPT !.lane = l]
           c == [NoCall("heartbeat") EXCEPT !.lane = l, !.clean = clean]
           n == [c EXCEPT !.clean = {}]
           res == [doc |-> HeartbeatDoc(mem, l, dig, gap, p), save |-> TRUE,
                   ack |-> {}, call |-> [c EXCEPT !.status = 200]]
<1>1. b \in Call
  <2>1. NoCall("heartbeat") \in Call
    BY CallType
  <2> QED BY <2>1, CallFields, Zenon
<1>2. clean \in SUBSET Tool
  OBVIOUS
<1>3. c = [b EXCEPT !.clean = clean]
  BY Zenon
<1>4. held' = held /\ (with_registry(res) \/ with_registry(Refuse(n, 401, FALSE)))
  BY DEF Heartbeat
<1> HIDE DEF b, clean, c, n
<1>5. c \in Call
  BY <1>1, <1>2, <1>3, CallFields, Zenon
<1>6. n \in Call
  BY <1>5, CallFields, Zenon DEF n
<1>7. [n EXCEPT !.status = 401] \in Call /\ [c EXCEPT !.status = 200] \in Call
  BY <1>5, <1>6 DEF Call
<1>8. GoodDoc(res.doc) /\ res.call \in Call /\ res.ack \subseteq Acked
  <2>1. GoodDoc(HeartbeatDoc(mem, l, dig, gap, p))
    BY HeartbeatDocIsGood DEF IInv
  <2> QED BY <1>7, <2>1
<1> HIDE DEF res
<1>9. CASE with_registry(res)
  BY <1>4, <1>8, <1>9, WithRegistryKeeps DEF IInv
<1>10. CASE with_registry(Refuse(n, 401, FALSE))
  <2>1. /\ GoodDoc(mem') /\ GoodDoc(disk') /\ now' \in Nat
        /\ acked' \subseteq Acked /\ call' \in Call
    BY <1>7, <1>10, RefuseKeeps, ZenonT(60)
  <2> QED BY <1>4, <2>1 DEF IInv
<1> QED BY <1>4, <1>9, <1>10

\* What a decision or a builder report may carry: the requests of Next.
LEMMA RequestTypes ==
    ASSUME NEW k \in Key
    PROVE  /\ \A d \in OperatorDecision(k) \cup BadDecision(k) :
                 /\ d.action \in {"approve", "deny"}
                 /\ d.actor \in Actor \cup {None}
                 /\ d.nonce \in Nonce \cup {None}
                 /\ d.note \in Note \cup {None, TooLong}
           /\ \A b \in BuilderReport(k) \cup OtherReport(k) :
                 /\ b.digest \in Digest \cup {None}
                 /\ b.note \in Note \cup {None, TooLong}
BY DEF OperatorDecision, BadDecision, BuilderReport, OtherReport

LEMMA DecideKeeps ==
    ASSUME IInv, NEW k \in Key, NEW d \in OperatorDecision(k) \cup BadDecision(k),
           Decide(k, d)
    PROVE  IInv'
<1> DEFINE a == [NoCall("decide") EXCEPT !.lane = k[1]]
           b == [a EXCEPT !.tool = k[2]]
           c == [NoCall("decide") EXCEPT !.lane = k[1], !.tool = k[2],
                                         !.nonce = d.nonce]
           v == decide_verdict(mem.rows[k], d, mem.consumed)
           e == [c EXCEPT !.audit = v.audit]
           f == [c EXCEPT !.status = 200]
           g == [f EXCEPT !.idem = v.idem]
           res == [doc |-> DecideDoc(mem, k, d, v, now), save |-> TRUE,
                   ack |-> DecideAck(k, d, v),
                   call |-> [c EXCEPT !.status = 200, !.idem = v.idem,
                                      !.audit = v.audit]]
<1>1. /\ d.action \in {"approve", "deny"} /\ d.actor \in Actor \cup {None}
      /\ d.nonce \in Nonce \cup {None} /\ d.note \in Note \cup {None, TooLong}
  BY RequestTypes
<1>2. k[1] \in Lane /\ k[2] \in Tool
  BY DEF Key
<1>3. /\ v.status \in {200, 400, 401, 403, 409} /\ v.audit \in AuditName
      /\ v.idem \in BOOLEAN
  BY VerdictTypes
<1>4. /\ held' = held
      /\ \/ with_registry(Refuse(c, 400, FALSE))
         \/ with_registry(Refuse(c, 404, TRUE))
         \/ with_registry(Refuse(e, v.status, TRUE))
         \/ /\ mem.rows[k].state # "absent" /\ v.status = 200
            /\ with_registry(res)
  BY DEF Decide
<1>5. a \in Call
  <2>1. NoCall("decide") \in Call
    BY CallType
  <2> QED BY <1>2, <2>1, CallFields, Zenon
<1>6. c = [b EXCEPT !.nonce = d.nonce]
  BY Zenon
<1>7. res.call = [g EXCEPT !.audit = v.audit]
  BY Zenon
<1> HIDE DEF a, c, v
<1>8. b \in Call
  BY <1>2, <1>5, CallFields, Zenon
<1> HIDE DEF b
<1>9. c \in Call
  BY <1>1, <1>6, <1>8, CallFields, Zenon
<1>10. e \in Call
  BY <1>3, <1>9 DEF Call
<1>11. /\ [c EXCEPT !.status = 400] \in Call
       /\ [c EXCEPT !.status = 404] \in Call /\ f \in Call
  BY <1>9 DEF Call
<1> HIDE DEF e, f
<1>12. [e EXCEPT !.status = v.status] \in Call
  BY <1>3, <1>10 DEF Call
<1>13. g \in Call
  BY <1>3, <1>11 DEF Call
<1> HIDE DEF g
<1>14. res.call \in Call
  <2>1. [g EXCEPT !.audit = v.audit] \in Call
    BY <1>3, <1>13 DEF Call
  <2> QED BY <1>7, <2>1, Zenon
<1>15. CASE \/ with_registry(Refuse(c, 400, FALSE))
            \/ with_registry(Refuse(c, 404, TRUE))
  <2>1. /\ GoodDoc(mem') /\ GoodDoc(disk') /\ now' \in Nat
        /\ acked' \subseteq Acked /\ call' \in Call
    BY <1>11, <1>15, RefuseKeeps, ZenonT(60)
  <2> QED BY <1>4, <2>1 DEF IInv
<1>16. CASE with_registry(Refuse(e, v.status, TRUE))
  <2>1. /\ GoodDoc(mem') /\ GoodDoc(disk') /\ now' \in Nat
        /\ acked' \subseteq Acked /\ call' \in Call
    BY <1>12, <1>16, RefuseKeeps, ZenonT(60)
  <2> QED BY <1>4, <2>1 DEF IInv
<1>17. CASE mem.rows[k].state # "absent" /\ v.status = 200 /\ with_registry(res)
  <2>1. GoodDoc(mem) /\ now \in Nat /\ mem.rows[k].version \in Nat
    BY DEF IInv, GoodDoc, GoodRow, Row
  <2>2. GoodDoc(DecideDoc(mem, k, d, v, now))
    BY <1>1, <1>3, <1>17, <2>1, DecideDocIsGood DEF v
  <2>3. DecideAck(k, d, v) \subseteq Acked
    <3>1. EventOf(d) \in Event
      BY DEF EventOf, Event
    <3>2. mem.rows[k].version + (IF v.idem THEN 0 ELSE 1) \in Nat
      BY <2>1
    <3> QED BY <1>2, <3>1, <3>2 DEF DecideAck, Acked
  <2>4. res.doc = DecideDoc(mem, k, d, v, now) /\ res.ack = DecideAck(k, d, v)
    OBVIOUS
  <2> HIDE DEF res
  <2>5. /\ GoodDoc(mem') /\ GoodDoc(disk') /\ now' \in Nat
        /\ acked' \subseteq Acked /\ call' \in Call
    BY <1>14, <1>17, <2>2, <2>3, <2>4, WithRegistryKeeps
  <2> QED BY <1>4, <2>5 DEF IInv
<1> QED BY <1>4, <1>15, <1>16, <1>17

LEMMA ReportBuildKeeps ==
    ASSUME IInv, NEW k \in Key, NEW b \in BuilderReport(k) \cup OtherReport(k),
           ReportBuild(k, b)
    PROVE  IInv'
<1> DEFINE a == [NoCall("build") EXCEPT !.lane = k[1]]
           c == [NoCall("build") EXCEPT !.lane = k[1], !.tool = k[2]]
           v == report_verdict(mem.rows[k], b)
           n == IF b.class = "absent" THEN 401 ELSE 404
           e == [c EXCEPT !.audit = v.audit]
           f == [c EXCEPT !.status = 200]
           x == [lane |-> k[1], tool |-> k[2], after |-> mem.rows[k].version + 1,
                 event |-> BuildEvent(b)]
           res == [doc |-> [mem EXCEPT !.rows[k] = report_build(mem.rows[k], b)],
                   save |-> TRUE, ack |-> {x},
                   call |-> [c EXCEPT !.status = 200, !.audit = v.audit]]
<1>1. b.digest \in Digest \cup {None} /\ b.note \in Note \cup {None, TooLong}
  BY RequestTypes
<1>2. k[1] \in Lane /\ k[2] \in Tool
  BY DEF Key
<1>3. v.status \in {200, 400, 401, 403, 409} /\ v.audit \in AuditName
  BY VerdictTypes
<1>4. /\ held' = held
      /\ \/ with_registry(Refuse(c, n, TRUE))
         \/ with_registry(Refuse(e, v.status, TRUE))
         \/ v.status = 200 /\ with_registry(res)
  BY DEF ReportBuild
<1>5. a \in Call
  <2>1. NoCall("build") \in Call
    BY CallType
  <2> QED BY <1>2, <2>1, CallFields, Zenon
<1>6. c = [a EXCEPT !.tool = k[2]] /\ res.call = [f EXCEPT !.audit = v.audit]
  BY Zenon
<1>7. n \in {401, 404}
  OBVIOUS
<1> HIDE DEF a, c, v, n
<1>8. c \in Call
  BY <1>2, <1>5, <1>6, CallFields, Zenon
<1>9. e \in Call
  BY <1>3, <1>8 DEF Call
<1>10. [c EXCEPT !.status = n] \in Call /\ f \in Call
  BY <1>7, <1>8 DEF Call
<1> HIDE DEF e, f
<1>11. [e EXCEPT !.status = v.status] \in Call
  BY <1>3, <1>9 DEF Call
<1>12. res.call \in Call
  <2>1. [f EXCEPT !.audit = v.audit] \in Call
    BY <1>3, <1>10 DEF Call
  <2> QED BY <1>6, <2>1, Zenon
<1>13. CASE with_registry(Refuse(c, n, TRUE))
  <2>1. /\ GoodDoc(mem') /\ GoodDoc(disk') /\ now' \in Nat
        /\ acked' \subseteq Acked /\ call' \in Call
    BY <1>10, <1>13, RefuseKeeps, ZenonT(60)
  <2> QED BY <1>4, <2>1 DEF IInv
<1>14. CASE with_registry(Refuse(e, v.status, TRUE))
  <2>1. /\ GoodDoc(mem') /\ GoodDoc(disk') /\ now' \in Nat
        /\ acked' \subseteq Acked /\ call' \in Call
    BY <1>11, <1>14, RefuseKeeps, ZenonT(60)
  <2> QED BY <1>4, <2>1 DEF IInv
<1>15. CASE v.status = 200 /\ with_registry(res)
  <2> DEFINE r == report_build(mem.rows[k], b)
  <2>1. GoodDoc(mem) /\ GoodRow(mem.rows[k]) /\ mem.rows[k].version \in Nat
    BY DEF IInv, GoodDoc, GoodRow, Row
  <2>2. GoodRow(r) /\ BuildEvent(b) \in Event
    BY <1>1, <1>15, <2>1, ReportBuildIsGood DEF v
  <2>3. x \in Acked
    BY <1>2, <2>1, <2>2 DEF Acked
  <2> HIDE DEF r
  <2>4. GoodDoc([mem EXCEPT !.rows[k] = r])
    <3>1. {} \in SUBSET Nonce
      OBVIOUS
    <3> QED BY ONLY <2>1, <2>2, <3>1, k \in Key, RowDocIsGood
  <2>5. res.doc = [mem EXCEPT !.rows[k] = r] /\ res.ack = {x}
    BY DEF r
  <2> HIDE DEF res, x
  <2>6. GoodDoc(res.doc) /\ res.ack \subseteq Acked
    BY <2>3, <2>4, <2>5
  <2>7. /\ GoodDoc(mem') /\ GoodDoc(disk') /\ now' \in Nat
        /\ acked' \subseteq Acked /\ call' \in Call
    BY <1>12, <1>15, <2>6, WithRegistryKeeps
  <2> QED BY <1>4, <2>7 DEF IInv
<1> QED BY <1>4, <1>13, <1>14, <1>15

LEMMA SetLaneProfileKeeps ==
    ASSUME IInv, NEW l \in Lane, NEW p \in Profile \cup {None}, SetLaneProfile(l, p)
    PROVE  IInv'
<1> DEFINE q == [mem.runners[l] EXCEPT !.profile = p]
           Q == [mem.runners EXCEPT ![l] = q]
<1>1. GoodDoc(mem) /\ mem \in Document
  BY DEF IInv, GoodDoc
<1>2. q \in Runner
  BY <1>1 DEF Document, Runner
<1>3. Q \in [Lane -> Runner]
  BY <1>1, <1>2 DEF Document
<1>4. mem' = [mem EXCEPT !.runners = Q]
  BY DEF SetLaneProfile
<1> HIDE DEF Q
<1>5. mem' \in Document /\ mem'.rows = mem.rows
  BY <1>1, <1>3, <1>4 DEF Document
<1>6. GoodDoc(mem')
  BY <1>1, <1>5 DEF GoodDoc
<1>7. call' \in Call
  <2>1. NoCall("profile") \in Call
    BY CallType
  <2>2. [NoCall("profile") EXCEPT !.lane = l] \in Call
    BY <2>1, CallFields, Zenon
  <2> QED BY <2>2 DEF SetLaneProfile
<1> QED BY <1>6, <1>7 DEF SetLaneProfile, IInv

LEMMA RestartKeeps == ASSUME IInv, Restart PROVE IInv'
<1> DEFINE d == load_enrollment_tokens(disk)
           T == disk.tokens \cup Token
<1>1. GoodDoc(disk) /\ disk \in Document
  BY DEF IInv, GoodDoc
<1>2. T \in SUBSET Token
  BY <1>1 DEF Document
<1>3. d = [disk EXCEPT !.tokens = T]
  BY DEF load_enrollment_tokens
<1> HIDE DEF T, d
<1>4. d \in Document /\ d.rows = disk.rows
  BY <1>1, <1>2, <1>3 DEF Document
<1>5. GoodDoc(d)
  BY <1>1, <1>4 DEF GoodDoc
<1>6. GoodDoc(mem') /\ GoodDoc(disk')
  BY <1>5 DEF Restart, d
<1>7. call' \in Call
  BY CallType DEF Restart
<1> QED BY <1>6, <1>7 DEF Restart, IInv

LEMMA TickKeeps == ASSUME IInv, Tick PROVE IInv'
<1>1. call' \in Call
  BY CallType DEF Tick
<1> QED BY <1>1 DEF Tick, IInv

\* Every step of the hub keeps the invariant.
LEMMA NextIInv == IInv /\ [Next]_vars => IInv'
<1> SUFFICES ASSUME IInv, [Next]_vars PROVE IInv'
  OBVIOUS
<1>1. CASE UNCHANGED vars
  BY <1>1 DEF IInv, vars
<1>2. ASSUME NEW l \in Lane, NEW t \in Token \cup {None}, Enroll(l, t)
      PROVE  IInv'
  BY <1>2, EnrollKeeps
<1>3. ASSUME NEW l \in Lane, NEW h \in Hbt \cup {None}, Revoke(l, h)
      PROVE  IInv'
  BY <1>3, RevokeKeeps
<1>4. ASSUME NEW l \in Lane, NEW h \in Hbt \cup {None},
             NEW dig \in Digest \cup {None, Unreported}, NEW gap \in Gap,
             NEW p \in BOOLEAN, Heartbeat(l, h, dig, gap, p)
      PROVE  IInv'
  BY <1>4, HeartbeatKeeps
<1>5. ASSUME NEW l \in Lane, NEW p \in Profile \cup {None}, SetLaneProfile(l, p)
      PROVE  IInv'
  BY <1>5, SetLaneProfileKeeps
<1>6. ASSUME NEW k \in Key, NEW d \in OperatorDecision(k) \cup BadDecision(k),
             Decide(k, d)
      PROVE  IInv'
  BY <1>6, DecideKeeps
<1>7. ASSUME NEW k \in Key, NEW b \in BuilderReport(k) \cup OtherReport(k),
             ReportBuild(k, b)
      PROVE  IInv'
  BY <1>7, ReportBuildKeeps
<1>8. CASE Restart
  BY <1>8, RestartKeeps
<1>9. CASE Tick
  BY <1>9, TickKeeps
<1> QED
  BY <1>1, <1>2, <1>3, <1>4, <1>5, <1>6, <1>7, <1>8, <1>9 DEF Next

-----------------------------------------------------------------------------
(***************************************************************************)
(* The theorems.                                                           *)
(***************************************************************************)

\* Whatever requests arrive, whatever saves fail and answers get lost, the
\* invariant holds.
THEOREM Invariance == Spec => []IInv
BY InitIInv, NextIInv, PTL DEF Spec

\* The hub's state is well typed.
THEOREM TypeCorrect == Spec => []TypeOK
BY Invariance, IInvImplies, PTL

\* The audit trail of every request, in memory and in the file, explains the
\* state it is in (decide, report_build, note_lane_evidence, save and load).
THEOREM AuditTrailExplains == Spec => []AuditReplays
BY Invariance, IInvImplies, PTL

\* No request carries evidence its state does not justify (report_build,
\* _converge_or_clear, _regress_if_reported).
THEOREM EvidenceJustified == Spec => []EvidenceMatchesState
BY Invariance, IInvImplies, PTL

-----------------------------------------------------------------------------
(***************************************************************************)
(* What the hub owes those it answered, for every set of lanes, tools and  *)
(* tokens: an acknowledged decision, build or revocation is in the file, a *)
(* heartbeat token that was handed out works, and nothing one-time is      *)
(* spent without a trace.                                                  *)
(*                                                                         *)
(* Memory may be ahead of the file, after a save that failed, but it is    *)
(* only ever ahead: a handler extends the document it finds in memory, so  *)
(* whichever document is saved next still holds what was acknowledged.     *)
(* While no save fails the file and memory agree on everything the life    *)
(* cycle of a request speaks of, and the hub implements RequestLifecycle.  *)
(***************************************************************************)

Decided == {"decide-approve", "decide-deny"}

\* The history of row b is where that of row a began.
RowExtends(a, b) ==
    /\ Len(b.history) <= Len(a.history)
    /\ \A n \in 1..Len(b.history) : a.history[n] = b.history[n]

\* A revocation is final, and an enrolled runner keeps its token until then.
RunnerExtends(a, b) ==
    /\ b.status = "revoked" => a.status = "revoked"
    /\ b.status = "enrolled" =>
          a.status = "revoked" \/ (a.status = "enrolled" /\ a.tok = b.tok)

Extends(a, b) ==
    /\ \A k \in Key : RowExtends(a.rows[k], b.rows[k])
    /\ \A l \in Lane : RunnerExtends(a.runners[l], b.runners[l])

\* The document doc shows what was acknowledged in a.
Shows(doc, a) ==
    IF "revoked" \in DOMAIN a
    THEN doc.runners[a.revoked].status = "revoked"
    ELSE LET h == doc.rows[<<a.lane, a.tool>>].history IN
         a.after \in 1..Len(h) /\ h[a.after].event = a.event

\* Nothing one-time is spent without a trace in the document.
Known(doc) == {l \in Lane : doc.runners[l].status # "unknown"}

Pays(doc) ==
    /\ IsFiniteSet(Decisions(doc)) /\ IsFiniteSet(doc.consumed)
    /\ Cardinality(Decisions(doc)) = Cardinality(doc.consumed)
    /\ IsFiniteSet(Token \ doc.tokens) /\ IsFiniteSet(Known(doc))
    /\ Cardinality(Token \ doc.tokens) <= Cardinality(Known(doc))

DInv ==
    /\ Extends(mem, disk)
    /\ \A a \in acked : Shows(disk, a)
    /\ HeldTokenIsGood
    /\ Pays(mem) /\ Pays(disk)

-----------------------------------------------------------------------------
\* A document extends itself, and what it extends.
LEMMA ExtendsItself ==
    ASSUME NEW doc, GoodDoc(doc)
    PROVE  Extends(doc, doc)
<1>1. ASSUME NEW k \in Key PROVE Len(doc.rows[k].history) \in Nat
  BY LenProperties DEF GoodDoc, GoodRow, Row
<1> QED BY <1>1 DEF Extends, RowExtends, RunnerExtends

LEMMA ExtendsFurther ==
    ASSUME NEW a, NEW b, NEW c, GoodDoc(a), GoodDoc(b), GoodDoc(c),
           Extends(a, b), Extends(b, c)
    PROVE  Extends(a, c)
<1>1. ASSUME NEW k \in Key PROVE RowExtends(a.rows[k], c.rows[k])
  <2>1. /\ Len(a.rows[k].history) \in Nat /\ Len(b.rows[k].history) \in Nat
        /\ Len(c.rows[k].history) \in Nat
    BY LenProperties DEF GoodDoc, GoodRow, Row
  <2>2. RowExtends(a.rows[k], b.rows[k]) /\ RowExtends(b.rows[k], c.rows[k])
    BY DEF Extends
  <2> DEFINE g == a.rows[k].history
             h == b.rows[k].history
             i == c.rows[k].history
  <2>3. /\ Len(h) <= Len(g) /\ Len(i) <= Len(h)
        /\ \A n \in 1..Len(h) : g[n] = h[n]
        /\ \A n \in 1..Len(i) : h[n] = i[n]
    BY <2>2 DEF RowExtends
  <2>4. Len(g) \in Nat /\ Len(h) \in Nat /\ Len(i) \in Nat  BY <2>1
  <2> HIDE DEF g, h, i
  <2>5. Len(i) <= Len(g) /\ \A n \in 1..Len(i) : g[n] = i[n]  BY <2>3, <2>4
  <2> QED BY <2>5 DEF RowExtends, g, h, i
<1>2. ASSUME NEW l \in Lane PROVE RunnerExtends(a.runners[l], c.runners[l])
  <2>1. RunnerExtends(a.runners[l], b.runners[l]) /\ RunnerExtends(b.runners[l], c.runners[l])
    BY DEF Extends
  <2> DEFINE x == a.runners[l]
             y == b.runners[l]
             z == c.runners[l]
  <2>2. RunnerExtends(x, y) /\ RunnerExtends(y, z)  BY <2>1
  <2> HIDE DEF x, y, z
  <2>3. RunnerExtends(x, z)  BY <2>2 DEF RunnerExtends
  <2> QED BY <2>3 DEF x, z
<1> QED BY <1>1, <1>2 DEF Extends

\* What a document shows, one that extends it shows.
LEMMA ShownForGood ==
    ASSUME NEW a, NEW b, GoodDoc(a), GoodDoc(b), Extends(a, b),
           NEW x \in Acked, Shows(b, x)
    PROVE  Shows(a, x)
<1>1. CASE x \in [revoked : Lane]
  <2>1. "revoked" \in DOMAIN x /\ x.revoked \in Lane  BY <1>1
  <2> QED BY <2>1 DEF Shows, Extends, RunnerExtends
<1>2. CASE x \in [lane : Lane, tool : Tool, after : Nat, event : Event]
  <2>1. "revoked" \notin DOMAIN x /\ <<x.lane, x.tool>> \in Key  BY <1>2 DEF Key
  <2> DEFINE k == <<x.lane, x.tool>>
  <2>2. /\ Len(a.rows[k].history) \in Nat /\ Len(b.rows[k].history) \in Nat
    BY <2>1, LenProperties DEF GoodDoc, GoodRow, Row
  <2>3. RowExtends(a.rows[k], b.rows[k])  BY <2>1 DEF Extends
  <2>4. x.after \in 1..Len(b.rows[k].history)
        /\ b.rows[k].history[x.after].event = x.event
    BY <2>1 DEF Shows
  <2> DEFINE g == a.rows[k].history
             h == b.rows[k].history
  <2>5. Len(h) <= Len(g) /\ \A n \in 1..Len(h) : g[n] = h[n]  BY <2>3 DEF RowExtends
  <2>6. /\ Len(g) \in Nat /\ Len(h) \in Nat
        /\ x.after \in 1..Len(h) /\ h[x.after].event = x.event
    BY <2>2, <2>4
  <2> HIDE DEF g, h
  <2>7. x.after \in 1..Len(g) /\ g[x.after].event = x.event  BY <2>5, <2>6
  <2> QED BY <2>1, <2>7 DEF Shows, g
<1> QED BY <1>1, <1>2 DEF Acked

-----------------------------------------------------------------------------
(***************************************************************************)
(* with_registry, once for all handlers.                                   *)
(***************************************************************************)

\* A handler's result extends memory and shows what it acknowledges.
Sound(res) ==
    /\ Extends(res.doc, mem) /\ Pays(res.doc)
    /\ \A a \in res.ack : Shows(res.doc, a)
    /\ res.save \/ res.ack = {}

LEMMA WithRegistryExtends ==
    ASSUME IInv, DInv, IInv', NEW res, Sound(res), with_registry(res)
    PROVE  /\ Extends(mem', disk') /\ Extends(disk', disk)
           /\ \A a \in acked' : Shows(disk', a)
           /\ Pays(mem') /\ Pays(disk')
<1>1. mem' = res.doc /\ (disk' = disk \/ disk' = res.doc)
  BY DEF with_registry, Answered, AnswerLost, SaveFailed
<1>2. GoodDoc(mem) /\ GoodDoc(disk) /\ GoodDoc(res.doc) /\ GoodDoc(mem') /\ GoodDoc(disk')
  BY <1>1 DEF IInv
<1>3. Extends(res.doc, mem) /\ Extends(mem, disk)  BY DEF Sound, DInv
<1>4. Extends(res.doc, disk)  BY <1>2, <1>3, ExtendsFurther
<1>5. Extends(mem', disk') /\ Extends(disk', disk)
  BY <1>1, <1>2, <1>4, ExtendsItself
<1>6. \A a \in acked : Shows(disk', a)
  BY <1>2, <1>5, ShownForGood DEF DInv, IInv
<1>7. \A a \in acked' : Shows(disk', a)
  <2>1. CASE Answered(res)
    <3>1. acked' = acked \cup res.ack /\ (res.save => disk' = res.doc)
      BY <2>1 DEF Answered
    <3> QED BY <1>6, <3>1 DEF Sound
  <2>2. CASE AnswerLost(res) \/ SaveFailed(res)
    BY <1>6, <2>2 DEF AnswerLost, SaveFailed
  <2> QED BY <2>1, <2>2 DEF with_registry
<1>8. Pays(mem') /\ Pays(disk')
  BY <1>1 DEF Sound, DInv
<1> QED BY <1>5, <1>7, <1>8

\* What a spoke holds keeps working in a file that extends the one it worked in.
LEMMA HeldStays ==
    ASSUME HeldTokenIsGood, Extends(disk', disk), UNCHANGED held
    PROVE  HeldTokenIsGood'
<1> SUFFICES ASSUME NEW l \in Lane, held[l] # None
             PROVE  \/ disk'.runners[l].status = "revoked"
                    \/ /\ disk'.runners[l].status = "enrolled"
                       /\ disk'.runners[l].tok = held[l]
  BY DEF HeldTokenIsGood
<1> QED BY DEF HeldTokenIsGood, Extends, RunnerExtends

LEMMA HandlerKeeps ==
    ASSUME IInv, DInv, IInv', NEW res, Sound(res), with_registry(res), UNCHANGED held
    PROVE  DInv'
<1>1. /\ Extends(mem', disk') /\ Extends(disk', disk)
      /\ \A a \in acked' : Shows(disk', a)
      /\ Pays(mem') /\ Pays(disk')
  BY WithRegistryExtends
<1>2. HeldTokenIsGood'  BY <1>1, HeldStays DEF DInv
<1> QED BY <1>1, <1>2 DEF DInv, Extends, Pays, Decisions, Known, Shows

\* A refusal is sound.
LEMMA RefusalKeeps ==
    ASSUME IInv, DInv, IInv', NEW c, NEW status, NEW save \in BOOLEAN,
           with_registry(Refuse(c, status, save)), UNCHANGED held
    PROVE  DInv'
<1> DEFINE res == Refuse(c, status, save)
<1>1. res.doc = mem /\ res.ack = {}  BY DEF Refuse
<1>2. with_registry(res)  OBVIOUS
<1> HIDE DEF res
<1>3. Sound(res)  BY <1>1, ExtendsItself DEF Sound, DInv, IInv
<1> QED BY <1>2, <1>3, HandlerKeeps

-----------------------------------------------------------------------------
(***************************************************************************)
(* Rows: what a handler appends, and which decisions that makes.           *)
(***************************************************************************)

\* A row whose trail got no decision: as it was, or with one other entry.
Quiet(r, row) ==
    \/ r.history = row.history
    \/ \E e \in Entry : e.event \notin Decided /\ r.history = Append(row.history, e)

LEMMA AppendFacts ==
    ASSUME NEW h \in Seq(Entry), NEW e \in Entry
    PROVE  /\ Len(h) \in Nat /\ Len(Append(h, e)) = Len(h) + 1
           /\ \A n \in 1..Len(h) : Append(h, e)[n] = h[n]
           /\ Append(h, e)[Len(h) + 1] = e
  OBVIOUS

LEMMA AppendedExtends ==
    ASSUME NEW r, NEW row, row.history \in Seq(Entry), NEW e \in Entry,
           r.history = Append(row.history, e)
    PROVE  RowExtends(r, row)
<1> DEFINE h == row.history
           g == r.history
<1>1. h \in Seq(Entry) /\ g = Append(h, e)  OBVIOUS
<1> HIDE DEF h, g
<1>2. Len(h) <= Len(g) /\ \A n \in 1..Len(h) : g[n] = h[n]  BY <1>1, AppendFacts
<1> QED BY <1>2 DEF RowExtends, h, g

LEMMA QuietExtends ==
    ASSUME NEW r, NEW row, row.history \in Seq(Entry), Quiet(r, row)
    PROVE  RowExtends(r, row)
<1>1. CASE r.history = row.history
  <2>1. Len(row.history) \in Nat  BY LenProperties
  <2> QED BY <1>1, <2>1 DEF RowExtends
<1>2. CASE \E e \in Entry : e.event \notin Decided /\ r.history = Append(row.history, e)
  BY <1>2, AppendedExtends
<1> QED BY <1>1, <1>2 DEF Quiet

\* The decisions in one trail, by their positions.
DecidedIn(h) == {n \in 1..MaxVersion : n <= Len(h) /\ h[n].event \in Decided}

LEMMA DecisionsByRow ==
    ASSUME NEW doc
    PROVE  Decisions(doc) =
             {p \in Key \X (1..MaxVersion) : p[2] \in DecidedIn(doc.rows[p[1]].history)}
BY DEF Decisions, DecidedIn, Decided

LEMMA QuietDecides ==
    ASSUME NEW r, NEW row, row.history \in Seq(Entry), Quiet(r, row)
    PROVE  DecidedIn(r.history) = DecidedIn(row.history)
<1>1. CASE r.history = row.history  BY <1>1
<1>2. CASE \E e \in Entry : e.event \notin Decided /\ r.history = Append(row.history, e)
  <2> DEFINE h == row.history
             g == r.history
  <2>1. PICK e \in Entry : e.event \notin Decided /\ g = Append(h, e)  BY <1>2
  <2>2. h \in Seq(Entry)  OBVIOUS
  <2> HIDE DEF h, g
  <2>3. DecidedIn(g) = DecidedIn(h)
    <3>1. /\ Len(h) \in Nat /\ Len(g) = Len(h) + 1 /\ g[Len(h) + 1] = e
          /\ \A n \in 1..Len(h) : g[n] = h[n]
      BY <2>1, <2>2, AppendFacts
    <3>2. ASSUME NEW n \in 1..MaxVersion
          PROVE  n \in DecidedIn(g) <=> n \in DecidedIn(h)
      BY <2>1, <3>1, HubAssumption DEF DecidedIn
    <3> QED BY <3>2 DEF DecidedIn
  <2> QED BY <2>3 DEF g, h
<1> QED BY <1>1, <1>2 DEF Quiet

\* Rows that no decision was added to: the same decisions.
LEMMA QuietDecisions ==
    ASSUME NEW a, NEW b, GoodDoc(b), \A k \in Key : Quiet(a.rows[k], b.rows[k])
    PROVE  Decisions(a) = Decisions(b)
<1>1. ASSUME NEW k \in Key
      PROVE  DecidedIn(a.rows[k].history) = DecidedIn(b.rows[k].history)
  <2>1. b.rows[k].history \in Seq(Entry)  BY DEF GoodDoc, GoodRow, Row
  <2> QED BY <2>1, QuietDecides
<1>2. ASSUME NEW p \in Key \X (1..MaxVersion)
      PROVE  p[2] \in DecidedIn(a.rows[p[1]].history) <=> p[2] \in DecidedIn(b.rows[p[1]].history)
  BY <1>1
<1> QED BY <1>2, DecisionsByRow

\* Entry e was appended to the trail of row k, and to no other.
OneMore(a, b, k, e) ==
    /\ a.rows[k].history = Append(b.rows[k].history, e)
    /\ Len(b.rows[k].history) + 1 <= MaxVersion
    /\ \A j \in Key : j # k => a.rows[j].history = b.rows[j].history

\* One decision added to one row: one decision more.
LEMMA OneDecision ==
    ASSUME NEW a, NEW b, GoodDoc(b), NEW k \in Key, NEW e \in Entry, e.event \in Decided,
           OneMore(a, b, k, e)
    PROVE  \E p : p \notin Decisions(b) /\ Decisions(a) = Decisions(b) \cup {p}
<1> DEFINE h == b.rows[k].history
           g == a.rows[k].history
           v == Len(h) + 1
<1>1. h \in Seq(Entry) /\ g = Append(h, e) /\ v <= MaxVersion
  BY DEF GoodDoc, GoodRow, Row, OneMore
<1>2. /\ Len(h) \in Nat /\ Len(g) = v /\ g[v] = e
      /\ \A n \in 1..Len(h) : g[n] = h[n]
  BY <1>1, AppendFacts, SMTT(30)
<1> HIDE DEF h, g
<1>3. v \in 1..MaxVersion /\ v \notin DecidedIn(h)  BY <1>1, <1>2, HubAssumption DEF DecidedIn
<1>4. ASSUME NEW n \in 1..MaxVersion
      PROVE  n \in DecidedIn(g) <=> n \in DecidedIn(h) \/ n = v
  BY <1>2, HubAssumption DEF DecidedIn
<1>5. <<k, v>> \notin Decisions(b)
  BY <1>3, DecisionsByRow DEF h
<1>6. ASSUME NEW p \in Key \X (1..MaxVersion)
      PROVE  p \in Decisions(a) <=> p \in Decisions(b) \/ p = <<k, v>>
  <2>1. CASE p[1] = k
    <3>1. p \in Decisions(a) <=> p[2] \in DecidedIn(g)  BY <2>1, DecisionsByRow DEF g
    <3>2. p \in Decisions(b) <=> p[2] \in DecidedIn(h)  BY <2>1, DecisionsByRow DEF h
    <3>3. p = <<k, v>> <=> p[2] = v  BY <2>1
    <3> QED BY <1>4, <3>1, <3>2, <3>3
  <2>2. CASE p[1] # k
    <3>1. a.rows[p[1]].history = b.rows[p[1]].history  BY <2>2 DEF OneMore
    <3>2. p \in Decisions(a) <=> p \in Decisions(b)  BY <3>1, DecisionsByRow
    <3> QED BY <2>2, <3>2
  <2> QED BY <2>1, <2>2
<1>7. <<k, v>> \in Key \X (1..MaxVersion)  BY <1>3
<1>8. Decisions(a) = Decisions(b) \cup {<<k, v>>}
  BY <1>6, <1>7, DecisionsByRow
<1> QED BY <1>5, <1>8

\* A heartbeat adds no decision: it opens a row, converges it or reopens it
\* (record_gap_report, _converge_or_clear, _regress_if_reported).
LEMMA HeartbeatRowIsQuiet ==
    ASSUME NEW row, GoodRow(row), NEW tool, NEW gap, NEW probe_complete,
           NEW profile \in Profile \cup {None}, NEW reported \in Digest \cup {None}
    PROVE  Quiet(HeartbeatRow(row, tool, profile, reported, gap, probe_complete), row)
<1> DEFINE q == record_gap_report(row, tool, gap, profile)
           r == note_lane_evidence(q, tool, reported, gap, probe_complete)
<1> SUFFICES Quiet(r, row)  BY DEF HeartbeatRow
<1>1. CASE q = new_request_row(profile) /\ row.state = "absent"
  <2> DEFINE e == [event |-> "gap-reported", from |-> None, to |-> "open",
                   after |-> 1, actor |-> None, note |-> None]
  <2>1. e \in Entry /\ e.event \notin Decided  BY DEF Entry, Event, State, Decided
  <2>2. q.history = <<e>> /\ q.state = "open"  BY <1>1 DEF new_request_row
  <2>3. row.history = <<>>  BY <1>1 DEF GoodRow, HistoryExplains, NoRow
  <2>4. r = q  BY <2>2 DEF note_lane_evidence
  <2> HIDE DEF e, q, r
  <2>5. Append(<<>>, e) = <<e>>  BY <2>1
  <2> QED BY <2>1, <2>2, <2>3, <2>4, <2>5 DEF Quiet
<1>2. CASE q = row
  <2>1. row \in Row  BY DEF GoodRow
  <2>2. CASE r.history = row.history  BY <2>2 DEF Quiet
  <2>3. ASSUME NEW e \in {"converge", "gap-regressed"}, Rule(row.state, e) # NoRule,
               r.history = Move(row, e, None, None).history
        PROVE  Quiet(r, row)
    <3>1. /\ audit_record(row, e, None, None) \in Entry
          /\ Move(row, e, None, None).history = Append(row.history, audit_record(row, e, None, None))
      <4>1. e \in Event /\ None \in Actor \cup {None} /\ None \in Note \cup {None}
        BY DEF Event
      <4>2. Rule(row.state, e) # NoRule  BY <2>3
      <4> HIDE DEF q, r
      <4> QED BY ONLY <2>1, <4>1, <4>2, MoveFields
    <3>2. audit_record(row, e, None, None).event \notin Decided
      BY DEF audit_record, Decided
    <3> QED BY <2>3, <3>1, <3>2 DEF Quiet
  <2>4. CASE row.state = "built"
    <3> DEFINE m == Move(row, "converge", None, None)
    <3>1. \/ r = row \/ r = [row EXCEPT !.digest = None, !.cleared = reported]
          \/ r = [m EXCEPT !.cleared = None]
      BY <1>2, <2>4 DEF note_lane_evidence, _converge_or_clear
    <3>2. Rule(row.state, "converge") # NoRule  BY <2>4 DEF Rule, NoRule
    <3>3. m \in Row  BY <2>1, <3>2, MoveFields DEF Event
    <3> HIDE DEF m
    <3>4. [m EXCEPT !.cleared = None].history = m.history  BY <3>3 DEF Row
    <3>5. [row EXCEPT !.digest = None, !.cleared = reported].history = row.history
      BY <2>1 DEF Row
    <3> HIDE DEF r
    <3>6. r.history = row.history \/ r.history = m.history  BY <3>1, <3>4, <3>5
    <3> QED BY <2>2, <2>3, <3>2, <3>6 DEF m
  <2>5. CASE row.state = "fulfilled"
    <3> DEFINE m == Move(row, "gap-regressed", None, None)
    <3>1. r = row \/ r = [m EXCEPT !.digest = None]
      BY <1>2, <2>5 DEF note_lane_evidence, _regress_if_reported
    <3>2. Rule(row.state, "gap-regressed") # NoRule  BY <2>5 DEF Rule, NoRule
    <3>3. m \in Row  BY <2>1, <3>2, MoveFields DEF Event
    <3> HIDE DEF m
    <3>4. [m EXCEPT !.digest = None].history = m.history  BY <3>3 DEF Row
    <3> HIDE DEF r
    <3>5. r.history = row.history \/ r.history = m.history  BY <3>1, <3>4
    <3> QED BY <2>2, <2>3, <3>2, <3>5 DEF m
  <2>6. CASE row.state \notin {"built", "fulfilled"}
    BY <1>2, <2>6 DEF note_lane_evidence, Quiet
  <2> QED BY <2>4, <2>5, <2>6
<1> QED BY <1>1, <1>2 DEF record_gap_report

-----------------------------------------------------------------------------
(***************************************************************************)
(* Handlers.                                                               *)
(***************************************************************************)

\* Nothing was spent, or shown, that was not before.
LEMMA PaysAsBefore ==
    ASSUME NEW a, NEW b, Pays(b), Decisions(a) = Decisions(b), a.consumed = b.consumed,
           a.tokens = b.tokens, Known(a) = Known(b)
    PROVE  Pays(a)
BY DEF Pays

\* What memory pays does not depend on fields a row's trail does not record.
LEMMA SameRowsQuiet ==
    ASSUME NEW a, NEW b, a.rows = b.rows PROVE \A k \in Key : Quiet(a.rows[k], b.rows[k])
BY DEF Quiet

LEMMA QuietRowsExtend ==
    ASSUME NEW a, NEW b, GoodDoc(b), \A k \in Key : Quiet(a.rows[k], b.rows[k])
    PROVE  \A k \in Key : RowExtends(a.rows[k], b.rows[k])
<1> SUFFICES ASSUME NEW k \in Key PROVE RowExtends(a.rows[k], b.rows[k])  OBVIOUS
<1>1. b.rows[k].history \in Seq(Entry) /\ Quiet(a.rows[k], b.rows[k])
  BY DEF GoodDoc, GoodRow, Row
<1> QED BY <1>1, QuietExtends

LEMMA HeartbeatDocSound ==
    ASSUME IInv, DInv, NEW l \in Lane, NEW dig \in Digest \cup {None, Unreported},
           NEW gap, NEW p
    PROVE  LET doc == HeartbeatDoc(mem, l, dig, gap, p)
           IN  Extends(doc, mem) /\ Pays(doc)
<1> DEFINE rep == IF dig = Unreported THEN mem.runners[l].image ELSE dig
           q == [mem.runners[l] EXCEPT !.image = rep]
           Q == [mem.runners EXCEPT ![l] = q]
           R == [k \in Key |->
                    IF k[1] = l
                    THEN HeartbeatRow(mem.rows[k], k[2], mem.runners[l].profile, rep, gap, p)
                    ELSE mem.rows[k]]
           doc == HeartbeatDoc(mem, l, dig, gap, p)
<1>1. GoodDoc(mem) /\ mem \in Document  BY DEF IInv, GoodDoc
<1>2. rep \in Digest \cup {None} /\ mem.runners[l].profile \in Profile \cup {None}
  BY <1>1 DEF Document, Runner
<1>3. doc = [mem EXCEPT !.runners = Q, !.rows = R]
  BY <1>1 DEF HeartbeatDoc, Document
<1> HIDE DEF rep
<1>4. \A k \in Key : Quiet(R[k], mem.rows[k])
  <2>1. ASSUME NEW k \in Key, k[1] = l PROVE Quiet(R[k], mem.rows[k])
    <3>1. GoodRow(mem.rows[k])  BY <1>1 DEF GoodDoc
    <3>2. Quiet(HeartbeatRow(mem.rows[k], k[2], mem.runners[l].profile, rep, gap, p), mem.rows[k])
      BY <1>2, <3>1, HeartbeatRowIsQuiet
    <3> QED BY <2>1, <3>2
  <2>2. ASSUME NEW k \in Key, k[1] # l PROVE Quiet(R[k], mem.rows[k])
    BY <2>2 DEF Quiet
  <2> QED BY <2>1, <2>2
<1>5. \A m \in Lane : Q[m].status = mem.runners[m].status /\ Q[m].tok = mem.runners[m].tok
  BY <1>1 DEF Document, Runner
<1> HIDE DEF Q, R, doc
<1>6. /\ doc.rows = R /\ doc.runners = Q /\ doc.consumed = mem.consumed
      /\ doc.tokens = mem.tokens
  BY <1>1, <1>3 DEF Document
<1>7. Decisions(doc) = Decisions(mem)  BY <1>1, <1>4, <1>6, QuietDecisions
<1>8. Known(doc) = Known(mem)  BY <1>5, <1>6 DEF Known
<1>9. Pays(doc)  BY <1>6, <1>7, <1>8, PaysAsBefore DEF DInv
<1>10. Extends(doc, mem)
  <2>1. \A k \in Key : RowExtends(doc.rows[k], mem.rows[k])
    BY <1>1, <1>4, <1>6, QuietRowsExtend
  <2>2. \A m \in Lane : RunnerExtends(doc.runners[m], mem.runners[m])
    BY <1>5, <1>6 DEF RunnerExtends
  <2> QED BY <2>1, <2>2 DEF Extends
<1> QED BY <1>9, <1>10 DEF doc

LEMMA HeartbeatDurable ==
    ASSUME IInv, DInv, IInv', NEW l \in Lane, NEW h,
           NEW dig \in Digest \cup {None, Unreported}, NEW gap, NEW p \in BOOLEAN,
           Heartbeat(l, h, dig, gap, p)
    PROVE  DInv'
<1> DEFINE c == [NoCall("heartbeat") EXCEPT
                    !.lane = l,
                    !.clean = IF p /\ gap.kind = "list" THEN Tool \ gap.tools ELSE {}]
           n == [c EXCEPT !.clean = {}]
           res == [doc |-> HeartbeatDoc(mem, l, dig, gap, p), save |-> TRUE,
                   ack |-> {}, call |-> [c EXCEPT !.status = 200]]
<1>1. held' = held /\ (with_registry(res) \/ with_registry(Refuse(n, 401, FALSE)))
  BY DEF Heartbeat
<1> HIDE DEF c, n
<1>2. Sound(res)
  BY HeartbeatDocSound DEF Sound
<1> HIDE DEF res
<1>3. CASE with_registry(res)  BY <1>1, <1>2, <1>3, HandlerKeeps
<1>4. CASE with_registry(Refuse(n, 401, FALSE))
  BY <1>1, <1>4, RefusalKeeps, FALSE \in BOOLEAN
<1> QED BY <1>1, <1>3, <1>4

\* A revocation answered 200 is in what is saved next, for good.
LEMMA RevokeDurable ==
    ASSUME IInv, DInv, IInv', NEW l \in Lane, NEW h, Revoke(l, h) PROVE DInv'
<1> DEFINE c == [NoCall("revoke") EXCEPT !.lane = l]
           doc == RevokeDoc(mem, l)
           res == [doc |-> doc, save |-> TRUE,
                   ack |-> {[revoked |-> l]}, call |-> [c EXCEPT !.status = 200]]
           q == [mem.runners[l] EXCEPT !.status = "revoked", !.tok = None]
           Q == [mem.runners EXCEPT ![l] = q]
<1>1. /\ held' = held
      /\ \/ mem.runners[l].status = "enrolled" /\ with_registry(res)
         \/ with_registry(Refuse(c, 401, FALSE))
  BY DEF Revoke, verify_heartbeat_token
<1>2. GoodDoc(mem) /\ mem \in Document  BY DEF IInv, GoodDoc
<1>3. doc = [mem EXCEPT !.runners = Q]  BY <1>2 DEF RevokeDoc, Document
<1>4. /\ Q[l].status = "revoked"
      /\ \A m \in Lane : m # l => Q[m] = mem.runners[m]
  BY <1>2 DEF Document, Runner
<1> HIDE DEF c, Q, doc
<1>5. /\ doc.rows = mem.rows /\ doc.runners = Q /\ doc.consumed = mem.consumed
      /\ doc.tokens = mem.tokens
  BY <1>2, <1>3 DEF Document
<1>6. CASE mem.runners[l].status = "enrolled" /\ with_registry(res)
  <2>1. Known(doc) = Known(mem)  BY <1>4, <1>5, <1>6 DEF Known
  <2>2. Decisions(doc) = Decisions(mem)
    BY <1>2, <1>5, SameRowsQuiet, QuietDecisions
  <2>3. Pays(doc)  BY <1>5, <2>1, <2>2, PaysAsBefore DEF DInv
  <2>4. \A k \in Key : RowExtends(doc.rows[k], mem.rows[k])
    BY <1>2, <1>5, SameRowsQuiet, QuietRowsExtend
  <2>5. \A m \in Lane : RunnerExtends(doc.runners[m], mem.runners[m])
    BY <1>4, <1>5 DEF RunnerExtends
  <2>6. Shows(doc, [revoked |-> l])  BY <1>4, <1>5 DEF Shows
  <2>7. Sound(res)  BY <2>3, <2>4, <2>5, <2>6 DEF Sound, Extends
  <2> HIDE DEF res
  <2> QED BY <1>1, <1>6, <2>7, HandlerKeeps
<1>7. CASE with_registry(Refuse(c, 401, FALSE))
  BY <1>1, <1>7, RefusalKeeps, FALSE \in BOOLEAN
<1> QED BY <1>1, <1>6, <1>7

\* An enrollment spends one token for one runner.
LEMMA EnrollDocSound ==
    ASSUME IInv, DInv, NEW l \in Lane, NEW t \in mem.tokens, NEW h \in Hbt,
           mem.runners[l].status = "unknown"
    PROVE  LET doc == EnrollDoc(mem, l, t, h)
           IN  /\ Extends(doc, mem) /\ Pays(doc)
               /\ doc.runners[l].status = "enrolled" /\ doc.runners[l].tok = h
<1> DEFINE doc == EnrollDoc(mem, l, t, h)
           q == [Unknown EXCEPT !.status = "enrolled", !.tok = h]
           Q == [mem.runners EXCEPT ![l] = q]
           T == mem.tokens \ {t}
<1>1. GoodDoc(mem) /\ mem \in Document  BY DEF IInv, GoodDoc
<1>2. doc = [mem EXCEPT !.tokens = T, !.runners = Q]  BY <1>1 DEF EnrollDoc, Document
<1>3. /\ Q[l].status = "enrolled" /\ Q[l].tok = h
      /\ \A m \in Lane : m # l => Q[m] = mem.runners[m]
  BY <1>1 DEF Document, Runner, Unknown
<1> HIDE DEF Q, T, doc
<1>4. /\ doc.rows = mem.rows /\ doc.runners = Q /\ doc.consumed = mem.consumed
      /\ doc.tokens = T
  BY <1>1, <1>2 DEF Document
<1>5. Decisions(doc) = Decisions(mem)  BY <1>1, <1>4, SameRowsQuiet, QuietDecisions
<1>6. Known(doc) = Known(mem) \cup {l} /\ l \notin Known(mem)
  BY <1>3, <1>4 DEF Known
<1>7. Token \ doc.tokens = (Token \ mem.tokens) \cup {t} /\ t \notin Token \ mem.tokens
  BY <1>1, <1>4 DEF Document, T
<1>8. Pays(doc)
  <2> DEFINE A == Token \ mem.tokens
             B == Known(mem)
  <2>1. IsFiniteSet(A) /\ IsFiniteSet(B) /\ Cardinality(A) <= Cardinality(B)
    BY DEF DInv, Pays
  <2>2. Token \ doc.tokens = A \cup {t} /\ t \notin A  BY <1>7
  <2>3. Known(doc) = B \cup {l} /\ l \notin B  BY <1>6
  <2> HIDE DEF A, B
  <2>4. /\ IsFiniteSet(A \cup {t}) /\ Cardinality(A \cup {t}) = Cardinality(A) + 1
        /\ IsFiniteSet(B \cup {l}) /\ Cardinality(B \cup {l}) = Cardinality(B) + 1
    BY <2>1, <2>2, <2>3, FS_AddElement
  <2>5. Cardinality(A) \in Nat /\ Cardinality(B) \in Nat  BY <2>1, FS_CardinalityType
  <2>6. Cardinality(A \cup {t}) <= Cardinality(B \cup {l})  BY <2>1, <2>4, <2>5
  <2> QED BY <1>4, <1>5, <2>2, <2>3, <2>4, <2>6 DEF Pays, DInv
<1>9. Extends(doc, mem)
  <2>1. \A k \in Key : RowExtends(doc.rows[k], mem.rows[k])
    BY <1>1, <1>4, SameRowsQuiet, QuietRowsExtend
  <2>2. \A m \in Lane : RunnerExtends(doc.runners[m], mem.runners[m])
    BY <1>3, <1>4 DEF RunnerExtends
  <2> QED BY <2>1, <2>2 DEF Extends
<1> QED BY <1>3, <1>4, <1>8, <1>9 DEF doc

\* The spoke that got the answer got a token of the saved file.
LEMMA EnrollDurable ==
    ASSUME IInv, DInv, IInv', NEW l \in Lane, NEW t, Enroll(l, t) PROVE DInv'
<1>1. CASE EnrollRefused(l, t)
  <2> DEFINE c == [NoCall("enroll") EXCEPT !.lane = l]
  <2>1. /\ held' = held
        /\ with_registry(Refuse(c, 409, FALSE)) \/ with_registry(Refuse(c, 401, FALSE))
    BY <1>1 DEF EnrollRefused
  <2> HIDE DEF c
  <2> QED BY <2>1, RefusalKeeps, FALSE \in BOOLEAN, ZenonT(60)
<1>2. CASE EnrollAccepted(l, t)
  <2>1. PICK h \in FreshHbt :
          /\ with_registry([doc |-> EnrollDoc(mem, l, t, h), save |-> TRUE,
                            ack |-> {},
                            call |-> [NoCall("enroll") EXCEPT !.lane = l,
                                                             !.status = 200]])
          /\ held' = IF call'.answered THEN [held EXCEPT ![l] = h] ELSE held
    BY <1>2 DEF EnrollAccepted
  <2> DEFINE doc == EnrollDoc(mem, l, t, h)
             c == [NoCall("enroll") EXCEPT !.lane = l, !.status = 200]
             res == [doc |-> doc, save |-> TRUE, ack |-> {}, call |-> c]
  <2>2. with_registry(res)  BY <2>1
  <2>3. c.answered = FALSE  BY DEF NoCall
  <2>4. mem.runners[l].status = "unknown" /\ t \in mem.tokens /\ h \in Hbt
    BY <1>2 DEF EnrollAccepted, FreshHbt
  <2>5. /\ Extends(doc, mem) /\ Pays(doc)
        /\ doc.runners[l].status = "enrolled" /\ doc.runners[l].tok = h
    BY <2>4, EnrollDocSound
  <2> HIDE DEF doc, c
  <2>6. res.doc = doc /\ res.call = c /\ res.save = TRUE /\ res.ack = {}  OBVIOUS
  <2> HIDE DEF res
  <2>7. Sound(res)  BY <2>5, <2>6 DEF Sound
  <2>8. /\ Extends(mem', disk') /\ Extends(disk', disk)
        /\ \A a \in acked' : Shows(disk', a)
        /\ Pays(mem') /\ Pays(disk')
    BY <2>2, <2>7, WithRegistryExtends
  <2>9. HeldTokenIsGood'
    <3>1. CASE held' = held  BY <2>8, <3>1, HeldStays DEF DInv
    <3>2. CASE held' # held
      <4>1. Answered(res)
        BY <2>1, <2>2, <2>3, <2>6, <3>2 DEF with_registry, AnswerLost, SaveFailed
      <4>2. disk' = doc /\ held' = [held EXCEPT ![l] = h]
        BY <2>1, <2>6, <3>2, <4>1 DEF Answered
      <4>3. ASSUME NEW m \in Lane, held'[m] # None
            PROVE  \/ disk'.runners[m].status = "revoked"
                   \/ /\ disk'.runners[m].status = "enrolled"
                      /\ disk'.runners[m].tok = held'[m]
        <5>1. CASE m = l  BY <2>5, <4>2, <5>1 DEF IInv
        <5>2. CASE m # l
          <6>1. held'[m] = held[m]  BY <4>2, <5>2 DEF IInv
          <6>2. RunnerExtends(disk'.runners[m], disk.runners[m])
            BY <2>8 DEF Extends
          <6> QED BY <4>3, <6>1, <6>2 DEF DInv, HeldTokenIsGood, RunnerExtends
        <5> QED BY <5>1, <5>2
      <4> QED BY <4>3 DEF HeldTokenIsGood
    <3> QED BY <3>1, <3>2
  <2> QED BY <2>8, <2>9 DEF DInv, Extends, Pays, Decisions, Known, Shows
<1> QED BY <1>1, <1>2 DEF Enroll

\* doc is memory with the row of one request replaced.
OneRow(doc, k, r) ==
    /\ doc.rows[k] = r /\ \A j \in Key : j # k => doc.rows[j] = mem.rows[j]
    /\ doc.runners = mem.runners /\ doc.tokens = mem.tokens

LEMMA OneRowExtends ==
    ASSUME IInv, NEW k \in Key, NEW r, RowExtends(r, mem.rows[k]),
           NEW doc, OneRow(doc, k, r)
    PROVE  Extends(doc, mem) /\ Known(doc) = Known(mem)
<1>1. GoodDoc(mem) /\ mem \in Document  BY DEF IInv, GoodDoc
<1>2. Known(doc) = Known(mem)  BY DEF Known, OneRow
<1>3. Extends(doc, mem)
  <2>1. Extends(mem, mem)  BY <1>1, ExtendsItself
  <2>2. \A j \in Key : RowExtends(doc.rows[j], mem.rows[j])
    BY <2>1 DEF Extends, OneRow
  <2> QED BY <2>1, <2>2 DEF Extends, OneRow
<1> QED BY <1>2, <1>3

\* An acknowledged entry, at its position in the trail.
LEMMA EntryShows ==
    ASSUME NEW doc, NEW k \in Key, NEW n, n \in 1..Len(doc.rows[k].history),
           NEW event, doc.rows[k].history[n].event = event
    PROVE  Shows(doc, [lane |-> k[1], tool |-> k[2], after |-> n, event |-> event])
<1> DEFINE a == [lane |-> k[1], tool |-> k[2], after |-> n, event |-> event]
<1>1. /\ "revoked" \notin DOMAIN a /\ <<a.lane, a.tool>> = k
      /\ a.after = n /\ a.event = event
  BY DEF Key
<1> HIDE DEF a
<1>2. Shows(doc, a)  BY <1>1 DEF Shows
<1> QED BY <1>2 DEF a

LEMMA AppendedShows ==
    ASSUME NEW doc, NEW k \in Key, NEW h \in Seq(Entry), NEW e \in Entry,
           doc.rows[k].history = Append(h, e)
    PROVE  Shows(doc, [lane |-> k[1], tool |-> k[2], after |-> Len(h) + 1,
                       event |-> e.event])
<1> DEFINE g == doc.rows[k].history
<1>1. Len(h) \in Nat /\ Len(g) = Len(h) + 1 /\ g[Len(h) + 1] = e  BY AppendFacts
<1>2. Len(h) + 1 \in 1..Len(g)  BY <1>1
<1> QED BY <1>1, <1>2, EntryShows

LEMMA ReportBuildDurable ==
    ASSUME IInv, DInv, IInv', NEW k \in Key,
           NEW b \in BuilderReport(k) \cup OtherReport(k), ReportBuild(k, b)
    PROVE  DInv'
<1> DEFINE row == mem.rows[k]
           c == [NoCall("build") EXCEPT !.lane = k[1], !.tool = k[2]]
           v == report_verdict(row, b)
           n == IF b.class = "absent" THEN 401 ELSE 404
           z == [c EXCEPT !.audit = v.audit]
           r == report_build(row, b)
           x == audit_record(row, BuildEvent(b), None, b.note)
           doc == [mem EXCEPT !.rows[k] = report_build(mem.rows[k], b)]
           ack == [lane |-> k[1], tool |-> k[2], after |-> row.version + 1,
                   event |-> BuildEvent(b)]
           res == [doc |-> doc, save |-> TRUE, ack |-> {ack},
                   call |-> [c EXCEPT !.status = 200, !.audit = v.audit]]
<1>1. b.digest \in Digest \cup {None} /\ b.note \in Note \cup {None, TooLong}
  BY RequestTypes
<1>2. /\ held' = held
      /\ \/ with_registry(Refuse(c, n, TRUE))
         \/ with_registry(Refuse(z, v.status, TRUE))
         \/ v.status = 200 /\ with_registry(res)
  BY DEF ReportBuild
<1>3. GoodDoc(mem) /\ mem \in Document /\ GoodRow(row) /\ row \in Row
  BY DEF IInv, GoodDoc, GoodRow
<1>4. OneRow(doc, k, r) /\ doc.consumed = mem.consumed
  <2> DEFINE R == [mem.rows EXCEPT ![k] = r]
  <2>1. doc = [mem EXCEPT !.rows = R]  BY <1>3 DEF Document
  <2>2. R[k] = r /\ \A j \in Key : j # k => R[j] = mem.rows[j]
    BY <1>3 DEF Document
  <2> HIDE DEF R, doc
  <2>3. /\ doc.rows = R /\ doc.runners = mem.runners
        /\ doc.consumed = mem.consumed /\ doc.tokens = mem.tokens
    BY <1>3, <2>1 DEF Document
  <2> QED BY <2>2, <2>3 DEF OneRow
<1> HIDE DEF c, z, n, doc
<1>5. CASE with_registry(Refuse(c, n, TRUE)) \/ with_registry(Refuse(z, v.status, TRUE))
  BY <1>2, <1>5, RefusalKeeps, TRUE \in BOOLEAN
<1>6. CASE v.status = 200 /\ with_registry(res)
  <2>1. /\ row.state \in {"approved", "built"} /\ BuildEvent(b) \in Event
        /\ r.history = Append(row.history, x)
    BY <1>1, <1>3, <1>6, ReportBuildIsGood
  <2>2. b.note # TooLong /\ Rule(row.state, BuildEvent(b)) # NoRule
    BY <1>6 DEF report_verdict, Verdict
  <2>3. x \in Entry
    BY <1>1, <1>3, <2>1, <2>2, MoveFields
  <2>4. x.event = BuildEvent(b) /\ x.event \notin Decided
    BY DEF audit_record, BuildEvent, Decided
  <2>5. row.history \in Seq(Entry) /\ row.version = Len(row.history)
    BY <1>3, <2>1 DEF Row, GoodRow, HistoryExplains
  <2> HIDE DEF r, x
  <2>6. RowExtends(r, row) /\ Quiet(r, row)
    BY <2>1, <2>3, <2>4, <2>5, AppendedExtends DEF Quiet
  <2>7. OneRow(doc, k, r)  BY <1>4
  <2>8. Extends(doc, mem) /\ Known(doc) = Known(mem)
    BY <2>6, <2>7, OneRowExtends
  <2>9. \A j \in Key : Quiet(doc.rows[j], mem.rows[j])
    BY <2>6, <2>7 DEF Quiet, OneRow
  <2>10. Decisions(doc) = Decisions(mem)  BY <1>3, <2>9, QuietDecisions
  <2>11. Pays(doc)  BY <1>4, <2>8, <2>10, PaysAsBefore DEF DInv, OneRow
  <2>12. Shows(doc, ack)  BY <2>1, <2>3, <2>4, <2>5, <2>7, AppendedShows DEF OneRow
  <2> HIDE DEF ack, row, v
  <2>13. Sound(res)  BY <2>8, <2>11, <2>12 DEF Sound
  <2> HIDE DEF res
  <2> QED BY <1>2, <1>6, <2>13, HandlerKeeps
<1> QED BY <1>2, <1>5, <1>6

\* What an accepted decision appends, or what a retry of it finds.
LEMMA DecisionApplied ==
    ASSUME NEW row, GoodRow(row), NEW d, NEW consumed, NEW at \in Nat,
           d.action \in {"approve", "deny"}, d.actor \in Actor \cup {None},
           d.nonce \in Nonce \cup {None}, d.note \in Note \cup {None, TooLong},
           decide_verdict(row, d, consumed).status = 200,
           ~ decide_verdict(row, d, consumed).idem
    PROVE  LET x == audit_record(row, EventOf(d), d.actor, d.note)
               r == decide(row, d, at)
           IN  /\ x \in Entry /\ x.event = EventOf(d) /\ x.event \in Decided
               /\ r \in Row /\ r.history = Append(row.history, x)
               /\ r.version = row.version + 1 /\ row.version = Len(row.history)
               /\ d.nonce \in Nonce /\ d.nonce \notin consumed
<1> DEFINE x == audit_record(row, EventOf(d), d.actor, d.note)
           r == decide(row, d, at)
<1>1. /\ GoodRow(r) /\ d.nonce \in Nonce /\ d.nonce \notin consumed
      /\ row.state = "open" /\ r.version = row.version + 1
      /\ r.history = Append(row.history, x)
  BY DecideIsGood
<1>2. /\ d.note # TooLong /\ Rule(row.state, EventOf(d)) # NoRule
  BY DEF decide_verdict, Verdict
<1>3. EventOf(d) \in Event /\ EventOf(d) \in Decided
  BY DEF EventOf, Event, Decided
<1>4. row \in Row  BY DEF GoodRow
<1>5. x \in Entry  BY <1>2, <1>3, <1>4, MoveFields
<1>6. x.event = EventOf(d)  BY DEF audit_record
<1>7. row.version = Len(row.history)  BY <1>1 DEF GoodRow, HistoryExplains
<1> QED BY <1>1, <1>3, <1>5, <1>6, <1>7 DEF GoodRow

LEMMA DecisionRetried ==
    ASSUME NEW row, GoodRow(row), row.state # "absent", NEW d, NEW consumed,
           decide_verdict(row, d, consumed).idem
    PROVE  /\ row.version \in 1..Len(row.history)
           /\ row.history[row.version].event = EventOf(d)
<1>1. AlreadyApplied(row, d)  BY Zenon DEF decide_verdict, Verdict
<1>2. PICK i \in 1..Len(row.history) :
         row.history[i].after = row.version /\ row.history[i].event = EventOf(d)
  BY <1>1 DEF AlreadyApplied
<1>3. row.history[i].after = i  BY DEF GoodRow, HistoryExplains
<1> QED BY <1>2, <1>3

\* One decision more, one nonce more.
LEMMA NoncePaid ==
    ASSUME NEW doc, Pays(mem), NEW p, p \notin Decisions(mem),
           Decisions(doc) = Decisions(mem) \cup {p},
           NEW n, n \notin mem.consumed, doc.consumed = mem.consumed \cup {n},
           doc.tokens = mem.tokens, Known(doc) = Known(mem)
    PROVE  Pays(doc)
<1> DEFINE A == Decisions(mem)
           B == mem.consumed
<1>1. IsFiniteSet(A) /\ IsFiniteSet(B) /\ Cardinality(A) = Cardinality(B)
  BY DEF Pays
<1>2. p \notin A /\ n \notin B /\ Decisions(doc) = A \cup {p} /\ doc.consumed = B \cup {n}
  OBVIOUS
<1> HIDE DEF A, B
<1>3. /\ IsFiniteSet(A \cup {p}) /\ Cardinality(A \cup {p}) = Cardinality(A) + 1
      /\ IsFiniteSet(B \cup {n}) /\ Cardinality(B \cup {n}) = Cardinality(B) + 1
  BY <1>1, <1>2, FS_AddElement
<1> QED BY <1>1, <1>2, <1>3 DEF Pays

\* A row with the decision's nonce noted on it.
Noted(row, d) == [row EXCEPT !.nonces = @ \cup ({d.nonce} \ {None})]

\* What a decision answered 200 writes.
LEMMA DecideDocRow ==
    ASSUME IInv, NEW k \in Key, NEW d, NEW v, NEW row \in Row,
           v.idem => row = mem.rows[k],
           ~ v.idem => row = decide(mem.rows[k], d, now)
    PROVE  /\ OneRow(DecideDoc(mem, k, d, v, now), k, Noted(row, d))
           /\ Noted(row, d).history = row.history /\ Noted(row, d).version = row.version
           /\ v.idem => DecideDoc(mem, k, d, v, now).consumed = mem.consumed
           /\ ~ v.idem =>
                 DecideDoc(mem, k, d, v, now).consumed = mem.consumed \cup {d.nonce}
<1> DEFINE r == Noted(row, d)
           C == IF v.idem THEN mem.consumed ELSE mem.consumed \cup {d.nonce}
           R == [mem.rows EXCEPT ![k] = r]
           doc == DecideDoc(mem, k, d, v, now)
<1>1. mem \in Document  BY DEF IInv, GoodDoc
<1>2. r.history = row.history /\ r.version = row.version  BY DEF Noted, Row
<1>3. doc = [mem EXCEPT !.rows = R, !.consumed = C]
  BY <1>1 DEF DecideDoc, Document, Noted
<1> HIDE DEF r
<1>4. R[k] = r /\ \A j \in Key : j # k => R[j] = mem.rows[j]  BY <1>1 DEF Document
<1> HIDE DEF R, C, doc
<1>5. /\ doc.rows = R /\ doc.consumed = C
      /\ doc.runners = mem.runners /\ doc.tokens = mem.tokens
  BY <1>1, <1>3 DEF Document
<1>6. OneRow(doc, k, r)  BY <1>4, <1>5 DEF OneRow
<1> QED BY <1>2, <1>5, <1>6 DEF r, C, doc

\* A handler with one thing to acknowledge.
LEMMA AcknowledgedKeeps ==
    ASSUME IInv, DInv, IInv', NEW res, NEW ack, res.ack = {ack}, res.save = TRUE,
           Extends(res.doc, mem), Pays(res.doc), Shows(res.doc, ack),
           with_registry(res), UNCHANGED held
    PROVE  DInv'
<1>1. Sound(res)  BY DEF Sound
<1> QED BY <1>1, HandlerKeeps

LEMMA DecideDurable ==
    ASSUME IInv, DInv, IInv', NEW k \in Key,
           NEW d \in OperatorDecision(k) \cup BadDecision(k), Decide(k, d)
    PROVE  DInv'
<1> DEFINE old == mem.rows[k]
           c == [NoCall("decide") EXCEPT !.lane = k[1], !.tool = k[2],
                                         !.nonce = d.nonce]
           v == decide_verdict(old, d, mem.consumed)
           z == [c EXCEPT !.audit = v.audit]
           row == IF v.idem THEN mem.rows[k] ELSE decide(mem.rows[k], d, now)
           r == Noted(row, d)
           doc == DecideDoc(mem, k, d, v, now)
           res == [doc |-> doc, save |-> TRUE, ack |-> DecideAck(k, d, v),
                   call |-> [c EXCEPT !.status = 200, !.idem = v.idem,
                                      !.audit = v.audit]]
<1> DEFINE Refused == \/ with_registry(Refuse(c, 400, FALSE))
                      \/ with_registry(Refuse(c, 404, TRUE))
                      \/ with_registry(Refuse(z, v.status, TRUE))
<1>0. held' = held  BY DEF Decide
<1>1. \/ Refused
      \/ old.state # "absent" /\ v.status = 200 /\ with_registry(res)
  BY DEF Decide
<1>2. /\ d.action \in {"approve", "deny"} /\ d.actor \in Actor \cup {None}
      /\ d.nonce \in Nonce \cup {None} /\ d.note \in Note \cup {None, TooLong}
  BY RequestTypes
<1>3. GoodDoc(mem) /\ GoodRow(old) /\ old \in Row /\ now \in Nat /\ v.idem \in BOOLEAN
  BY VerdictTypes DEF IInv, GoodDoc, GoodRow
<1> HIDE DEF c, z
<1>4. CASE Refused
  <2> HIDE DEF v, res
  <2> QED BY <1>0, <1>4, RefusalKeeps, TRUE \in BOOLEAN, FALSE \in BOOLEAN, ZenonT(60)
<1> HIDE DEF Refused
<1>5. CASE old.state # "absent" /\ v.status = 200 /\ with_registry(res)
  <2> DEFINE ack == [lane |-> k[1], tool |-> k[2],
                     after |-> old.version + (IF v.idem THEN 0 ELSE 1),
                     event |-> EventOf(d)]
  <2>1. res.ack = {ack} /\ res.save = TRUE /\ res.doc = doc  BY DEF DecideAck
  <2>2. with_registry(res)  BY <1>5
  <2> HIDE DEF res
  <2>3. ASSUME v.idem PROVE Extends(doc, mem) /\ Pays(doc) /\ Shows(doc, ack)
    <3>1. row = old  BY <2>3
    <3> HIDE DEF v, row, old
    <3>12. row \in Row  BY <1>3, <3>1
    <3>2. /\ OneRow(doc, k, r) /\ r.history = old.history
          /\ doc.consumed = mem.consumed
      BY <2>3, <3>1, <3>12, DecideDocRow, ZenonT(60) DEF old
    <3>3. /\ old.version \in 1..Len(old.history)
          /\ old.history[old.version].event = EventOf(d)
      BY <1>3, <1>5, <2>3, DecisionRetried DEF v
    <3>4. old.history \in Seq(Entry) /\ old.version + 0 = old.version
      BY <1>3 DEF Row
    <3>5. ack = [lane |-> k[1], tool |-> k[2], after |-> old.version,
                 event |-> EventOf(d)]
      BY <2>3, <3>4
    <3> HIDE DEF r, doc, ack
    <3>6. Quiet(r, old) /\ RowExtends(r, old)
      BY <3>2, <3>4, QuietExtends DEF Quiet
    <3>7. Extends(doc, mem) /\ Known(doc) = Known(mem)
      BY <3>2, <3>6, OneRowExtends DEF old
    <3>8. \A j \in Key : Quiet(doc.rows[j], mem.rows[j])
      BY <3>2, <3>6 DEF Quiet, OneRow, old
    <3>9. Decisions(doc) = Decisions(mem)  BY <1>3, <3>8, QuietDecisions
    <3>10. Pays(doc)  BY <3>2, <3>7, <3>9, PaysAsBefore DEF DInv, OneRow
    <3>11. Shows(doc, ack)
      <4>1. doc.rows[k].history = old.history  BY <3>2 DEF OneRow
      <4> QED BY <3>3, <3>5, <4>1, EntryShows
    <3> QED BY <3>7, <3>10, <3>11
  <2>4. ASSUME ~ v.idem PROVE Extends(doc, mem) /\ Pays(doc) /\ Shows(doc, ack)
    <3> DEFINE x == audit_record(old, EventOf(d), d.actor, d.note)
    <3>1. row = decide(old, d, now)  BY <2>4
    <3> HIDE DEF row, old
    <3>2. /\ decide_verdict(old, d, mem.consumed).status = 200
          /\ ~ decide_verdict(old, d, mem.consumed).idem
      BY <1>5, <2>4
    <3> HIDE DEF v
    <3>20. /\ x \in Entry /\ x.event = EventOf(d) /\ x.event \in Decided
           /\ row \in Row /\ row.history = Append(old.history, x)
           /\ row.version = old.version + 1 /\ old.version = Len(old.history)
           /\ d.nonce \in Nonce /\ d.nonce \notin mem.consumed
      BY <1>2, <1>3, <3>1, <3>2, DecisionApplied
    <3>3. /\ OneRow(doc, k, r) /\ r.history = row.history /\ r.version = row.version
          /\ doc.consumed = mem.consumed \cup {d.nonce}
      <4>1. row \in Row  BY <3>20
      <4>2. row = decide(mem.rows[k], d, now)  BY <3>1 DEF old
      <4> QED BY <2>4, <4>1, <4>2, DecideDocRow
    <3>4. old.history \in Seq(Entry)  BY <1>3 DEF Row
    <3>5. ack = [lane |-> k[1], tool |-> k[2], after |-> Len(old.history) + 1,
                 event |-> x.event]
      BY <2>4, <3>20
    <3> HIDE DEF r, doc, ack, x
    <3>6. Len(old.history) + 1 <= MaxVersion
      <4>1. Within(doc)  BY <2>1, <2>2 DEF with_registry
      <4> QED BY <3>20, <3>3, <4>1 DEF Within, OneRow
    <3>7. RowExtends(r, old)  BY <3>20, <3>3, <3>4, AppendedExtends
    <3>8. Extends(doc, mem) /\ Known(doc) = Known(mem)
      BY <3>3, <3>7, OneRowExtends DEF old
    <3>9. PICK p : p \notin Decisions(mem) /\ Decisions(doc) = Decisions(mem) \cup {p}
      <4>1. \A j \in Key : j # k => doc.rows[j].history = mem.rows[j].history
        BY <3>3 DEF OneRow
      <4>2. doc.rows[k].history = Append(mem.rows[k].history, x)
        BY <3>20, <3>3 DEF OneRow, old
      <4>3. Len(mem.rows[k].history) + 1 <= MaxVersion  BY <3>6 DEF old
      <4>4. GoodDoc(mem) /\ x \in Entry /\ x.event \in Decided  BY <1>3, <3>20
      <4>5. OneMore(doc, mem, k, x)  BY <4>1, <4>2, <4>3 DEF OneMore
      <4> QED BY ONLY k \in Key, <4>4, <4>5, OneDecision
    <3>10. Pays(doc)  BY <3>20, <3>3, <3>8, <3>9, NoncePaid DEF DInv, OneRow
    <3>11. Shows(doc, ack)
      BY <3>20, <3>3, <3>4, <3>5, AppendedShows DEF OneRow
    <3> QED BY <3>8, <3>10, <3>11
  <2> HIDE DEF v, doc, ack
  <2> QED BY <1>0, <1>3, <2>1, <2>2, <2>3, <2>4, AcknowledgedKeeps
<1> QED BY <1>1, <1>4, <1>5

LEMMA SetLaneProfileDurable ==
    ASSUME IInv, DInv, IInv', NEW l \in Lane, NEW p, SetLaneProfile(l, p)
    PROVE  DInv'
<1> DEFINE q == [mem.runners[l] EXCEPT !.profile = p]
           Q == [mem.runners EXCEPT ![l] = q]
<1>1. GoodDoc(mem) /\ GoodDoc(disk) /\ mem \in Document /\ GoodDoc(mem')
  BY DEF IInv, GoodDoc
<1>2. mem' = [mem EXCEPT !.runners = Q] /\ UNCHANGED <<disk, held, acked>>
  BY <1>1 DEF SetLaneProfile, Document
<1>3. \A m \in Lane : Q[m].status = mem.runners[m].status /\ Q[m].tok = mem.runners[m].tok
  BY <1>1 DEF Document, Runner
<1> HIDE DEF Q
<1>4. /\ mem'.rows = mem.rows /\ mem'.runners = Q /\ mem'.consumed = mem.consumed
      /\ mem'.tokens = mem.tokens
  BY <1>1, <1>2 DEF Document
<1>5. Extends(mem', mem)
  <2>1. \A k \in Key : RowExtends(mem'.rows[k], mem.rows[k])
    BY <1>1, <1>4, SameRowsQuiet, QuietRowsExtend
  <2>2. \A m \in Lane : RunnerExtends(mem'.runners[m], mem.runners[m])
    BY <1>3, <1>4 DEF RunnerExtends
  <2> QED BY <2>1, <2>2 DEF Extends
<1>6. Extends(mem', disk)  BY <1>1, <1>5, ExtendsFurther DEF DInv
<1>7. Pays(mem')
  <2>1. Decisions(mem') = Decisions(mem)
    BY <1>1, <1>4, SameRowsQuiet, QuietDecisions
  <2>2. Known(mem') = Known(mem)  BY <1>3, <1>4 DEF Known
  <2> QED BY <1>4, <2>1, <2>2, PaysAsBefore DEF DInv
<1> QED BY <1>2, <1>6, <1>7
        DEF DInv, Extends, Pays, Decisions, Known, Shows, HeldTokenIsGood

LEMMA RestartDurable == ASSUME IInv, DInv, IInv', Restart PROVE DInv'
<1> DEFINE T == disk.tokens \cup Token
           doc == load_enrollment_tokens(disk)
<1>1. GoodDoc(disk) /\ disk \in Document /\ GoodDoc(disk') BY DEF IInv, GoodDoc
<1>2. mem' = doc /\ disk' = doc /\ UNCHANGED <<held, acked>>  BY DEF Restart
<1>3. doc = [disk EXCEPT !.tokens = T] /\ T = Token
  BY <1>1 DEF load_enrollment_tokens, Document
<1> HIDE DEF T, doc
<1>4. /\ doc.rows = disk.rows /\ doc.runners = disk.runners
      /\ doc.consumed = disk.consumed /\ doc.tokens = Token
  BY <1>1, <1>3 DEF Document
<1>5. Extends(mem', disk')  BY <1>1, <1>2, ExtendsItself
<1>6. Pays(doc)
  <2>1. Decisions(doc) = Decisions(disk)
    BY <1>1, <1>4, SameRowsQuiet, QuietDecisions
  <2>2. Known(doc) = Known(disk)  BY <1>4 DEF Known
  <2>3. Token \ doc.tokens = {}  BY <1>4
  <2>4. IsFiniteSet({}) /\ Cardinality({}) = 0  BY FS_EmptySet
  <2>5. Cardinality(Known(disk)) \in Nat  BY FS_CardinalityType DEF DInv, Pays
  <2>6. 0 <= Cardinality(Known(disk))  BY <2>5
  <2> QED BY <1>4, <2>1, <2>2, <2>3, <2>4, <2>6 DEF DInv, Pays
<1>7. \A a \in acked' : Shows(disk', a)
  BY <1>2, <1>4 DEF DInv, Shows
<1>8. HeldTokenIsGood'  BY <1>2, <1>4 DEF DInv, HeldTokenIsGood
<1>9. Pays(mem') /\ Pays(disk')  BY <1>2, <1>6
<1> QED BY <1>5, <1>7, <1>8, <1>9 DEF DInv, Extends, Pays, Decisions, Known, Shows

-----------------------------------------------------------------------------
LEMMA EmptyDecides == ASSUME NEW h, Len(h) = 0 PROVE DecidedIn(h) = {}
BY HubAssumption DEF DecidedIn

LEMMA EnrolledFinite == IsFiniteSet(Enrolled0) /\ 0 <= Cardinality(Enrolled0)
<1>1. IsFiniteSet(Enrolled0)  BY HubAssumption
<1>2. Cardinality(Enrolled0) \in Nat  BY <1>1, FS_CardinalityType
<1> QED BY <1>1, <1>2

\* The registry a hub starts with owes nothing (Registry.__init__).
LEMMA InitDInv == ASSUME Init PROVE DInv
<1>1. IInv  BY InitIInv
<1> PICK hbt \in [Enrolled0 -> Hbt], prof \in [Enrolled0 -> Profile \cup {None}] :
          /\ mem = [tokens |-> Token,
                    runners |-> [l \in Lane |->
                        IF l \in Enrolled0
                        THEN [Unknown EXCEPT !.status = "enrolled",
                                             !.tok = hbt[l], !.profile = prof[l]]
                        ELSE Unknown],
                    rows |-> [k \in Key |-> NoRow],
                    consumed |-> {}]
          /\ held = [l \in Lane |-> IF l \in Enrolled0 THEN hbt[l] ELSE None]
  BY DEF Init
<1> DEFINE Start(l) == [Unknown EXCEPT !.status = "enrolled", !.tok = hbt[l],
                                       !.profile = prof[l]]
<1>10. disk = mem /\ acked = {}  BY DEF Init
<1>11. /\ mem.tokens = Token /\ mem.consumed = {} /\ mem.rows = [k \in Key |-> NoRow]
      /\ mem.runners = [l \in Lane |-> IF l \in Enrolled0 THEN Start(l) ELSE Unknown]
  OBVIOUS
<1>12. ASSUME NEW l \in Enrolled0
      PROVE  Start(l).status = "enrolled" /\ Start(l).tok = hbt[l]
  BY DEF Unknown
<1>13. Unknown.status = "unknown"  BY DEF Unknown
<1> HIDE DEF Start
<1>2. /\ disk = mem /\ acked = {} /\ mem.tokens = Token /\ mem.consumed = {}
      /\ mem.rows = [k \in Key |-> NoRow] /\ Known(mem) = Enrolled0
  <2>1. ASSUME NEW l \in Lane PROVE l \in Known(mem) <=> l \in Enrolled0
    BY <1>11, <1>12, <1>13 DEF Known
  <2>2. Known(mem) = Enrolled0  BY <2>1, HubAssumption DEF Known
  <2> QED BY <1>10, <1>11, <2>2
<1>3. HeldTokenIsGood
  <2>1. ASSUME NEW l \in Lane, held[l] # None
        PROVE  mem.runners[l].status = "enrolled" /\ mem.runners[l].tok = held[l]
    <3>1. l \in Enrolled0 /\ held[l] = hbt[l]  BY <2>1
    <3> QED BY <1>11, <1>12, <3>1
  <2> QED BY <1>10, <2>1 DEF HeldTokenIsGood
<1>4. Extends(mem, disk)  BY <1>1, <1>2, ExtendsItself DEF IInv
<1>5. Decisions(mem) = {}
  <2>1. \A k \in Key : mem.rows[k].history = <<>>  BY <1>2 DEF NoRow
  <2>2. \A k \in Key : Len(mem.rows[k].history) = 0  BY <2>1
  <2>4. \A k \in Key : DecidedIn(mem.rows[k].history) = {}  BY ONLY <2>2, EmptyDecides
  <2> QED BY <2>4, DecisionsByRow
<1>6. Token \ mem.tokens = {}  BY <1>2
<1>7. IsFiniteSet({}) /\ Cardinality({}) = 0  BY FS_EmptySet
<1>8. IsFiniteSet(Known(mem)) /\ 0 <= Cardinality(Known(mem))
  BY ONLY <1>2, EnrolledFinite
<1>9. Pays(mem)  BY <1>2, <1>5, <1>6, <1>7, <1>8 DEF Pays
<1> QED BY <1>2, <1>3, <1>4, <1>9 DEF DInv

\* Every step of the hub keeps what it owes.
LEMMA NextDInv == IInv /\ DInv /\ [Next]_vars /\ IInv' => DInv'
<1> SUFFICES ASSUME IInv, DInv, [Next]_vars, IInv' PROVE DInv'
  OBVIOUS
<1>1. CASE UNCHANGED vars
  BY <1>1 DEF vars, DInv, Extends, Pays, Decisions, Known, Shows, HeldTokenIsGood
<1>2. ASSUME NEW l \in Lane, NEW t \in Token \cup {None}, Enroll(l, t)
      PROVE  DInv'
  BY <1>2, EnrollDurable
<1>3. ASSUME NEW l \in Lane, NEW h \in Hbt \cup {None}, Revoke(l, h)
      PROVE  DInv'
  BY <1>3, RevokeDurable
<1>4. ASSUME NEW l \in Lane, NEW h \in Hbt \cup {None},
             NEW dig \in Digest \cup {None, Unreported}, NEW gap \in Gap,
             NEW p \in BOOLEAN, Heartbeat(l, h, dig, gap, p)
      PROVE  DInv'
  BY <1>4, HeartbeatDurable
<1>5. ASSUME NEW l \in Lane, NEW p \in Profile \cup {None}, SetLaneProfile(l, p)
      PROVE  DInv'
  BY <1>5, SetLaneProfileDurable
<1>6. ASSUME NEW k \in Key, NEW d \in OperatorDecision(k) \cup BadDecision(k),
             Decide(k, d)
      PROVE  DInv'
  BY <1>6, DecideDurable
<1>7. ASSUME NEW k \in Key, NEW b \in BuilderReport(k) \cup OtherReport(k),
             ReportBuild(k, b)
      PROVE  DInv'
  BY <1>7, ReportBuildDurable
<1>8. CASE Restart
  BY <1>8, RestartDurable
<1>9. CASE Tick
  BY <1>9 DEF Tick, DInv, Extends, Pays, Decisions, Known, Shows, HeldTokenIsGood
<1> QED
  BY <1>1, <1>2, <1>3, <1>4, <1>5, <1>6, <1>7, <1>8, <1>9 DEF Next

LEMMA Durability == Spec => []DInv
<1>1. Init => DInv  BY InitDInv
<1> QED BY <1>1, Invariance, NextDInv, PTL DEF Spec

LEMMA DInvImplies ==
    ASSUME DInv PROVE AckedIsDurable /\ EnrollmentsHold /\ DecisionsSpendNonces
<1>1. AckedIsDurable
  <2> SUFFICES ASSUME NEW a \in acked, "revoked" \notin DOMAIN a
               PROVE  LET h == disk.rows[<<a.lane, a.tool>>].history IN
                      a.after <= Len(h) /\ h[a.after].event = a.event
    BY DEF DInv, Shows, AckedIsDurable
  <2> DEFINE h == disk.rows[<<a.lane, a.tool>>].history
  <2>1. a.after \in 1..Len(h) /\ h[a.after].event = a.event  BY DEF DInv, Shows
  <2> HIDE DEF h
  <2>2. a.after <= Len(h) /\ h[a.after].event = a.event  BY <2>1
  <2> QED BY <2>2 DEF h
<1>2. EnrollmentsHold  BY DEF DInv, Pays, Known, EnrollmentsHold, TokensPayForRunners
<1>3. DecisionsSpendNonces  BY DEF DInv, Pays, DecisionsSpendNonces
<1> QED BY <1>1, <1>2, <1>3

\* What a client was told with a 200 is in the file, whatever saves fail,
\* answers get lost and restarts happen (with_registry, decide_request,
\* report_build, do_revoke).
THEOREM AcknowledgedStays == Spec => []AckedIsDurable
BY Durability, DInvImplies, PTL

\* The token a spoke received keeps working until its revocation, and no
\* enrollment token is spent without a runner to show for it (do_enroll).
THEOREM EnrollmentsStay == Spec => []EnrollmentsHold
BY Durability, DInvImplies, PTL

\* There are exactly as many applied decisions as consumed nonces, in memory
\* and in the file (decide_request, consume_nonce).
THEOREM NoncesPayForDecisions == Spec => []DecisionsSpendNonces
BY Durability, DInvImplies, PTL

-----------------------------------------------------------------------------
(***************************************************************************)
(* The promised life cycle.  What it sees of a document: the state,        *)
(* version and awaited digest of each row, the image of each lane and the  *)
(* consumed nonces.  While saves succeed, the file looks like memory, so a *)
(* restart is no step of the life cycle, and every handler is at most one. *)
(***************************************************************************)
SameRow(r, s) == r.state = s.state /\ r.version = s.version /\ r.digest = s.digest

Alike(a, b) ==
    /\ \A k \in Key : SameRow(a.rows[k], b.rows[k])
    /\ \A l \in Lane : a.runners[l].image = b.runners[l].image
    /\ a.consumed = b.consumed

\* A lane that never enrolled never reported an image.
Unseen(doc) ==
    \A l \in Lane : doc.runners[l].status = "unknown" => doc.runners[l].image = None

LInv == Alike(mem, disk) /\ Unseen(mem) /\ Unseen(disk)

\* A document that looks the same is no step of the life cycle.
LEMMA AlikeStutters ==
    ASSUME Alike(mem', mem) PROVE UNCHANGED Lifecycle!vars
BY DEF Alike, SameRow, Lifecycle!vars

\* with_registry, when no save fails: the result is in memory and in the file,
\* or it is the document that was there.
LEMMA WithRegistrySaves ==
    ASSUME "save" \notin Faults, LInv, NEW res, with_registry(res), Unseen(res.doc),
           res.save = TRUE \/ res.doc = mem
    PROVE  mem' = res.doc /\ LInv'
<1>1. mem' = res.doc  BY DEF with_registry
<1>2. disk' = res.doc \/ (disk' = disk /\ res.doc = mem)
  BY DEF with_registry, Answered, AnswerLost, SaveFailed
<1>3. Alike(mem', disk')  BY <1>1, <1>2 DEF LInv, Alike, SameRow
<1>4. Unseen(mem') /\ Unseen(disk')  BY <1>1, <1>2 DEF LInv
<1> QED BY <1>1, <1>3, <1>4 DEF LInv

\* A refusal.
LEMMA RefusalStutters ==
    ASSUME "save" \notin Faults, LInv, NEW c, NEW status, NEW save \in BOOLEAN,
           with_registry(Refuse(c, status, save))
    PROVE  mem' = mem /\ LInv'
<1> DEFINE res == Refuse(c, status, save)
<1>1. res.doc = mem  BY DEF Refuse
<1> HIDE DEF res
<1>2. with_registry(res)  BY DEF res
<1> QED BY <1>1, <1>2, WithRegistrySaves DEF LInv

LEMMA AlikeItself == ASSUME NEW doc PROVE Alike(doc, doc)
BY DEF Alike, SameRow

-----------------------------------------------------------------------------
\* What one heartbeat may do to a row of its lane (HeartbeatRow).
LEMMA HeartbeatRowMoves ==
    ASSUME NEW row, GoodRow(row), NEW tool, NEW gap, NEW probe_complete,
           NEW profile \in Profile \cup {None}, NEW reported \in Digest \cup {None}
    PROVE  LET r == HeartbeatRow(row, tool, profile, reported, gap, probe_complete) IN
           \/ SameRow(r, row)
           \/ /\ row.state = "absent" /\ r.state = "open"
              /\ r.version = row.version + 1 /\ r.digest = None
           \/ /\ row.state = "built" /\ r.state = "built" /\ r.version = row.version
              /\ row.digest # reported /\ r.digest = None
           \/ /\ row.state = "built" /\ r.state = "fulfilled"
              /\ r.version = row.version + 1
              /\ row.digest # None /\ row.digest = reported /\ r.digest = row.digest
           \/ /\ row.state = "fulfilled" /\ r.state = "open"
              /\ r.version = row.version + 1 /\ r.digest = None
<1> DEFINE q == record_gap_report(row, tool, gap, profile)
           r == note_lane_evidence(q, tool, reported, gap, probe_complete)
<1>1. r = HeartbeatRow(row, tool, profile, reported, gap, probe_complete)
  BY DEF HeartbeatRow
<1>2. row \in Row  BY DEF GoodRow
<1>3. CASE q = new_request_row(profile) /\ row.state = "absent"
  <2>1. q.state = "open" /\ q.version = 1 /\ q.digest = None
    BY <1>3 DEF new_request_row
  <2>2. row.version = 0  BY <1>3 DEF GoodRow, HistoryExplains, NoRow
  <2>3. r = q  BY <2>1 DEF note_lane_evidence
  <2> HIDE DEF q, r
  <2> QED BY <1>1, <1>3, <2>1, <2>2, <2>3
<1>4. CASE q = row /\ row.state = "built"
  <2> DEFINE m == Move(row, "converge", None, None)
             f == [m EXCEPT !.cleared = None]
             g == [row EXCEPT !.digest = None, !.cleared = reported]
  <2>1. \/ r = row
        \/ r = g /\ row.digest # reported
        \/ r = f /\ row.digest # None /\ row.digest = reported
    BY <1>4 DEF note_lane_evidence, _converge_or_clear
  <2>2. /\ Rule(row.state, "converge") # NoRule
        /\ Rule(row.state, "converge") = "fulfilled"
    BY <1>4 DEF Rule, NoRule
  <2>3. /\ m \in Row /\ m.state = "fulfilled" /\ m.version = row.version + 1
        /\ m.digest = row.digest
    BY <1>2, <2>2, MoveFields DEF Event
  <2> HIDE DEF m
  <2>4. f.state = m.state /\ f.version = m.version /\ f.digest = m.digest
    BY <2>3 DEF Row
  <2>5. g.state = row.state /\ g.version = row.version /\ g.digest = None
    BY <1>2 DEF Row
  <2> HIDE DEF f, g, q, r
  <2> QED BY <1>1, <1>4, <2>1, <2>3, <2>4, <2>5 DEF SameRow
<1>5. CASE q = row /\ row.state = "fulfilled"
  <2> DEFINE m == Move(row, "gap-regressed", None, None)
             f == [m EXCEPT !.digest = None]
  <2>1. r = row \/ r = f
    BY <1>5 DEF note_lane_evidence, _regress_if_reported
  <2>2. /\ Rule(row.state, "gap-regressed") # NoRule
        /\ Rule(row.state, "gap-regressed") = "open"
    BY <1>5 DEF Rule, NoRule
  <2>3. m \in Row /\ m.state = "open" /\ m.version = row.version + 1
    BY <1>2, <2>2, MoveFields DEF Event
  <2> HIDE DEF m
  <2>4. f.state = m.state /\ f.version = m.version /\ f.digest = None
    BY <2>3 DEF Row
  <2> HIDE DEF f, q, r
  <2> QED BY <1>1, <1>5, <2>1, <2>3, <2>4 DEF SameRow
<1>6. CASE q = row /\ row.state \notin {"built", "fulfilled"}
  BY <1>1, <1>6 DEF note_lane_evidence, SameRow
<1> QED BY <1>3, <1>4, <1>5, <1>6 DEF record_gap_report

-----------------------------------------------------------------------------
\* One row of memory moves: the life cycle's variables change at its key alone.
LEMMA OneRowMoves ==
    ASSUME NEW k \in Key, \A j \in Key : j # k => SameRow(mem'.rows[j], mem.rows[j]),
           \A l \in Lane : mem'.runners[l].image = mem.runners[l].image,
           mem'.rows[k].version = mem.rows[k].version + 1
    PROVE  /\ [j \in Key |-> mem'.rows[j].state]
                = [[j \in Key |-> mem.rows[j].state] EXCEPT ![k] = mem'.rows[k].state]
           /\ [j \in Key |-> mem'.rows[j].version]
                = [[j \in Key |-> mem.rows[j].version] EXCEPT ![k] = @ + 1]
           /\ [j \in Key |-> mem'.rows[j].digest]
                = [[j \in Key |-> mem.rows[j].digest] EXCEPT ![k] = mem'.rows[k].digest]
           /\ [l \in Lane |-> mem'.runners[l].image] = [l \in Lane |-> mem.runners[l].image]
BY DEF SameRow

\* Fields of a document in which one row was replaced.
LEMMA RowReplaced ==
    ASSUME NEW doc, GoodDoc(doc), NEW k \in Key, NEW r, NEW C
    PROVE  LET e == [doc EXCEPT !.rows[k] = r, !.consumed = C]
               f == [doc EXCEPT !.rows[k] = r] IN
           /\ e.rows[k] = r /\ f.rows[k] = r
           /\ \A j \in Key : j # k => e.rows[j] = doc.rows[j] /\ f.rows[j] = doc.rows[j]
           /\ e.runners = doc.runners /\ f.runners = doc.runners
           /\ e.consumed = C /\ f.consumed = doc.consumed
<1> DEFINE R == [doc.rows EXCEPT ![k] = r]
           e == [doc EXCEPT !.rows[k] = r, !.consumed = C]
           f == [doc EXCEPT !.rows[k] = r]
<1>1. doc \in Document  BY DEF GoodDoc
<1>2. R[k] = r /\ \A j \in Key : j # k => R[j] = doc.rows[j]
  BY <1>1 DEF Document
<1>3. e = [doc EXCEPT !.rows = R, !.consumed = C] /\ f = [doc EXCEPT !.rows = R]
  OBVIOUS
<1> HIDE DEF R, e, f
<1>4. e.rows = R /\ e.runners = doc.runners /\ e.consumed = C
  BY <1>1, <1>3 DEF Document
<1>5. f.rows = R /\ f.runners = doc.runners /\ f.consumed = doc.consumed
  BY <1>1, <1>3 DEF Document
<1>6. /\ e.rows[k] = r /\ f.rows[k] = r
      /\ \A j \in Key : j # k => e.rows[j] = doc.rows[j] /\ f.rows[j] = doc.rows[j]
      /\ e.runners = doc.runners /\ f.runners = doc.runners
      /\ e.consumed = C /\ f.consumed = doc.consumed
  BY <1>2, <1>4, <1>5
<1> QED BY <1>6 DEF e, f

LEMMA DecideImplements ==
    ASSUME "save" \notin Faults, IInv, LInv,
           NEW k \in Key, NEW d \in OperatorDecision(k) \cup BadDecision(k), Decide(k, d)
    PROVE  LInv' /\ (Alike(mem', mem) \/ Lifecycle!Next)
<1> DEFINE c == [NoCall("decide") EXCEPT !.lane = k[1], !.tool = k[2], !.nonce = d.nonce]
           v == decide_verdict(mem.rows[k], d, mem.consumed)
           e == [c EXCEPT !.audit = v.audit]
           res == [doc |-> DecideDoc(mem, k, d, v, now), save |-> TRUE,
                   ack |-> DecideAck(k, d, v),
                   call |-> [c EXCEPT !.status = 200, !.idem = v.idem, !.audit = v.audit]]
<1>1. \/ with_registry(Refuse(c, 400, FALSE))
      \/ with_registry(Refuse(c, 404, TRUE))
      \/ with_registry(Refuse(e, v.status, TRUE))
      \/ mem.rows[k].state # "absent" /\ v.status = 200 /\ with_registry(res)
  BY DEF Decide
<1>2. /\ d.action \in {"approve", "deny"} /\ d.actor \in Actor \cup {None}
      /\ d.nonce \in Nonce \cup {None} /\ d.note \in Note \cup {None, TooLong}
  BY RequestTypes
<1>3. /\ GoodDoc(mem) /\ GoodRow(mem.rows[k]) /\ mem.rows[k] \in Row /\ now \in Nat
      /\ Unseen(mem)
  BY DEF IInv, GoodDoc, GoodRow, LInv
<1> HIDE DEF c, e
<1>4. CASE \/ with_registry(Refuse(c, 400, FALSE))
           \/ with_registry(Refuse(c, 404, TRUE))
           \/ with_registry(Refuse(e, v.status, TRUE))
  BY <1>4, RefusalStutters, AlikeItself, ZenonT(60)
<1>5. CASE v.status = 200 /\ with_registry(res)
  <2> DEFINE row == IF v.idem THEN mem.rows[k] ELSE decide(mem.rows[k], d, now)
             ns  == row.nonces \cup ({d.nonce} \ {None})
             r   == [row EXCEPT !.nonces = ns]
             C   == IF v.idem THEN mem.consumed ELSE mem.consumed \cup {d.nonce}
             doc == [mem EXCEPT !.rows[k] = r, !.consumed = C]
  <2>1. res.doc = doc /\ res.save = TRUE
    BY DEF DecideDoc
  <2>2. v.idem => row = mem.rows[k] /\ C = mem.consumed
    OBVIOUS
  <2>3. ~v.idem =>
          /\ d.nonce \in Nonce /\ d.nonce \notin mem.consumed
          /\ mem.rows[k].state = "open"
          /\ row \in Row
          /\ row.version = mem.rows[k].version + 1
          /\ row.state \in {"approved", "denied"}
          /\ row.digest = mem.rows[k].digest
          /\ C = mem.consumed \cup {d.nonce}
    <3> SUFFICES ASSUME ~v.idem
                 PROVE  /\ d.nonce \in Nonce /\ d.nonce \notin mem.consumed
                        /\ mem.rows[k].state = "open"
                        /\ row \in Row
                        /\ row.version = mem.rows[k].version + 1
                        /\ row.state \in {"approved", "denied"}
                        /\ row.digest = mem.rows[k].digest
                        /\ C = mem.consumed \cup {d.nonce}
      OBVIOUS
    <3>1. row = decide(mem.rows[k], d, now) /\ C = mem.consumed \cup {d.nonce}
      OBVIOUS
    <3>2. GoodRow(mem.rows[k]) /\ v.status = 200 /\ ~v.idem /\ now \in Nat
      BY <1>3, <1>5
    <3> HIDE DEF row, C
    <3> QED BY <1>2, <3>1, <3>2, DecideIsGood DEF GoodRow
  <2> HIDE DEF res, C, v
  <2>4. row \in Row  BY <1>3, <2>2, <2>3
  <2> HIDE DEF row
  <2>5. r.state = row.state /\ r.version = row.version /\ r.digest = row.digest
    BY <2>4 DEF Row
  <2> HIDE DEF r
  <2>6. /\ doc.rows[k] = r
        /\ \A j \in Key : j # k => doc.rows[j] = mem.rows[j]
        /\ doc.runners = mem.runners /\ doc.consumed = C
    BY ONLY <1>3, k \in Key, RowReplaced
  <2> HIDE DEF doc
  <2>7. Unseen(doc)  BY <1>3, <2>6 DEF Unseen
  <2>8. mem' = doc /\ LInv'  BY <1>5, <2>1, <2>7, WithRegistrySaves
  <2>9. CASE v.idem
    BY <2>2, <2>5, <2>6, <2>8, <2>9 DEF Alike, SameRow
  <2>10. CASE ~v.idem
    <3>1. /\ mem.rows[k].state \in {"open"}
          /\ mem'.rows[k].version = mem.rows[k].version + 1
          /\ mem'.rows[k].state \in {"approved", "denied"}
          /\ mem'.rows[k].digest = mem.rows[k].digest
          /\ mem'.consumed = mem.consumed \cup {d.nonce}
      BY <2>3, <2>5, <2>6, <2>8, <2>10
    <3>2. \A j \in Key : j # k => SameRow(mem'.rows[j], mem.rows[j])
      BY <2>6, <2>8 DEF SameRow
    <3>3. \A l \in Lane : mem'.runners[l].image = mem.runners[l].image
      BY <2>6, <2>8
    <3>4. Lifecycle!DecideRequest(k, d.nonce, mem'.rows[k].state)
      <4>1. d.nonce \notin mem.consumed  BY <2>3, <2>10
      <4>2. [j \in Key |-> mem.rows[j].state][k] \in {"open"}  BY <3>1
      <4>3. [j \in Key |-> mem.rows[j].digest][k] = mem'.rows[k].digest  BY <3>1
      <4> QED BY <3>1, <3>2, <3>3, <4>1, <4>2, <4>3, OneRowMoves
              DEF Lifecycle!DecideRequest, Lifecycle!Step
    <3> QED BY <2>3, <2>8, <2>10, <3>1, <3>4 DEF Lifecycle!Next, Lifecycle!Key, Key
  <2> QED BY <2>8, <2>9, <2>10
<1> QED BY <1>1, <1>4, <1>5

\* An accepted report builds an approved row, or reopens one that waits for a
\* build or for its lane (report_build).
LEMMA ReportBuildMoves ==
    ASSUME NEW row, GoodRow(row), NEW b, report_verdict(row, b).status = 200,
           report_build(row, b).state = Rule(row.state, BuildEvent(b))
    PROVE  \/ /\ row.state \in {"approved"} /\ report_build(row, b).state = "built"
              /\ b.digest # None
           \/ /\ row.state \in {"approved", "built"} /\ report_build(row, b).state = "open"
              /\ b.digest = None
<1>1. Rule(row.state, BuildEvent(b)) # NoRule  BY DEF report_verdict, Verdict
<1>2. CASE b.digest = None
  <2>1. BuildEvent(b) = "build-failed"  BY <1>2 DEF BuildEvent
  <2> QED BY <1>1, <1>2, <2>1 DEF Rule, NoRule
<1>3. CASE b.digest # None
  <2>1. BuildEvent(b) = "report-built"  BY <1>3 DEF BuildEvent
  <2> QED BY <1>1, <1>3, <2>1 DEF Rule, NoRule
<1> QED BY <1>2, <1>3

LEMMA ReportBuildImplements ==
    ASSUME "save" \notin Faults, IInv, LInv,
           NEW k \in Key, NEW b \in BuilderReport(k) \cup OtherReport(k), ReportBuild(k, b)
    PROVE  LInv' /\ (Alike(mem', mem) \/ Lifecycle!Next)
<1> DEFINE c == [NoCall("build") EXCEPT !.lane = k[1], !.tool = k[2]]
           v == report_verdict(mem.rows[k], b)
           n == IF b.class = "absent" THEN 401 ELSE 404
           e == [c EXCEPT !.audit = v.audit]
           r == report_build(mem.rows[k], b)
           doc == [mem EXCEPT !.rows[k] = r]
           res == [doc |-> doc, save |-> TRUE,
                   ack |-> {[lane |-> k[1], tool |-> k[2],
                             after |-> mem.rows[k].version + 1,
                             event |-> BuildEvent(b)]},
                   call |-> [c EXCEPT !.status = 200, !.audit = v.audit]]
<1>1. \/ with_registry(Refuse(c, n, TRUE))
      \/ with_registry(Refuse(e, v.status, TRUE))
      \/ v.status = 200 /\ with_registry(res)
  BY DEF ReportBuild
<1>2. b.digest \in Digest \cup {None} /\ b.note \in Note \cup {None, TooLong}
  BY RequestTypes
<1>3. /\ GoodDoc(mem) /\ GoodRow(mem.rows[k]) /\ mem.rows[k] \in Row /\ Unseen(mem)
  BY DEF IInv, GoodDoc, GoodRow, LInv
<1> HIDE DEF c, e, n
<1>4. CASE with_registry(Refuse(c, n, TRUE)) \/ with_registry(Refuse(e, v.status, TRUE))
  BY <1>4, RefusalStutters, AlikeItself, ZenonT(60)
<1>5. CASE v.status = 200 /\ with_registry(res)
  <2>1. res.doc = doc /\ res.save = TRUE  OBVIOUS
  <2>2. /\ GoodRow(r) /\ r.version = mem.rows[k].version + 1 /\ r.digest = b.digest
        /\ \/ /\ mem.rows[k].state \in {"approved"} /\ r.state = "built"
              /\ b.digest # None
           \/ /\ mem.rows[k].state \in {"approved", "built"} /\ r.state = "open"
              /\ b.digest = None
    BY <1>2, <1>3, <1>5, ReportBuildIsGood, ReportBuildMoves
  <2> HIDE DEF res, v, r
  <2>3. /\ doc.rows[k] = r
        /\ \A j \in Key : j # k => doc.rows[j] = mem.rows[j]
        /\ doc.runners = mem.runners /\ doc.consumed = mem.consumed
    BY ONLY <1>3, k \in Key, RowReplaced
  <2> HIDE DEF doc
  <2>4. Unseen(doc)  BY <1>3, <2>3 DEF Unseen
  <2>5. mem' = doc /\ LInv'  BY <1>5, <2>1, <2>4, WithRegistrySaves
  <2>6. /\ \A j \in Key : j # k => SameRow(mem'.rows[j], mem.rows[j])
        /\ \A l \in Lane : mem'.runners[l].image = mem.runners[l].image
        /\ mem'.rows[k].version = mem.rows[k].version + 1
        /\ mem'.rows[k].digest = b.digest
        /\ mem'.consumed = mem.consumed
    BY <2>2, <2>3, <2>5 DEF SameRow
  <2>7. CASE /\ mem.rows[k].state \in {"approved"} /\ r.state = "built" /\ b.digest # None
    <3>1. [j \in Key |-> mem.rows[j].state][k] \in {"approved"} /\ mem'.rows[k].state = "built"
      BY <2>3, <2>5, <2>7
    <3>2. Lifecycle!Build(k, b.digest)
      BY <2>6, <3>1, OneRowMoves DEF Lifecycle!Build, Lifecycle!Step
    <3> QED BY <1>2, <2>5, <2>7, <3>2 DEF Lifecycle!Next, Lifecycle!Key, Key
  <2>8. CASE /\ mem.rows[k].state \in {"approved", "built"} /\ r.state = "open"
             /\ b.digest = None
    <3>1. /\ [j \in Key |-> mem.rows[j].state][k] \in {"approved", "built"}
          /\ mem'.rows[k].state = "open"
      BY <2>3, <2>5, <2>8
    <3>2. mem'.rows[k].digest = None  BY <2>6, <2>8
    <3>3. Lifecycle!FailBuild(k)
      BY <2>6, <3>1, <3>2, OneRowMoves DEF Lifecycle!FailBuild, Lifecycle!Step
    <3> QED BY <2>5, <3>3 DEF Lifecycle!Next, Lifecycle!Key, Key
  <2> QED BY <2>2, <2>7, <2>8
<1> QED BY <1>1, <1>4, <1>5

\* A heartbeat of lane l has been applied to memory.
Applied(l, rep, gap, p, profile) ==
    /\ \A m \in Lane : mem'.runners[m].image = IF m = l THEN rep ELSE mem.runners[m].image
    /\ mem'.consumed = mem.consumed
    /\ \A k \in Key : mem'.rows[k] = IF k[1] = l
                                      THEN HeartbeatRow(mem.rows[k], k[2], profile, rep, gap, p)
                                      ELSE mem.rows[k]

\* The rows of a lane move as the life cycle lets a heartbeat move them.
LEMMA HeartbeatBeats ==
    ASSUME GoodDoc(mem), GoodDoc(mem'), NEW l \in Lane, NEW rep \in Digest \cup {None},
           NEW gap, NEW p, NEW profile \in Profile \cup {None},
           Applied(l, rep, gap, p, profile)
    PROVE  Lifecycle!Beat(l, rep)
<1> DEFINE s  == [k \in Key |-> mem.rows[k].state]
           v  == [k \in Key |-> mem.rows[k].version]
           a  == [k \in Key |-> mem.rows[k].digest]
           i  == [m \in Lane |-> mem.runners[m].image]
           s2 == [k \in Key |-> mem'.rows[k].state]
           v2 == [k \in Key |-> mem'.rows[k].version]
           a2 == [k \in Key |-> mem'.rows[k].digest]
           i2 == [m \in Lane |-> mem'.runners[m].image]
<1>1. i2 = [i EXCEPT ![l] = rep] /\ i2[l] = rep
  BY DEF Applied
<1>2. ASSUME NEW k \in Key
      PROVE  \/ s2[k] = s[k] /\ v2[k] = v[k] /\ a2[k] = a[k]
             \/ /\ k[1] = l
                /\ \/ s[k] = "absent" /\ s2[k] = "open" /\ v2[k] = v[k] + 1 /\ a2[k] = None
                   \/ /\ s[k] = "built" /\ s2[k] = "built" /\ v2[k] = v[k]
                      /\ a[k] # i2[k[1]] /\ a2[k] = None
                   \/ /\ s[k] = "built" /\ s2[k] = "fulfilled" /\ v2[k] = v[k] + 1
                      /\ a[k] # None /\ a[k] = i2[k[1]] /\ a2[k] = a[k]
                   \/ /\ s[k] \in {"fulfilled", "denied"} /\ s2[k] = "open"
                      /\ v2[k] = v[k] + 1 /\ a2[k] = None
  <2> DEFINE row == mem.rows[k]
             r   == HeartbeatRow(row, k[2], profile, rep, gap, p)
  <2>1. /\ s[k] = row.state /\ v[k] = row.version /\ a[k] = row.digest
        /\ s2[k] = mem'.rows[k].state /\ v2[k] = mem'.rows[k].version
        /\ a2[k] = mem'.rows[k].digest
    OBVIOUS
  <2>2. CASE k[1] # l
    <3>1. mem'.rows[k] = row  BY <2>2 DEF Applied
    <3> QED BY <2>1, <3>1
  <2>3. CASE k[1] = l
    <3>1. mem'.rows[k] = r  BY <2>3 DEF Applied
    <3>2. GoodRow(row)  BY DEF GoodDoc
    <3> HIDE DEF row, s, v, a, i, s2, v2, a2, i2
    <3>3. \/ SameRow(r, row)
          \/ /\ row.state = "absent" /\ r.state = "open"
             /\ r.version = row.version + 1 /\ r.digest = None
          \/ /\ row.state = "built" /\ r.state = "built" /\ r.version = row.version
             /\ row.digest # rep /\ r.digest = None
          \/ /\ row.state = "built" /\ r.state = "fulfilled"
             /\ r.version = row.version + 1
             /\ row.digest # None /\ row.digest = rep /\ r.digest = row.digest
          \/ /\ row.state = "fulfilled" /\ r.state = "open"
             /\ r.version = row.version + 1 /\ r.digest = None
      BY <3>2, HeartbeatRowMoves
    <3> HIDE DEF r
    <3>4. i2[k[1]] = rep  BY <1>1, <2>3
    <3> QED BY <2>1, <2>3, <3>1, <3>3, <3>4 DEF SameRow
  <2> QED BY <2>2, <2>3
<1> HIDE DEF i, i2
<1>3. s2 \in [Key -> {s[k] : k \in Key} \cup {"open", "fulfilled"}]
  <2> SUFFICES ASSUME NEW k \in Key PROVE s2[k] \in {s[j] : j \in Key} \cup {"open", "fulfilled"}
    OBVIOUS
  <2>1. s2[k] \in {s[k], "open", "fulfilled"}  BY <1>2
  <2> HIDE DEF s, s2
  <2> QED BY <2>1
<1>4. v2 \in [Key -> {v[k] : k \in Key} \cup {v[k] + 1 : k \in Key}]
  <2> SUFFICES ASSUME NEW k \in Key
               PROVE  v2[k] \in {v[j] : j \in Key} \cup {v[j] + 1 : j \in Key}
    OBVIOUS
  <2>1. v2[k] = v[k] \/ v2[k] = v[k] + 1  BY <1>2
  <2> HIDE DEF v, v2
  <2> QED BY <2>1
<1>5. a2 \in [Key -> {a[k] : k \in Key} \cup {None}]
  <2> SUFFICES ASSUME NEW k \in Key PROVE a2[k] \in {a[j] : j \in Key} \cup {None}
    OBVIOUS
  <2>1. a2[k] = a[k] \/ a2[k] = None  BY <1>2
  <2> HIDE DEF a, a2
  <2> QED BY <2>1
<1> QED
  <2>1. \A k \in Key : \/ Lifecycle!Same(k)
                       \/ /\ k[1] = l
                          /\ \/ Lifecycle!Opens(k) \/ Lifecycle!GivesUp(k)
                             \/ Lifecycle!Fulfils(k) \/ Lifecycle!Reopens(k)
    BY <1>2 DEF i2, Lifecycle!Same, Lifecycle!Opens, Lifecycle!GivesUp, Lifecycle!Fulfils,
                Lifecycle!Reopens
  <2>2. mem'.consumed = mem.consumed  BY DEF Applied
  <2> QED BY <1>1, <1>3, <1>4, <1>5, <2>1, <2>2 DEF Lifecycle!Beat, Lifecycle!Key, Key, i, i2

LEMMA HeartbeatImplements ==
    ASSUME "save" \notin Faults, IInv, IInv', LInv, NEW l \in Lane, NEW h,
           NEW dig \in Digest \cup {None, Unreported}, NEW gap, NEW p \in BOOLEAN,
           Heartbeat(l, h, dig, gap, p)
    PROVE  LInv' /\ (Alike(mem', mem) \/ Lifecycle!Next)
<1> DEFINE c == [NoCall("heartbeat") EXCEPT
                    !.lane = l,
                    !.clean = IF p /\ gap.kind = "list" THEN Tool \ gap.tools ELSE {}]
           n == [c EXCEPT !.clean = {}]
           doc == HeartbeatDoc(mem, l, dig, gap, p)
           res == [doc |-> doc, save |-> TRUE,
                   ack |-> {}, call |-> [c EXCEPT !.status = 200]]
           rep == IF dig = Unreported THEN mem.runners[l].image ELSE dig
           q == [mem.runners[l] EXCEPT !.image = rep]
           Q == [mem.runners EXCEPT ![l] = q]
           R == [k \in Key |->
                    IF k[1] = l
                    THEN HeartbeatRow(mem.rows[k], k[2], mem.runners[l].profile, rep, gap, p)
                    ELSE mem.rows[k]]
<1>1. \/ verify_heartbeat_token(l, h) /\ with_registry(res)
      \/ with_registry(Refuse(n, 401, FALSE))
  BY DEF Heartbeat
<1>2. GoodDoc(mem) /\ mem \in Document /\ Unseen(mem) /\ GoodDoc(mem')
  BY DEF IInv, GoodDoc, LInv
<1> HIDE DEF c, n
<1>3. CASE with_registry(Refuse(n, 401, FALSE))
  BY <1>3, RefusalStutters, AlikeItself, ZenonT(60)
<1>4. CASE verify_heartbeat_token(l, h) /\ with_registry(res)
  <2>1. res.doc = doc /\ res.save = TRUE  OBVIOUS
  <2>2. rep \in Digest \cup {None} /\ mem.runners[l].profile \in Profile \cup {None}
    BY <1>2 DEF Document, Runner
  <2>3. doc = [mem EXCEPT !.runners = Q, !.rows = R]
    BY <1>2 DEF HeartbeatDoc, Document
  <2>4. /\ \A m \in Lane : Q[m].image = IF m = l THEN rep ELSE mem.runners[m].image
        /\ \A m \in Lane : Q[m].status = mem.runners[m].status
    BY <1>2 DEF Document, Runner
  <2> HIDE DEF rep
  <2>5. \A k \in Key : R[k] = IF k[1] = l
                              THEN HeartbeatRow(mem.rows[k], k[2], mem.runners[l].profile,
                                                rep, gap, p)
                              ELSE mem.rows[k]
    OBVIOUS
  <2> HIDE DEF Q, R, doc, res
  <2>6. doc.rows = R /\ doc.runners = Q /\ doc.consumed = mem.consumed
    BY <1>2, <2>3 DEF Document
  <2>7. mem.runners[l].status # "unknown"  BY <1>4 DEF verify_heartbeat_token
  <2>8. Unseen(doc)  BY <1>2, <2>4, <2>6, <2>7 DEF Unseen
  <2>9. mem' = doc /\ LInv'  BY <1>4, <2>1, <2>8, WithRegistrySaves
  <2>10. PICK d \in Digest \cup {None} : d = rep  BY <2>2
  <2>11. PICK profile \in Profile \cup {None} : profile = mem.runners[l].profile  BY <2>2
  <2>12. Lifecycle!Beat(l, d)
    <3>1. /\ \A m \in Lane : mem'.runners[m].image
                               = IF m = l THEN d ELSE mem.runners[m].image
          /\ mem'.consumed = mem.consumed
      BY <2>4, <2>6, <2>9, <2>10
    <3>2. \A k \in Key : mem'.rows[k] = IF k[1] = l
                           THEN HeartbeatRow(mem.rows[k], k[2], profile, d, gap, p)
                           ELSE mem.rows[k]
      BY <2>5, <2>6, <2>9, <2>10, <2>11
    <3>3. Applied(l, d, gap, p, profile)  BY <3>1, <3>2 DEF Applied
    <3> QED BY ONLY <1>2, <2>10, <2>11, <3>3, l \in Lane, HeartbeatBeats
  <2>13. Lifecycle!Next  BY <2>12 DEF Lifecycle!Next
  <2> QED BY <2>9, <2>13
<1> QED BY <1>1, <1>3, <1>4

LEMMA EnrollImplements ==
    ASSUME "save" \notin Faults, IInv, LInv, NEW l \in Lane, NEW t, Enroll(l, t)
    PROVE  LInv' /\ Alike(mem', mem)
<1>1. mem \in Document /\ Unseen(mem)  BY DEF IInv, GoodDoc, LInv
<1>2. CASE EnrollRefused(l, t)
  <2> DEFINE c == [NoCall("enroll") EXCEPT !.lane = l]
  <2>1. with_registry(Refuse(c, 409, FALSE)) \/ with_registry(Refuse(c, 401, FALSE))
    BY <1>2 DEF EnrollRefused
  <2> HIDE DEF c
  <2> QED BY <2>1, RefusalStutters, AlikeItself, ZenonT(60)
<1>3. CASE EnrollAccepted(l, t)
  <2> PICK h \in FreshHbt :
          with_registry([doc |-> EnrollDoc(mem, l, t, h), save |-> TRUE, ack |-> {},
                         call |-> [NoCall("enroll") EXCEPT !.lane = l, !.status = 200]])
    BY <1>3 DEF EnrollAccepted
  <2> DEFINE doc == EnrollDoc(mem, l, t, h)
             res == [doc |-> doc, save |-> TRUE, ack |-> {},
                     call |-> [NoCall("enroll") EXCEPT !.lane = l, !.status = 200]]
             q == [Unknown EXCEPT !.status = "enrolled", !.tok = h]
             Q == [mem.runners EXCEPT ![l] = q]
             T == mem.tokens \ {t}
  <2>1. with_registry(res) /\ res.doc = doc /\ res.save = TRUE  OBVIOUS
  <2>2. doc = [mem EXCEPT !.tokens = T, !.runners = Q]
    BY <1>1 DEF EnrollDoc, Document
  <2>3. q.image = None /\ q.status = "enrolled"  BY DEF Unknown
  <2> HIDE DEF q, T
  <2>4. \A m \in Lane : Q[m] = IF m = l THEN q ELSE mem.runners[m]
    BY <1>1 DEF Document
  <2> HIDE DEF Q, doc, res
  <2>5. doc.rows = mem.rows /\ doc.runners = Q /\ doc.consumed = mem.consumed
    BY <1>1, <2>2 DEF Document
  <2>6. mem.runners[l].image = None
    BY <1>1, <1>3 DEF EnrollAccepted, Unseen
  <2>7. Unseen(doc)  BY <1>1, <2>3, <2>4, <2>5 DEF Unseen
  <2>8. mem' = doc /\ LInv'  BY <2>1, <2>7, WithRegistrySaves
  <2>9. Alike(doc, mem)  BY <2>3, <2>4, <2>5, <2>6 DEF Alike, SameRow
  <2> QED BY <2>8, <2>9
<1> QED BY <1>2, <1>3 DEF Enroll

LEMMA RevokeImplements ==
    ASSUME "save" \notin Faults, IInv, LInv, NEW l \in Lane, NEW h, Revoke(l, h)
    PROVE  LInv' /\ Alike(mem', mem)
<1> DEFINE c == [NoCall("revoke") EXCEPT !.lane = l]
           doc == RevokeDoc(mem, l)
           res == [doc |-> doc, save |-> TRUE, ack |-> {[revoked |-> l]},
                   call |-> [c EXCEPT !.status = 200]]
           q == [mem.runners[l] EXCEPT !.status = "revoked", !.tok = None]
           Q == [mem.runners EXCEPT ![l] = q]
<1>1. with_registry(res) \/ with_registry(Refuse(c, 401, FALSE))
  BY DEF Revoke
<1>2. mem \in Document /\ Unseen(mem)  BY DEF IInv, GoodDoc, LInv
<1> HIDE DEF c
<1>3. CASE with_registry(Refuse(c, 401, FALSE))
  BY <1>3, RefusalStutters, AlikeItself, ZenonT(60)
<1>4. CASE with_registry(res)
  <2>1. res.doc = doc /\ res.save = TRUE  OBVIOUS
  <2>2. doc = [mem EXCEPT !.runners = Q]  BY <1>2 DEF RevokeDoc, Document
  <2>3. q.image = mem.runners[l].image /\ q.status = "revoked"
    BY <1>2 DEF Document, Runner
  <2> HIDE DEF q
  <2>4. \A m \in Lane : Q[m] = IF m = l THEN q ELSE mem.runners[m]
    BY <1>2 DEF Document
  <2> HIDE DEF Q, doc, res
  <2>5. doc.rows = mem.rows /\ doc.runners = Q /\ doc.consumed = mem.consumed
    BY <1>2, <2>2 DEF Document
  <2>6. Unseen(doc)  BY <1>2, <2>3, <2>4, <2>5 DEF Unseen
  <2>7. mem' = doc /\ LInv'  BY <1>4, <2>1, <2>6, WithRegistrySaves
  <2>8. Alike(doc, mem)  BY <2>3, <2>4, <2>5 DEF Alike, SameRow
  <2> QED BY <2>7, <2>8
<1> QED BY <1>1, <1>3, <1>4

LEMMA SetLaneProfileImplements ==
    ASSUME IInv, LInv, NEW l \in Lane, NEW p, SetLaneProfile(l, p)
    PROVE  LInv' /\ Alike(mem', mem)
<1> DEFINE q == [mem.runners[l] EXCEPT !.profile = p]
           Q == [mem.runners EXCEPT ![l] = q]
<1>1. mem \in Document  BY DEF IInv, GoodDoc
<1>2. mem' = [mem EXCEPT !.runners = Q] /\ disk' = disk
  BY <1>1 DEF SetLaneProfile, Document
<1>3. \A m \in Lane : /\ Q[m].image = mem.runners[m].image
                      /\ Q[m].status = mem.runners[m].status
  BY <1>1 DEF Document, Runner
<1> HIDE DEF Q
<1>4. mem'.rows = mem.rows /\ mem'.runners = Q /\ mem'.consumed = mem.consumed
  BY <1>1, <1>2 DEF Document
<1>5. Alike(mem', mem)  BY <1>3, <1>4 DEF Alike, SameRow
<1>6. Alike(mem', disk')  BY <1>2, <1>5 DEF LInv, Alike, SameRow
<1>7. Unseen(mem') /\ Unseen(disk')  BY <1>2, <1>3, <1>4 DEF LInv, Unseen
<1> QED BY <1>5, <1>6, <1>7 DEF LInv

LEMMA RestartImplements ==
    ASSUME IInv, LInv, Restart
    PROVE  LInv' /\ Alike(mem', mem)
<1> DEFINE doc == load_enrollment_tokens(disk)
           T == disk.tokens \cup Token
<1>1. disk \in Document  BY DEF IInv, GoodDoc
<1>2. doc = [disk EXCEPT !.tokens = T]  BY DEF load_enrollment_tokens
<1> HIDE DEF T, doc
<1>3. doc.rows = disk.rows /\ doc.runners = disk.runners /\ doc.consumed = disk.consumed
  BY <1>1, <1>2 DEF Document
<1>4. mem' = doc /\ disk' = doc  BY DEF Restart, doc
<1>5. Alike(mem', mem) /\ Alike(mem', disk')
  BY <1>3, <1>4 DEF LInv, Alike, SameRow
<1>6. Unseen(mem') /\ Unseen(disk')  BY <1>3, <1>4 DEF LInv, Unseen
<1> QED BY <1>5, <1>6 DEF LInv

LEMMA InitImplements == ASSUME Init PROVE LInv /\ Lifecycle!Init
<1>1. PICK hbt \in [Enrolled0 -> Hbt], prof \in [Enrolled0 -> Profile \cup {None}] :
        mem = [tokens |-> Token,
               runners |-> [l \in Lane |->
                   IF l \in Enrolled0
                   THEN [Unknown EXCEPT !.status = "enrolled",
                                        !.tok = hbt[l], !.profile = prof[l]]
                   ELSE Unknown],
               rows |-> [k \in Key |-> NoRow],
               consumed |-> {}]
  BY DEF Init
<1>2. mem.rows = [k \in Key |-> NoRow] /\ mem.consumed = {}  BY <1>1
<1>3. \A l \in Lane : mem.runners[l].image = None  BY <1>1 DEF Unknown
<1>4. disk = mem  BY DEF Init
<1> HIDE <1>1
<1>5. LInv  BY <1>3, <1>4 DEF LInv, Alike, SameRow, Unseen
<1>6. Lifecycle!Init
  BY <1>2, <1>3 DEF Lifecycle!Init, Lifecycle!Key, Key, NoRow
<1> QED BY <1>5, <1>6

LEMMA NextImplements ==
    ASSUME "save" \notin Faults
    PROVE  IInv /\ IInv' /\ LInv /\ [Next]_vars
             => LInv' /\ [Lifecycle!Next]_Lifecycle!vars
<1> SUFFICES ASSUME IInv, IInv', LInv, [Next]_vars
             PROVE  LInv' /\ (Alike(mem', mem) \/ Lifecycle!Next)
  BY AlikeStutters
<1>1. ASSUME NEW l \in Lane, NEW t \in Token \cup {None}, Enroll(l, t)
      PROVE  LInv' /\ Alike(mem', mem)
  BY <1>1, EnrollImplements
<1>2. ASSUME NEW l \in Lane, NEW h \in Hbt \cup {None}, Revoke(l, h)
      PROVE  LInv' /\ Alike(mem', mem)
  BY <1>2, RevokeImplements
<1>3. ASSUME NEW l \in Lane, NEW h \in Hbt \cup {None},
             NEW dig \in Digest \cup {None, Unreported}, NEW gap \in Gap,
             NEW p \in BOOLEAN, Heartbeat(l, h, dig, gap, p)
      PROVE  LInv' /\ (Alike(mem', mem) \/ Lifecycle!Next)
  BY <1>3, HeartbeatImplements
<1>4. ASSUME NEW l \in Lane, NEW p \in Profile \cup {None}, SetLaneProfile(l, p)
      PROVE  LInv' /\ Alike(mem', mem)
  BY <1>4, SetLaneProfileImplements
<1>5. ASSUME NEW k \in Key, NEW d \in OperatorDecision(k) \cup BadDecision(k), Decide(k, d)
      PROVE  LInv' /\ (Alike(mem', mem) \/ Lifecycle!Next)
  BY <1>5, DecideImplements
<1>6. ASSUME NEW k \in Key, NEW b \in BuilderReport(k) \cup OtherReport(k), ReportBuild(k, b)
      PROVE  LInv' /\ (Alike(mem', mem) \/ Lifecycle!Next)
  BY <1>6, ReportBuildImplements
<1>7. CASE Restart  BY <1>7, RestartImplements
<1>8. CASE Tick \/ UNCHANGED vars
  <2>1. mem' = mem /\ disk' = disk  BY <1>8 DEF Tick, vars
  <2> QED BY <2>1, AlikeItself DEF LInv, Alike, SameRow, Unseen
<1> QED BY <1>1, <1>2, <1>3, <1>4, <1>5, <1>6, <1>7, <1>8 DEF Next

\* With saves that succeed, every handler, heartbeat and restart is a step of
\* the promised life cycle or leaves it alone, whatever answers are lost
\* (decide_request, report_build, Registry.heartbeat, with_registry).
THEOREM HubImplementsLifecycle ==
    ASSUME "save" \notin Faults PROVE Spec => ImplementsLifecycle
<1>1. Init => LInv /\ Lifecycle!Init  BY InitImplements
<1>2. IInv /\ IInv' /\ LInv /\ [Next]_vars => LInv' /\ [Lifecycle!Next]_Lifecycle!vars
  BY NextImplements
<1> QED BY <1>1, <1>2, Invariance, PTL DEF Spec, ImplementsLifecycle, Lifecycle!Spec
=============================================================================
