-------------------------- MODULE CoherencePolicy --------------------------
(***************************************************************************)
(* The decision rules of the coherence service (src/hub/coherence): what   *)
(* the central policy bundle, the repository's overlay, the assertion      *)
(* graph, the adoption ladder and the exit matrix compute from their       *)
(* inputs.  Every operator is a function of its arguments; CoherenceRun    *)
(* says when each of them reads which file.                                *)
(*                                                                         *)
(* Digests are contents: two documents have the same digest exactly when   *)
(* they are equal, so a digest is modelled by the document it is of.       *)
(***************************************************************************)
EXTENDS Integers, Sequences, FiniteSets, SequencesExt

CONSTANTS Nothing,      \* a key that a document does not carry, None
          Refused       \* the exception an operation raises

Severity == 0..3        \* low, medium, high, critical

-----------------------------------------------------------------------------
(* The bundle: policy.json.                                                *)

\* stages.max_advisory_age_days without advisory_escalation is refused.
check_advisory_escalation(bundle) ==
    \/ bundle.stages = Nothing
    \/ /\ bundle.escalation # Nothing
       /\ bundle.escalation.on_expiry = "block"
       /\ \/ bundle.escalation.renewal = Nothing
          \/ /\ bundle.escalation.renewal.requires = "central-approval"
             /\ bundle.escalation.renewal.max_extension_days >= 1

\* The pinned bundle is the one the context binds, at or above its epoch
\* floor, or one that a window open at the evaluation time grandfathers.
GrandfatheredToday(bundle, binding, time) ==     \* mutant: the window's end counts
    \E g \in binding.grandfathers : g.bundle = bundle /\ g.valid_until >= time

Grandfathered(bundle, binding, time) ==
    \E g \in binding.grandfathers : g.bundle = bundle /\ g.valid_until > time

check_anti_rollback(bundle, binding, time) ==
    /\ binding # Nothing
    /\ IF bundle = binding.expected
       THEN bundle.epoch # Nothing /\ bundle.epoch >= binding.min_bundle_epoch
       ELSE Grandfathered(bundle, binding, time)

\* attest.check_anti_rollback: the floor of the control plane, when there is one.
EpochFloorMet(bundle, floor) ==
    floor = Nothing \/ (bundle.min_epoch # Nothing /\ bundle.min_epoch >= floor)

\* policy.resolve: identity first, then authority, then completeness.
resolve(bundle, expected, binding, time) ==
    /\ bundle # Nothing
    /\ bundle = expected
    /\ check_anti_rollback(bundle, binding, time)
    /\ check_advisory_escalation(bundle)

DEFAULT_ENFORCED_CORE == {"identity", "traceability", "release-claim"}

enforced_core_classes(bundle) ==
    IF bundle.stages = Nothing \/ bundle.stages.core = Nothing
    THEN DEFAULT_ENFORCED_CORE
    ELSE IF bundle.stages.core = {} THEN Refused ELSE bundle.stages.core

-----------------------------------------------------------------------------
(* The repository's overlay: it may strengthen the assertions, never       *)
(* weaken them.  An assertion is a record with its id, evaluator, severity,*)
(* dependencies, requirement references and subject selectors.             *)

\* One entry of overlay["assertions"] applied to the assertions by id.
OverlayEntry(byId, change, central) ==
    LET aid == change.id IN
    IF byId = Refused THEN Refused
    ELSE IF change.disabled
    THEN IF aid \in central.required
         THEN Refused
         ELSE [i \in DOMAIN byId \ {aid} |-> byId[i]]
    ELSE IF \/ aid \notin DOMAIN byId
            \/ /\ change.severity # Nothing
               /\ \/ change.severity \notin Severity
                  \/ aid \in DOMAIN central.floors /\ change.severity < central.floors[aid]
            \/ /\ change.evaluator # Nothing
               /\ central.approved # {}
               /\ change.evaluator \notin central.approved
    THEN Refused
    ELSE [byId EXCEPT
            ![aid].severity  = IF change.severity # Nothing THEN change.severity ELSE @,
            ![aid].evaluator = IF change.evaluator # Nothing THEN change.evaluator ELSE @]

\* overlay["add_assertions"] brings in new ids only.
OverlayAdd(byId, added) ==
    IF byId = Refused \/ added.id \in DOMAIN byId
    THEN Refused
    ELSE [i \in DOMAIN byId \cup {added.id} |-> IF i = added.id THEN added ELSE byId[i]]

\* The assertions by id after the changes, one after the other, and after the
\* additions.
Changed(byId, changes, central) ==
    LET after[n \in 0..Len(changes)] ==
          IF n = 0 THEN byId ELSE OverlayEntry(after[n - 1], changes[n], central)
    IN  after[Len(changes)]

Extended(byId, adds) ==
    LET after[n \in 0..Len(adds)] ==
          IF n = 0 THEN byId ELSE OverlayAdd(after[n - 1], adds[n])
    IN  after[Len(adds)]

apply_overlay(assertions, overlay, central) ==
    LET byId    == [i \in {a.id : a \in ToSet(assertions)} |->
                       CHOOSE a \in ToSet(assertions) : a.id = i]
        final   == Extended(Changed(byId, overlay.changes, central), overlay.adds)
        Kept(a) == IF a.id \in DOMAIN final THEN <<final[a.id]>> ELSE <<>>
    IN  IF final = Refused \/ overlay.grants
        THEN Refused
        ELSE FlattenSeq([k \in DOMAIN assertions |-> Kept(assertions[k])]) \o overlay.adds

-----------------------------------------------------------------------------
(* Planning: the assertion graph is complete and is put in an order in     *)
(* which dependencies come first.                                          *)

\* Every reference is to a requirement of the package, and every testable
\* requirement of the package is referred to.
check_traceability(assertions, requirements) ==
    LET claimed == UNION {a.refs : a \in ToSet(assertions)} IN
    /\ DOMAIN requirements # {} => claimed \subseteq DOMAIN requirements
    /\ \A q \in DOMAIN requirements : requirements[q].testable => q \in claimed

\* The visits of a list of ids, one after the other: "visit" maps the order so
\* far and an id to the order after it.  An unknown id is refused.
InTurn(visit, ids, order, list) ==
    LET after[n \in 0..Len(list)] ==
          IF n = 0 THEN order
          ELSE IF after[n - 1] = Refused \/ list[n] \notin ids THEN Refused
          ELSE visit[after[n - 1]][list[n]]
    IN  after[Len(list)]

\* The nested visit of the assertions, by the set of those that are not on the
\* stack: depth first, each assertion appended after its dependencies; one that
\* is still open closes a cycle.
Visited(visit, byId, free) ==
    [order \in Seq(DOMAIN byId) |-> [aid \in DOMAIN byId |->
       LET below == InTurn(visit[free \ {aid}], DOMAIN byId, order, byId[aid].deps) IN
       IF aid \in ToSet(order) THEN order
       ELSE IF aid \notin free \/ below = Refused THEN Refused
       ELSE Append(below, aid)]]

Visit(byId) ==
    LET visit[free \in SUBSET DOMAIN byId] == Visited(visit, byId, free) IN visit

\* The fields of an assertion; a parameter that is left out has its default.
ASSERTION == {"id", "evaluator", "severity", "deps", "refs", "subjects", "marker_scan", "pin",
              "check", "capture", "min_clear", "min_bounds", "part_kinds"}

\* _check_assertion: the fields are there, the dependencies are a list, a
\* requirement is referred to and the evaluator is built in.
check_assertion(a, builtins) ==
    /\ ASSERTION \subseteq DOMAIN a
    /\ a.deps \in Seq(ToSet(a.deps))
    /\ a.refs # {}
    /\ a.evaluator \in builtins

\* Central policy cannot be weakened by omission.
NoneOmitted(required, ids) == required \subseteq ids

plan(assertions, required, requirements, builtins) ==
    LET ids  == {a.id : a \in ToSet(assertions)}
        byId == [i \in ids |-> CHOOSE a \in ToSet(assertions) : a.id = i]
        done == InTurn(Visit(byId)[ids], ids, <<>>,
                       [k \in DOMAIN assertions |-> assertions[k].id])
    IN  IF \/ \E a \in ToSet(assertions) : ~check_assertion(a, builtins)
           \/ requirements # Nothing /\ ~check_traceability(assertions, requirements)
           \/ Cardinality(ids) # Len(assertions)
           \/ ~NoneOmitted(required, ids)
           \/ done = Refused
        THEN Refused
        ELSE [k \in DOMAIN done |-> byId[done[k]]]

-----------------------------------------------------------------------------
(* The adoption ladder.                                                    *)

fingerprint(f) == <<f.aid, f.loc, f.class>>

\* Stage 4 ends the baseline's shelter, stage 3 ends it for the core.
ShelterEnds(stage, evaluator, core) == stage >= 4 \/ (stage = 3 /\ evaluator \in core)

validate_exceptions(exceptions) == \A e \in exceptions : ~e.wildcard

\* Open debt whose assertion's floor has risen above the severity it was
\* adopted with.
Escalated(fp, baseline, floors) ==
    \E b \in baseline :
       /\ b.fp = fp /\ b.open
       /\ fp[1] \in DOMAIN floors /\ b.severity # Nothing
       /\ floors[fp[1]] > b.severity

\* report.advisory_age: the shelter is spent when the recorded expiry has
\* come, or without one when the age exceeds the cap; no record, no verdict.
advisory_age(record, cap, stage, time) ==
    /\ stage # 0
    /\ record # Nothing
    /\ IF record.expiry # Nothing
       THEN record.expiry <= time
       ELSE cap # 0 /\ time - record.started > cap

\* What the ladder makes of one finding.
Enforce(f, in) ==
    LET fp == fingerprint(f) IN
    IF f.class = "unpinned-model-advice" \/ in.stage < 2 THEN "ADVISORY"
    ELSE IF \E e \in in.exceptions : e.fp = fp /\ e.expires <= in.time THEN "BLOCK"
    ELSE IF \E e \in in.exceptions : e.fp = fp THEN "EXCEPTION-ADVISORY"
    ELSE IF /\ \E b \in in.baseline : b.fp = fp /\ b.open
            /\ ~Escalated(fp, in.baseline, in.floors)
            /\ ~in.advisory_expired
            /\ ~ShelterEnds(in.stage, in.evaluator[f.aid], in.core)
    THEN "ADVISORY"
    ELSE "BLOCK"

Strictest(enforcements) ==
    IF "BLOCK" \in enforcements THEN "BLOCK"
    ELSE IF "EXCEPTION-ADVISORY" \in enforcements THEN "EXCEPTION-ADVISORY"
    ELSE "ADVISORY"

\* The ledger's row of an assertion after the ladder.
RowEnforcement(aid, outcome, findings, in) ==
    LET own == {Enforce(f, in) : f \in {g \in findings : g.aid = aid}} IN
    CASE outcome = "SATISFIED"  -> "ADVISORY"
      [] outcome = "VIOLATED"   -> IF own = {} THEN "BLOCK" ELSE Strictest(own)
      [] outcome = "UNRESOLVED" -> IF in.stage >= 2 THEN "BLOCK" ELSE "ADVISORY"

adoption_evaluate(ledger, findings, in) ==
    LET rows == [a \in DOMAIN ledger |-> RowEnforcement(a, ledger[a], findings, in)]
    IN  [rows    |-> rows,
         blocked |-> \/ \E f \in findings : Enforce(f, in) = "BLOCK"
                     \/ \E a \in DOMAIN rows : rows[a] = "BLOCK"]

-----------------------------------------------------------------------------
(* The decision and its exit code.                                         *)

ExitOfError ==
    [invalid_input |-> 30, policy_resolution |-> 31, execution |-> 32,
     evidence |-> 33, attestation |-> 33, protocol |-> 40]

decide(ledger, blocked) ==
    IF blocked THEN "FAIL"
    ELSE IF \E a \in DOMAIN ledger : ledger[a] # "SATISFIED" THEN "ADVISORY"
    ELSE "PASS"

ExitOfDecision == [PASS |-> 0, ADVISORY |-> 10, FAIL |-> 20]

\* container_exec: the decision an exit code must come with.
DecisionForCode(code) ==
    CASE code = 0 -> "PASS" [] code = 10 -> "ADVISORY" [] code = 20 -> "FAIL"
      [] code \in {30, 31, 32, 33, 40} -> "ERROR"
      [] OTHER -> Nothing
=============================================================================
