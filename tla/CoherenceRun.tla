---------------------------- MODULE CoherenceRun ----------------------------
(***************************************************************************)
(* One evaluation of the coherence service and what surrounds it: the      *)
(* control plane that issues contexts, the files a run reads one after the *)
(* other while other actors rewrite them, the output directory it shares   *)
(* with earlier and abandoned runs, the host that launches it in a         *)
(* container, and the consumer that verifies what it sealed                *)
(* (src/hub/coherence: __main__, evaluate, issue, context, attest,         *)
(* attest_detached, evidence, result, invoke, launcher, container_exec,    *)
(* profiles, verification, cli_verify).                                    *)
(***************************************************************************)
EXTENDS CoherenceSubject

CONSTANTS
    Run,            \* invocations of the service
    Worlds0,        \* the files and registers before anything happens
    Trees, Packages, Bundles, Overlays, Baselines,
                    \* contents that other actors may put in place; the
                    \* trees by kind of subject
    Issues,         \* what the control plane is asked to issue
    Launches,       \* launch configurations and output directories a host may be
                    \* given
    Registry,       \* the execution profiles: label -> manifest digest
    SignerKeys,     \* "run", "plural" or "none": the keys configured
    Versions,       \* contract versions that requests carry
    Reverts,        \* TRUE: an edit may put an earlier tree back
    SpecsRace,      \* TRUE: the package may change between its resolution and
                    \* the loading of its assertions
    MaxEdits,       \* bound on edits of other actors and on issuing again
    MaxFaults       \* bound on crashes, failed writes and timeouts

\* The contents that a run may meet.
AnyPackage    == Packages \cup {w.package : w \in Worlds0}
AnyBundle     == Bundles \cup {w.bundle : w \in Worlds0}
AnyOverlay    == (Overlays \cup {w.overlay : w \in Worlds0}) \ {Nothing}
AnyTree(kind) == Trees[kind] \cup {w.tree : w \in {v \in Worlds0 : v.kind = kind}}

\* A package lists its spec files, and each lists assertions; an overlay lists
\* its changes and additions.  Stages and instants are numbers.
ASSUME PackagesAssumption ==
    \A p \in AnyPackage :
       /\ p.specs \in Seq(DOMAIN p.files)
       /\ \A s \in ToSet(p.specs) : p.files[s] \in Seq(ToSet(p.files[s]))

ASSUME OverlaysAssumption ==
    \A o \in AnyOverlay :
       o.changes \in Seq(ToSet(o.changes)) /\ o.adds \in Seq(ToSet(o.adds))

ASSUME WorldsAssumption ==
    /\ Nothing \notin Nat
    /\ \A w \in Worlds0 :
         /\ {"tree", "kind", "package", "bundle", "overlay", "baseline", "exceptions", "facts",
             "record", "stage", "revoked"} \subseteq DOMAIN w
         /\ w.stage \in 0..4

ASSUME IssuesAssumption ==
    \A i \in Issues :
       /\ i.time \in Nat
       /\ i.exceptions # Nothing => \A e \in i.exceptions : e.expires \in Nat

VARIABLES
    world,          \* subject, package, policy directory, registers
    ctx,            \* context.json, or Nothing
    pending,        \* the context of an issuance between its two writes
    run,            \* the processes of the invocations
    answer,         \* the exit code each invocation's caller got, or Nothing
    out,            \* the files that are in the shared output directory
    issued,         \* every context ever written by the issuer
    trees,          \* every tree the subject has been
    edits, faults   \* the bounds' counters

vars == <<world, ctx, pending, run, answer, out, issued, trees, edits, faults>>

Retired == {}          \* compat._RETIRED

Idle == [pc |-> "idle"]
Gone == [pc |-> "gone"]
Late == [pc |-> "late"]       \* an abandoned container that has ended

\* Extends a record by fields.
With(rec, more) ==
    [f \in DOMAIN rec \cup DOMAIN more |-> IF f \in DOMAIN more THEN more[f] ELSE rec[f]]

\* Whether a file is in the output directory, and writing files into it over
\* what is there.
Written(file) == file \in DOMAIN out
Write(files)  == out' = With(out, files)

-----------------------------------------------------------------------------
(* The control plane: issue.py.                                            *)

\* A weaker stage than the registered one is refused.
effective_stage(requested) ==
    IF requested # Nothing /\ requested < world.stage THEN Refused ELSE world.stage

\* The context that issue_context writes: it binds the bundle that is in the
\* policy directory and the sets it was given; a set it was not given has no
\* digest.
NewContext(i) ==
    [time       |-> i.time,
     stage      |-> effective_stage(i.requested),
     semantics  |-> i.semantics,
     binding    |-> [expected |-> world.bundle,
                     min_bundle_epoch |->
                        IF world.bundle.min_epoch = Nothing THEN 0 ELSE world.bundle.min_epoch,
                     grandfathers |-> i.grandfathers],
     baseline   |-> i.baseline,
     exceptions |-> i.exceptions,
     facts      |-> i.facts,
     floor      |-> Nothing,
     profile    |-> i.profile,
     signed     |-> TRUE]

\* issue_context, up to its write of the sets ...
IssueSets(i) ==
    /\ pending = Nothing
    /\ world.bundle # Nothing
    /\ effective_stage(i.requested) # Refused
    /\ NewContext(i) \notin issued
    /\ \/ issued = {} /\ UNCHANGED edits
       \/ issued # {} /\ edits < MaxEdits /\ edits' = edits + 1
    /\ pending' = NewContext(i)
    /\ world' = [world EXCEPT
                   !.baseline   = IF i.baseline # Nothing THEN i.baseline ELSE @,
                   !.exceptions = IF i.exceptions # Nothing THEN i.exceptions ELSE @]
    /\ UNCHANGED <<ctx, run, answer, out, issued, trees, faults>>

\* ... and its write of context.json.
IssueContext ==
    /\ pending # Nothing
    /\ ctx' = pending
    /\ issued' = issued \cup {pending}
    /\ pending' = Nothing
    /\ UNCHANGED <<world, run, answer, out, trees, edits, faults>>

\* The countersignature over the context as it is now.
verify_signature(c) == c.signed

\* context.load: with a control-plane key, only what it signed.
context_load == IF ctx = Nothing \/ ~verify_signature(ctx) THEN Refused ELSE ctx

-----------------------------------------------------------------------------
(* The other actors that write the same files.                             *)

\* The repository edits its subject, its package, its overlay or the sets in
\* the policy directory; central policy publishes a bundle or raises the
\* stage; somebody rewrites the context; the signer is revoked.
Edit ==
    /\ edits < MaxEdits
    /\ edits' = edits + 1
    /\ \/ \E t \in Trees[world.kind] \ (IF Reverts THEN {world.tree} ELSE trees) :
             world' = [world EXCEPT !.tree = t] /\ trees' = trees \cup {t} /\ UNCHANGED ctx
       \/ \E p \in Packages \ {world.package} :
             /\ SpecsRace \/ \A r \in Run : run[r].pc \notin {"context", "policy", "plan"}
             /\ world' = [world EXCEPT !.package = p]
             /\ UNCHANGED <<trees, ctx>>
       \/ \E o \in Overlays \ {world.overlay} :
             world' = [world EXCEPT !.overlay = o] /\ UNCHANGED <<trees, ctx>>
       \/ \E b \in Baselines \ {world.baseline} :
             world' = [world EXCEPT !.baseline = b] /\ UNCHANGED <<trees, ctx>>
       \/ \E b \in Bundles \ {world.bundle} :
             world' = [world EXCEPT !.bundle = b] /\ UNCHANGED <<trees, ctx>>
       \/ world.stage < 4 /\ world' = [world EXCEPT !.stage = @ + 1] /\ UNCHANGED <<trees, ctx>>
       \/ ~world.revoked /\ world' = [world EXCEPT !.revoked = TRUE] /\ UNCHANGED <<trees, ctx>>
       \/ /\ ctx # Nothing /\ ctx.signed
          /\ ctx' = [ctx EXCEPT !.stage = 0, !.signed = FALSE]
          /\ UNCHANGED <<world, trees>>
    /\ UNCHANGED <<pending, run, answer, out, issued, faults>>

-----------------------------------------------------------------------------
(* Invocation: invoke.py, and for a container launcher.validate_launch and *)
(* the checks of run_containerized before the launch.                      *)

\* invoke.build_request: digests of the inputs as they are.  It takes the
\* policy's from the context's binding; a request written by hand may pin
\* another bundle.
build_request(policy) ==
    [subject   |-> build(world.tree, world.kind),
     package   |-> package_resolve(world.package),
     policy    |-> policy,
     context   |-> ctx]

INPUTS == {"subject", "openspec", "policy", "context"}

\* The launch configuration that goes with it: the reference isolation profile
\* and one readonly mount for each input.
build_launch(profile, manifest_digest) ==
    [image   |-> [name |-> "service", digest |-> manifest_digest],
     plugins |-> {}, user |-> [uid |-> 1000, gid |-> 1000],
     read_only_rootfs |-> TRUE, cap_drop |-> {"ALL"}, cap_add |-> {}, network |-> "none",
     mounts  |-> {[source |-> i, target |-> i, readonly |-> TRUE, socket |-> FALSE] : i \in INPUTS},
     scratch |-> [n |-> 64, suffix |-> "m"],
     limits  |-> [memory |-> [n |-> 256, suffix |-> "m"], time_s |-> 300, output_bytes |-> 1048576],
     profile |-> profile, declared |-> Nothing, image_manifest_digest |-> manifest_digest]

\* The registry of execution profiles pins one digest for each label.
validate_registry(registry) ==
    DOMAIN registry # {} /\ \A label \in DOMAIN registry : registry[label] # Nothing

ASSUME RegistryAssumption == validate_registry(Registry)

declared_profile(label) == label \in DOMAIN Registry

\* The image is named by a digest and not by a tag alone.
validate_image(image) == image.name # Nothing /\ image.digest # Nothing

validate_user(user) == user.uid # 0 /\ user.gid # 0

\* Bytes; that the number before a suffix is positive is not checked.
parse_size(size) ==
    IF size.suffix = "" /\ size.n <= 0 THEN Refused
    ELSE size.n * [k |-> 1000, m |-> 1000000, b |-> 1][IF size.suffix = "" THEN "b" ELSE size.suffix]

\* Every limit is there and is positive.
validate_limits(limits) ==
    /\ {"memory", "time_s", "output_bytes"} \subseteq DOMAIN limits
    /\ parse_size(limits.memory) # Refused /\ parse_size(limits.memory) > 0
    /\ limits.time_s > 0 /\ limits.output_bytes > 0

validate_mounts(mounts) ==
    /\ \A m \in mounts : m.readonly /\ ~m.socket
    /\ \A m, n \in mounts : m.target = n.target => m = n

\* A self-report that disagrees with what the launcher derives is refused.
check_declared(c) ==
    c.declared # Nothing =>
      /\ \A f \in DOMAIN c.declared \cap {"user", "read_only_rootfs", "network", "profile"} :
            c.declared[f] = c[f]
      /\ "cap_drop" \in DOMAIN c.declared => "ALL" \in c.declared.cap_drop

\* launcher.validate_launch: every isolation property is declared.
validate_launch(c) ==
    /\ validate_image(c.image)
    /\ c.plugins = {}
    /\ validate_user(c.user)
    /\ c.read_only_rootfs /\ c.cap_drop = {"ALL"} /\ c.cap_add = {} /\ c.network = "none"
    /\ validate_mounts(c.mounts)
    /\ parse_size(c.scratch) # Refused
    /\ validate_limits(c.limits)
    /\ declared_profile(c.profile)
    /\ c.image_manifest_digest # Nothing
    /\ check_declared(c)

check_launch_digest(c) == c.image_manifest_digest = Registry[c.profile]

\* Where the container finds a root: under a mount that covers it, or nowhere.
container_path(root, mounts) ==
    IF \E m \in mounts : m.source = root
    THEN (CHOOSE m \in mounts : m.source = root).target ELSE Nothing

\* _rewrite_roots: the request as the container gets it.
rewrite_roots(mounts) ==
    IF \E i \in INPUTS : container_path(i, mounts) = Nothing THEN Refused
    ELSE [i \in INPUTS |-> container_path(i, mounts)]

\* The registry pins the declared digest, the image that runs carries it, and
\* the outputs are outside what is mounted.
LaunchAccepted(c, outputs) ==
    /\ validate_launch(c)
    /\ check_launch_digest(c)
    /\ c.image.digest = c.image_manifest_digest
    /\ outputs \notin {m.source : m \in c.mounts}
    /\ rewrite_roots(c.mounts) # Refused

ErrorResult(class, ledger) ==
    [decision |-> "ERROR", class |-> class, ledger |-> ledger]

\* An invocation whose caller has no answer yet.
Live(r) == run[r] # Idle /\ answer[r] = Nothing

\* The environment of a process carries the digest of the image it runs in.
Started(host, policy, image) ==
    [pc |-> "subject", host |-> host, image |-> image, req |-> build_request(policy)]

Invocable(r) ==
    /\ run[r] = Idle /\ answer[r] = Nothing
    /\ \A q \in Run : ~Live(q)
    /\ context_load # Refused
    /\ build(world.tree, world.kind) # Refused
    /\ package_resolve(world.package) # Refused

\* compat.classify: the one supported version, the retired ones, any other.
classify(version) ==
    IF version = "v1" THEN "current" ELSE IF version \in Retired THEN "retired" ELSE "foreign"

\* python -m hub.coherence --request
InvokeLocal(r) ==
    /\ Invocable(r)
    /\ \E policy \in Bundles : run' = [run EXCEPT ![r] = Started("local", policy, Nothing)]
    /\ UNCHANGED <<world, ctx, pending, answer, out, issued, trees, edits, faults>>

\* ... with a request of another contract version: refused unread.
InvokeForeign(r, version) ==
    /\ Invocable(r)
    /\ classify(version) # "current"
    /\ run' = [run EXCEPT ![r] = Gone]
    /\ answer' = [answer EXCEPT ![r] = ExitOfError.protocol]
    /\ Write([result |-> ErrorResult("protocol", Nothing)])
    /\ UNCHANGED <<world, ctx, pending, issued, trees, edits, faults>>

\* ... --launch-config: refused before anything runs, or staged and launched.
InvokeContained(r, c, outputs) ==
    /\ Invocable(r)
    /\ IF LaunchAccepted(c, outputs)
       THEN /\ run' = [run EXCEPT ![r] = Started("waiting", ctx.binding.expected, c.image.digest)]
            /\ UNCHANGED <<answer, out>>
       ELSE /\ run' = [run EXCEPT ![r] = Gone]
            /\ answer' = [answer EXCEPT ![r] = ExitOfError.invalid_input]
            /\ Write([result |-> ErrorResult("invalid_input", Nothing)])
    /\ UNCHANGED <<world, ctx, pending, issued, trees, edits, faults>>

-----------------------------------------------------------------------------
(* The end of a run.                                                       *)

\* A process exits: a local one answers its caller, a container is seen by
\* the host that waits for it, an abandoned one by nobody.
Exits(r, code) ==
    /\ run' = [run EXCEPT ![r] =
                  CASE @.host = "waiting" -> [With(@, [code |-> code]) EXCEPT !.pc = "exited"]
                    [] @.host = "gaveup"  -> Late
                    [] @.host = "local"   -> Gone]
    /\ answer' = IF run[r].host = "local" THEN [answer EXCEPT ![r] = code] ELSE answer

\* _fail: the error envelope is written over result.json.
FailWith(r, class, ledger) ==
    /\ Exits(r, ExitOfError[class])
    /\ Write([result |-> ErrorResult(class, ledger)])
    /\ UNCHANGED <<world, ctx, pending, issued, trees, edits>>

Fail(r, class, ledger) == FailWith(r, class, ledger) /\ UNCHANGED faults

At(r, pc) == run[r].pc = pc

Go(r, new) ==
    /\ run' = [run EXCEPT ![r] = new]
    /\ UNCHANGED <<world, ctx, pending, answer, out, issued, trees, edits, faults>>

-----------------------------------------------------------------------------
(* Resolution: each input is read, and must be what the request expects.   *)

\* What the caller expects is never taken on trust, nor left out.
check_expected(claimed, actual) == claimed # Nothing /\ claimed = actual

ResolveSubject(r) ==
    LET subject == build(world.tree, run[r].req.subject.kind) IN
    /\ At(r, "subject")
    /\ IF subject = Refused \/ ~check_expected(run[r].req.subject, subject)
       THEN Fail(r, "invalid_input", Nothing)
       ELSE Go(r, [run[r] EXCEPT !.pc = "package"])

ResolvePackage(r) ==
    LET package == package_resolve(world.package) IN
    /\ At(r, "package")
    /\ IF package = Refused \/ ~check_expected(run[r].req.package, package)
       THEN Fail(r, "invalid_input", Nothing)
       ELSE Go(r, [run[r] EXCEPT !.pc = "context"])

ResolveContext(r) ==
    /\ At(r, "context")
    /\ IF \/ context_load = Refused
          \/ ~check_expected(run[r].req.context, ctx)
          \/ load_captured_facts(ctx.facts, world.facts) = Refused
       THEN Fail(r, "policy_resolution", Nothing)
       ELSE Go(r, With(run[r], [pc |-> "policy",
                                facts |-> load_captured_facts(ctx.facts, world.facts)]))

\* The digest of the image that runs, when its host injected one.
execution_identity(r) == run[r].image

\* The injected digest is the evaluator's identity; without one, it is the
\* registry's pin for the context's profile.
resolve_evaluator_identity(label, image) ==
    IF image # Nothing THEN image
    ELSE IF declared_profile(label) THEN Registry[label] ELSE Refused

\* policy.resolve, the epoch floor, then the evaluator's identity.
ResolvePolicy(r) ==
    LET c == run[r].req.context
        evaluator == resolve_evaluator_identity(c.profile, execution_identity(r))
    IN
    /\ At(r, "policy")
    /\ IF \/ ~resolve(world.bundle, run[r].req.policy, c.binding, c.time)
          \/ ~EpochFloorMet(world.bundle, c.floor)
       THEN Fail(r, "policy_resolution", Nothing)
       ELSE IF evaluator = Refused
       THEN Fail(r, "invalid_input", Nothing)
       ELSE Go(r, With(run[r], [pc |-> "plan", policy |-> world.bundle, evaluator |-> evaluator]))

\* policy.load_overlay: there need not be one.
NoOverlay    == [changes |-> <<>>, adds |-> <<>>, grants |-> FALSE]
load_overlay == IF world.overlay = Nothing THEN NoOverlay ELSE world.overlay

\* The assertions, the overlay over them, and the plan.
PlanRun(r) ==
    LET loaded  == load_assertions(world.package)
        applied == IF load_overlay = NoOverlay THEN loaded
                   ELSE apply_overlay(loaded, load_overlay, run[r].policy)
        planned == plan(applied, run[r].policy.required,
                        run[r].req.package.requirements, BUILTINS)
    IN
    /\ At(r, "plan")
    /\ IF applied = Refused
       THEN Fail(r, "policy_resolution", Nothing)
       ELSE IF planned = Refused
       THEN Fail(r, "invalid_input", Nothing)
       ELSE Go(r, With(run[r], [pc |-> "read", planned |-> planned, next |-> 1,
                                ledger |-> <<>>, findings |-> {}, error |-> FALSE]))

-----------------------------------------------------------------------------
(* Evaluation: evaluate.run.                                               *)

Current(r) == run[r].planned[run[r].next]

\* A row of the ledger, and on to the next assertion.
Row(rec, a, outcome) ==
    [rec EXCEPT !.ledger = [i \in DOMAIN @ \cup {a.id} |-> IF i = a.id THEN outcome ELSE @[i]],
                !.next   = @ + 1,
                !.pc     = "read"]

MissingFact(r, a) == \E s \in FactSubjects(a) : s.at \notin DOMAIN run[r].facts

DependencyBlocked(r, a) ==
    \E d \in ToSet(a.deps) : d \notin DOMAIN run[r].ledger \/ run[r].ledger[d] # "SATISFIED"

\* One evaluator call: its reads of the subject as it is now.  A call that is
\* not made (a fact is missing, a dependency did not hold) is a row at once.
EvaluatorReads(r) ==
    LET a == Current(r) IN
    /\ At(r, "read") /\ run[r].next <= Len(run[r].planned)
    /\ IF MissingFact(r, a)
       THEN Go(r, Row(run[r], a, "UNRESOLVED"))
       ELSE IF DependencyBlocked(r, a)
       THEN Go(r, [Row(run[r], a, "UNRESOLVED") EXCEPT !.error = TRUE])
       ELSE IF Crashes(a, world.tree)
       THEN Go(r, With(run[r], [pc |-> "reverify", error |-> TRUE, got |-> Unresolved]))
       ELSE Go(r, With(run[r], [pc |-> "reverify",
                                got |-> Evaluate(a, run[r].req.package, world.tree, run[r].facts)]))

\* The closed snapshot verified again after the call.
Reverify(r) ==
    LET a == Current(r) IN
    /\ At(r, "reverify")
    /\ IF first_mutation(run[r].req.subject, world.tree)
       THEN Go(r, [Row(run[r], a, "UNRESOLVED") EXCEPT !.error = TRUE, !.got = {}])
       ELSE Go(r, [Row(run[r], a, OutcomeOf(run[r].got)) EXCEPT
                     !.findings = IF run[r].got = Unresolved THEN @ ELSE @ \cup run[r].got,
                     !.got = {}])

-----------------------------------------------------------------------------
(* Adoption, after an evaluation without an execution error.               *)

\* Mutant: the sets in the policy directory are taken as they are.
BoundSetsUnchecked(c, baseline, exceptions) == TRUE

\* context.verify_bound_sets: only a set whose digest the context names.
verify_bound_sets(c, baseline, exceptions) ==
    /\ c.baseline # Nothing => baseline = c.baseline
    /\ c.exceptions # Nothing => exceptions = c.exceptions

LadderInput(r, baseline, exceptions) ==
    LET c == run[r].req.context  b == run[r].policy IN
    [stage |-> c.stage, time |-> c.time, baseline |-> baseline, exceptions |-> exceptions,
     core |-> enforced_core_classes(b), floors |-> b.floors,
     evaluator |-> [i \in {a.id : a \in ToSet(run[r].planned)} |->
                      (CHOOSE a \in ToSet(run[r].planned) : a.id = i).evaluator],
     advisory_expired |->
        advisory_age(world.record, IF b.stages = Nothing THEN 0 ELSE b.stages.max_age,
                     c.stage, c.time)]

\* policy.load_adoption_sets: a set whose file is not there is empty.
load_adoption_sets ==
    [baseline   |-> IF world.baseline = Nothing THEN {} ELSE world.baseline,
     exceptions |-> IF world.exceptions = Nothing THEN {} ELSE world.exceptions]

Adopt(r) ==
    LET baseline   == load_adoption_sets.baseline
        exceptions == load_adoption_sets.exceptions
        ladder     == adoption_evaluate(run[r].ledger, run[r].findings,
                                        LadderInput(r, baseline, exceptions))
    IN
    /\ At(r, "read") /\ run[r].next > Len(run[r].planned)
    /\ IF run[r].error
       THEN Fail(r, "execution", run[r].ledger)
       ELSE IF \/ enforced_core_classes(run[r].policy) = Refused
               \/ ~verify_bound_sets(run[r].req.context, baseline, exceptions)
               \/ ~validate_exceptions(exceptions)
       THEN Fail(r, "policy_resolution", Nothing)
       ELSE Go(r, With(run[r], [pc |-> "seal", blocked |-> ladder.blocked]))

-----------------------------------------------------------------------------
(* Sealing: evidence, decision, attestation, envelope, in this order.      *)

\* A write that raises OSError, while the bound on faults allows one.
Spend == faults < MaxFaults /\ faults' = faults + 1

\* Mutant: without findings there is nothing to seal.
SealFindings(r) ==
    /\ At(r, "seal")
    /\ IF run[r].findings = {} THEN UNCHANGED out
       ELSE Write([objects |-> out.objects \cup run[r].findings, manifest |-> run[r].findings])
    /\ run' = [run EXCEPT ![r].pc = "result"]
    /\ UNCHANGED <<world, ctx, pending, answer, issued, trees, edits, faults>>

\* evidence.seal: one object per finding, named by its digest, then the
\* manifest over them.
SealEvidence(r) ==
    /\ At(r, "seal")
    /\ Write([objects |-> out.objects \cup run[r].findings, manifest |-> run[r].findings])
    /\ run' = [run EXCEPT ![r].pc = "result"]
    /\ UNCHANGED <<world, ctx, pending, answer, issued, trees, edits, faults>>

\* ... and the write of it that fails.
SealFails(r) ==
    /\ At(r, "seal")
    /\ Spend
    /\ FailWith(r, "evidence", Nothing)

\* evidence.verify: the objects are there, and the manifest is the expected one.
evidence_verify(expected) ==
    /\ Written("manifest")
    /\ out.manifest \subseteq out.objects
    /\ out.manifest = expected

\* result.build.
ResultOf(r) ==
    [decision |-> decide(run[r].ledger, run[r].blocked),
     semantics |-> run[r].req.context.semantics,
     subject  |-> run[r].req.subject, package |-> run[r].req.package,
     policy   |-> run[r].policy,      context |-> run[r].req.context,
     evaluator |-> run[r].evaluator,
     ledger   |-> run[r].ledger,      evidence |-> run[r].findings]

CodeOf(r) == ExitOfDecision[decide(run[r].ledger, run[r].blocked)]

\* attest._key: the single key, which the host forwards to a container.
signer_key == SignerKeys = "run"

\* attest_base._keys: the identities with a key; they are not forwarded.
keys(r) == IF SignerKeys = "plural" /\ run[r].host = "local" THEN {"runner"} ELSE {}

required(c) == c.stage >= 2 /\ c.semantics = "fresh-promotion"

\* seal_run's write of the decision; when it fails the result lands in a
\* fallback directory and the run goes on.
EmitResult(r) ==
    /\ At(r, "result")
    /\ \/ Write([result |-> ResultOf(r)]) /\ UNCHANGED faults
          /\ run' = [run EXCEPT ![r] = With(@, [pc |-> "attest", fellback |-> FALSE])]
       \/ Spend /\ UNCHANGED out
          /\ run' = [run EXCEPT ![r] = With(@, [pc |-> "attest", fellback |-> TRUE])]
    /\ UNCHANGED <<world, ctx, pending, answer, issued, trees, edits>>

Attestation(r, signer) ==
    [statement |-> ResultOf(r), signer |-> signer,
     bound |-> [subject |-> run[r].req.subject, package |-> run[r].req.package,
                policy |-> run[r].policy, context |-> run[r].req.context,
                evaluator |-> run[r].evaluator, evidence |-> run[r].findings]]

\* seal_run's attestation: a promotion-authorizing run signs with its key, and
\* without a key of either kind it fails.
EmitAttestation(r) ==
    /\ At(r, "attest")
    /\ IF required(run[r].req.context) /\ ~signer_key /\ keys(r) = {}
       THEN Fail(r, "attestation", run[r].ledger)
       ELSE /\ IF required(run[r].req.context) /\ signer_key
               THEN Write([attestation |-> Attestation(r, "pilot-signer")])
               ELSE UNCHANGED out
            /\ run' = [run EXCEPT ![r].pc = "envelope"]
            /\ UNCHANGED <<world, ctx, pending, answer, issued, trees, edits, faults>>

\* ... and the write of it, or of the envelope, that fails.
SigningFails(r) ==
    /\ run[r].pc \in {"attest", "envelope"}
    /\ At(r, "attest") => required(run[r].req.context) /\ signer_key
    /\ Spend
    /\ FailWith(r, "attestation", run[r].ledger)

EmitEnvelope(r) ==
    /\ At(r, "envelope")
    /\ Write([envelope |-> [decision |-> decide(run[r].ledger, run[r].blocked),
                            signed |-> required(run[r].req.context) /\ signer_key]])
    /\ run' = [run EXCEPT ![r].pc = "finish"]
    /\ UNCHANGED <<world, ctx, pending, answer, issued, trees, edits, faults>>

-----------------------------------------------------------------------------
(* The decision claim: verification.py's ladder.                           *)

LADDER == <<"REQUESTED", "PLANNED", "ATTEMPTED", "EXECUTED", "COMPLETED", "TESTED",
            "OBSERVED", "VERIFIED">>
TERMINAL == {"BLOCKED", "FAILED", "UNKNOWN"}

can_transition(from, to) ==
    \/ from = to
    \/ to \in TERMINAL
    \/ to = "VERIFIED" /\ from \in ToSet(LADDER)
    \/ from = "REQUESTED" /\ to = "ATTEMPTED"
    \/ \E k \in 1..Len(LADDER) - 1 : LADDER[k] = from /\ LADDER[k + 1] = to

\* Only an independent check takes a claim to VERIFIED.
transition(state, to, independent) ==
    IF \/ to = "VERIFIED" /\ state # "VERIFIED" /\ ~independent
       \/ ~can_transition(state, to)
    THEN Refused ELSE to

new_claim == [state |-> "REQUESTED", bound |-> <<>>, check |-> Nothing]

\* Each digest that is known is bound under its role, and no other.
bind(claim, digests) ==
    [claim EXCEPT !.bound = [role \in {r \in DOMAIN digests : digests[r] # Nothing} |->
                               digests[role]]]

\* cli_verify._emit_decision_claim: up to OBSERVED, bound to every digest.
DecisionClaim(r) ==
    LET digests == [subject |-> run[r].req.subject, package |-> run[r].req.package,
                    policy |-> run[r].policy, context |-> run[r].req.context,
                    evidence |-> run[r].findings, decision |-> ResultOf(r)]
        step(state, to) == IF state = Refused THEN state ELSE transition(state, to, FALSE)
    IN  [bind(new_claim, digests) EXCEPT
           !.state = FoldLeft(step, @, <<"ATTEMPTED", "EXECUTED", "COMPLETED", "TESTED",
                                         "OBSERVED">>)]

\* The digests of the world as a verifier observes them; a file that is not
\* there has none.
DigestOf(file) == IF Written(file) THEN out[file] ELSE Nothing

Observed ==
    [subject |-> build(world.tree, world.kind), package |-> package_resolve(world.package),
     policy |-> world.bundle, context |-> ctx, evidence |-> DigestOf("manifest"),
     decision |-> DigestOf("result")]

staleness(claim) == {role \in DOMAIN claim.bound : claim.bound[role] # Observed[role]}

-----------------------------------------------------------------------------
(* The consumers: attest.verify_run, verify_promotion, cli_verify.          *)

\* The approved set holds the signer, and has not revoked it.
check_signer(attestation) == attestation.signer \in {"pilot-signer", "runner"} /\ ~world.revoked

verify_run ==
    /\ Written("result") /\ Written("attestation") /\ Written("manifest")
    /\ check_signer(out.attestation)
    /\ out.attestation.statement = out.result
    /\ \A key \in DOMAIN out.attestation.bound : out.result[key] = out.attestation.bound[key]
    /\ evidence_verify(out.attestation.bound.evidence)

verify_promotion(candidate) == verify_run /\ out.attestation.bound.subject = candidate

\* attest_detached.verify: the statement is the result at hand, the signer is
\* approved, and every bound digest is one that the result claims.
verify(attestation, identities) ==
    /\ attestation.statement = identities
    /\ check_signer(attestation)
    /\ \A role \in DOMAIN attestation.bound : identities[role] = attestation.bound[role]

\* cli_verify._verify_outcome, which does not look at the evidence.
verify_outcome ==
    IF ~Written("result") \/ ~Written("attestation") THEN ExitOfError.invalid_input
    ELSE IF verify(out.attestation, out.result) THEN 0 ELSE 1

\* verify_independently with verify_run as the verifier; a stale claim and an
\* illegal transition raise, after the outcome of the check was recorded.
VerifyClaim ==
    LET to   == IF verify_run THEN "VERIFIED" ELSE "FAILED"
        next == transition(out.claim.state, to, TRUE)
    IN
    /\ Written("claim")
    /\ staleness(out.claim) = {}
    /\ out' = [out EXCEPT !.claim.check = verify_run,
                          !.claim.state = IF next = Refused THEN @ ELSE next]
    /\ out' # out
    /\ UNCHANGED <<world, ctx, pending, run, answer, issued, trees, edits, faults>>

-----------------------------------------------------------------------------
(* The detached chain, the claim and the exit.                             *)

\* attest_detached.attest: a statement that the run signs under its identity;
\* without a key for it, or an attributed execution, there is none.
attest(r, identity) ==
    IF identity \notin keys(r) \/ run[r].evaluator = Nothing
    THEN Refused ELSE Attestation(r, identity)

\* With plural keys, and no attestation file beside the result, the run signs
\* as its identity, which the bundle must approve.
Finish(r) ==
    LET detached == keys(r) # {} /\ ~Written("attestation") IN
    /\ At(r, "finish")
    /\ IF detached /\ (run[r].policy.signer # "approved" \/ attest(r, "runner") = Refused)
       THEN Fail(r, "policy_resolution", Nothing)
       ELSE /\ Write(With([claim |-> DecisionClaim(r)],
                          IF detached THEN [attestation |-> attest(r, "runner")] ELSE <<>>))
            /\ Exits(r, CodeOf(r))
            /\ UNCHANGED <<world, ctx, pending, issued, trees, edits, faults>>

-----------------------------------------------------------------------------
(* Faults and the host: launcher.run and run_containerized.                *)

Running(r) == run[r].pc \notin {"idle", "gone", "late", "exited"}

\* The process is killed: the caller of a local run sees no contract code, the
\* host of a container sees the status podman gives.
Killed == 137

Crash(r) ==
    /\ Running(r)
    /\ Spend
    /\ Exits(r, Killed)
    /\ UNCHANGED <<world, ctx, pending, out, issued, trees, edits>>

\* The container has exited: its code is relayed when result.json agrees.
HostRelays(r) ==
    LET agrees == /\ Written("result")
                  /\ DecisionForCode(run[r].code) = out.result.decision
    IN
    /\ At(r, "exited")
    /\ run' = [run EXCEPT ![r] = Gone]
    /\ answer' = [answer EXCEPT ![r] = IF agrees THEN run[r].code ELSE ExitOfError.execution]
    /\ IF agrees THEN UNCHANGED out
       ELSE Write([result |-> ErrorResult("execution", Nothing)])
    /\ UNCHANGED <<world, ctx, pending, issued, trees, edits, faults>>

\* The time or output limit: the podman client is killed and the host answers
\* with an error.  run_containerized passes no PODMAN_RUN, so launcher.run does
\* not reap the container, which ends with its client or outlives it.
HostGivesUp(r) ==
    /\ Running(r) /\ run[r].host = "waiting"
    /\ Spend
    /\ run' \in {[run EXCEPT ![r] = Gone], [run EXCEPT ![r].host = "gaveup"]}
    /\ answer' = [answer EXCEPT ![r] = ExitOfError.execution]
    /\ Write([result |-> ErrorResult("execution", Nothing)])
    /\ UNCHANGED <<world, ctx, pending, issued, trees, edits>>

-----------------------------------------------------------------------------
Init ==
    /\ world \in Worlds0
    /\ ctx = Nothing /\ pending = Nothing /\ issued = {}
    /\ run = [r \in Run |-> Idle]
    /\ answer = [r \in Run |-> Nothing]
    /\ out = [objects |-> {}]
    /\ trees = {world.tree}
    /\ edits = 0 /\ faults = 0

\* The steps of a process that is running.
ProcessStep(r) ==
    \/ ResolveSubject(r) \/ ResolvePackage(r) \/ ResolveContext(r) \/ ResolvePolicy(r)
    \/ PlanRun(r) \/ EvaluatorReads(r) \/ Reverify(r) \/ Adopt(r)
    \/ SealEvidence(r) \/ EmitResult(r) \/ EmitAttestation(r) \/ EmitEnvelope(r) \/ Finish(r)

Next ==
    \/ \E i \in Issues : IssueSets(i)
    \/ IssueContext
    \/ Edit
    \/ VerifyClaim
    \/ \E r \in Run :
         \/ InvokeLocal(r)
         \/ \E v \in Versions : InvokeForeign(r, v)
         \/ \E l \in Launches : InvokeContained(r, l.config, l.outputs)
         \/ ProcessStep(r)
         \/ SealFails(r) \/ SigningFails(r) \/ Crash(r)
         \/ HostRelays(r) \/ HostGivesUp(r)

Spec == Init /\ [][Next]_vars

-----------------------------------------------------------------------------
(* What the service promises.                                              *)

\* The subject that a manifest commits to, and the assertions that a package
\* identity commits to.
CommittedTree(m) ==
    [p \in {q \in DOMAIN m.entries : m.entries[q].kind = "file"} |->
        [kind |-> "file", content |-> m.entries[p].digest, scanned |-> TRUE]]
CommittedAssertions(package) == UNION {ToSet(e.digest) : e \in package.normative}
CommittedFacts(c) == load_captured_facts(c.facts, c.facts)

\* Every assertion that the bound policy requires holds of the content that
\* the bound digests commit to.
Honest(res) ==
    \A aid \in res.policy.required : \E a \in CommittedAssertions(res.package) :
        /\ a.id = aid
        /\ Evaluate(a, res.package, CommittedTree(res.subject), CommittedFacts(res.context)) = {}

\* What a consumer takes for certified: a directory that one of the two
\* verifiers accepts, and the decision of a claim that an independent check raised to VERIFIED.
Certified ==
    {out[file] : file \in {f \in {"result"} : verify_run \/ verify_outcome = 0}}
    \cup {out[file].bound.decision :
            file \in {f \in {"claim"} : /\ Written(f) /\ out[f].state = "VERIFIED"
                                       /\ "decision" \in DOMAIN out[f].bound}}

\* What the honesty of a PASS rests on, besides the code.  The spec files of a
\* package are normative entries of its inventory.
SpecsAreNormative ==
    \A p \in AnyPackage : package_resolve(p) # Refused =>
        \A s \in ToSet(p.specs) : ToSet(p.files[s]) \subseteq CommittedAssertions(package_resolve(p))

\* No overlay puts another approved evaluator under a required assertion, or
\* adds one of that id.
OverlaysKeepRequired ==
    \A o \in AnyOverlay, b \in AnyBundle :
      /\ \A change \in ToSet(o.changes) :
           change.id \in b.required /\ change.evaluator # Nothing =>
             b.approved # {} /\ change.evaluator \notin b.approved
      /\ \A a \in ToSet(o.adds) : a.id \notin b.required

\* A manifest is of one tree, and what it commits to is all that the evaluators
\* read of the tree.
TreesAreCommitted ==
    \A kind \in {w.kind : w \in Worlds0} :
      \A t \in AnyTree(kind) : build(t, kind) # Refused =>
        /\ \A u \in AnyTree(kind) :
             build(u, kind) # Refused /\ build(u, kind).entries = build(t, kind).entries => u = t
        /\ \A p \in AnyPackage, i \in Issues : package_resolve(p) # Refused =>
             \A a \in CommittedAssertions(package_resolve(p)) :
               Evaluate(a, package_resolve(p), t, CommittedFacts(i))
                 = Evaluate(a, package_resolve(p), CommittedTree(build(t, kind)),
                            CommittedFacts(i))

(***************************************************************************)
(* A certified PASS is true of the subject it names: every assertion that  *)
(* the bound bundle requires holds of the bound content, although the      *)
(* subject, the package, the overlay and the policy directory are edited   *)
(* while runs read them, runs die between two writes, and an abandoned     *)
(* container writes into the same directory (__main__.run, evaluate.run,   *)
(* attest.verify_run).                                                     *)
(***************************************************************************)
VerifiedPassIsHonest ==
    \A res \in Certified : res.decision = "PASS" => Honest(res)

\* A finding that the control plane excused when it issued the context.
Excused(f, res) ==
    \/ f.class = "unpinned-model-advice"
    \/ \E e \in res.context.exceptions : e.fp = fingerprint(f) /\ e.expires > res.context.time
    \/ /\ \E b \in res.context.baseline :
            /\ b.fp = fingerprint(f) /\ b.open
            /\ ~(/\ f.aid \in DOMAIN res.policy.floors /\ b.severity # Nothing
                 /\ res.policy.floors[f.aid] > b.severity)
       /\ res.context.stage < 4

\* The decision in the output directory; an error is none.
Decisions ==
    {out[file] : file \in {f \in {"result"} : Written(f) /\ out[f].decision # "ERROR"}}

(***************************************************************************)
(* Debt is the control plane's to grant: at an enforcing stage a decision  *)
(* that does not fail was taken under a context the issuer wrote, has no   *)
(* unresolved assertion, and each finding in it is one that the sets bound *)
(* at issuance excuse -- whatever the policy directory held in the         *)
(* meantime (issue.issue_context, context.verify_bound_sets,               *)
(* adoption.evaluate).                                                     *)
(***************************************************************************)
DebtWasIssued ==
    \A res \in Decisions :
      res.decision # "FAIL" /\ res.context.stage >= 2 =>
        /\ res.context \in issued
        /\ \A a \in DOMAIN res.ledger : res.ledger[a] # "UNRESOLVED"
        /\ res.context.baseline # Nothing /\ res.context.exceptions # Nothing =>
             \A f \in res.evidence : Excused(f, res)

(***************************************************************************)
(* No decision is taken under a rolled-back bundle: it is the one that was *)
(* in the policy directory when the context was issued, or one whose       *)
(* grandfather window is open at the context's time, and it names what     *)
(* exceeding its advisory age does (policy.resolve,                        *)
(* policy.check_anti_rollback).                                            *)
(***************************************************************************)
PolicyIsCurrent ==
    \A res \in Decisions :
      /\ \/ res.policy = res.context.binding.expected
         \/ \E g \in res.context.binding.grandfathers :
               g.bundle = res.policy /\ g.valid_until > res.context.time
      /\ res.policy.stages # Nothing => res.policy.escalation # Nothing

\* A container whose host gave up on it.
Abandoned(r) == run[r] = Late \/ (run[r] \notin {Idle, Gone, Late} /\ run[r].host = "gaveup")

(***************************************************************************)
(* An exit code 0 of a promotion-authorizing run is backed: at that moment *)
(* the output directory verifies, for the subject the run was asked about, *)
(* whatever earlier runs left in it.  A result that went to the announced  *)
(* fallback directory and a directory that an abandoned container shares   *)
(* are the exceptions (attest.seal_run, run_containerized).                *)
(***************************************************************************)
ExitIsBacked ==
    [][\A r \in Run :
         /\ answer[r] = Nothing /\ answer'[r] = 0
         /\ required(run[r].req.context)
         /\ At(r, "exited") \/ At(r, "finish")
         /\ ~run[r].fellback
         /\ ~\E q \in Run : Abandoned(q)
         => \/ world.revoked
            \/ \E candidate \in {run[r].req.subject} : verify_promotion(candidate)']_vars

\* A comment of run_containerized: "a killed run is an ERROR, never a
\* truncated pass".  With the directory to itself, what a host that gave up
\* wrote stays an error.
KilledRunIsError ==
    [][\A r \in Run :
         Abandoned(r)
         => out'.result = out.result \/ out'.result.decision = "ERROR"]_vars
=============================================================================
