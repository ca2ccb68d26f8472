----------------------------- MODULE RunnerJobs -----------------------------
(***************************************************************************)
(* One job per runner instance, from warm stock to proven clean: the warm  *)
(* pool and the adapter contract (adapters.py), the typed operations of    *)
(* host agents with their ledger (operations.py), the job lifecycle and    *)
(* the admission gate (lifecycle.py) of src/fleet-manager/fleet_manager.   *)
(*                                                                         *)
(* The manager is one thread that calls these values one after the other.  *)
(* Agents carry out operations on their hosts; operations reach them late, *)
(* again, or at another host, and their answers are never consumed, so     *)
(* they may arrive at any later time and in any order.                     *)
(*                                                                         *)
(* The caller of the library and the agents are not in the source.  They   *)
(* are taken to wait for a receipt before they rely on an operation, to    *)
(* ask for cleanup evidence after the destruction, and to ask the          *)
(* lifecycle before the gate.                                              *)
(***************************************************************************)
EXTENDS Integers, FiniteSets

CONSTANTS
  Instance,    \* instance ids (container names)
  Job, Image, Host, Key,
  Nothing,     \* no value
  HostOf,      \* the host an instance lives on
  Adapters,    \* the adapters that may be offered to a host
  Capability,  \* AgentCapabilities of each host
  WarmMax,     \* Pool.warm_max
  Outcome,     \* the terminal states jobs reach
  MaxFaults,   \* bound: operations that fail or go to the wrong host
  GateOnly     \* the caller consults the admission gate alone

VARIABLES
  lives,     \* JobLifecycle of each instance
  pool,      \* WarmPool: the pinned image and the stock
  gate,      \* AdmissionGate
  issued,    \* OperationLedger._issued
  receipts,  \* OperationLedger._receipts
  adapter,   \* the adapter each host runs
  box,       \* the containers and what their jobs left behind
  performed, \* the operation keys adapters remember
  wire,      \* the receipts agents sent
  evidence,  \* the cleanup evidence they sent
  ran,       \* history: how many jobs ran in each container
  replaced   \* history: the instances a replacement was admitted for

managerVars == <<lives, pool, gate, issued, receipts>>
hostVars == <<adapter, box, performed, wire, evidence, ran>>
jobsVars == <<lives, pool, gate, issued, receipts, adapter, box, performed, wire, evidence,
              ran, replaced>>

-----------------------------------------------------------------------------
(* adapters.py: the contract, the warm pool *)

ADAPTER_CALLS == {"discover_capabilities", "validate_host", "ensure_image", "create_runner",
                  "observe_runner", "mark_drain", "cancel_or_timeout", "destroy_runner",
                  "prove_cleanup", "report_receipts", "rollback_configuration"}

MUTATING_CALLS == {"ensure_image", "create_runner", "mark_drain", "cancel_or_timeout",
                   "destroy_runner", "rollback_configuration"}

\* The parameters a call must name, beyond operation_key.
REQUIRED_PARAMETERS(call) ==
  CASE call = "ensure_image"      -> {"digest"}
    [] call = "create_runner"     -> {"registration_ref"}
    [] call = "cancel_or_timeout" -> {"policy"}
    [] call = "prove_cleanup"     -> {"instance_id"}
    [] OTHER                      -> {}

MATERIAL_SHAPED == {"credential", "credentials", "password", "registration_token", "secret", "token"}

\* An adapter is the runtime it declares and the parameter names of each call
\* it defines.  check_contract reads the signatures and calls nothing.
Names(call) == REQUIRED_PARAMETERS(call) \cup (IF call \in MUTATING_CALLS THEN {"operation_key"} ELSE {})

\* Mutant: the durable key is not asked for.
ContractWithoutKeys(a, runtime) ==
  /\ a.runtime = runtime
  /\ ADAPTER_CALLS \subseteq DOMAIN a.calls
  /\ \A call \in ADAPTER_CALLS : REQUIRED_PARAMETERS(call) \subseteq a.calls[call]
  /\ a.calls["create_runner"] \cap MATERIAL_SHAPED = {}

check_contract(a, runtime) ==
  /\ a.runtime = runtime
  /\ ADAPTER_CALLS \subseteq DOMAIN a.calls
  /\ \A call \in ADAPTER_CALLS : Names(call) \subseteq a.calls[call]
  /\ a.calls["create_runner"] \cap MATERIAL_SHAPED = {}

\* WarmPool.admit: the constructor refuses another image, another instance of
\* that name, and stock over the ceiling.
admit(p, i, image) == [p EXCEPT !.stock = @ \cup {i}]

Admissible(p, i, image) ==
  /\ i \notin p.stock
  /\ image = p.image
  /\ Cardinality(p.stock) < WarmMax

retire(p, i) == [p EXCEPT !.stock = @ \ {i}]

-----------------------------------------------------------------------------
(* operations.py *)

OperationKind == {"ensure_image", "create_runner", "mark_drain", "destroy_runner",
                  "cancel_or_timeout", "observe_runner", "prove_cleanup", "rollback_adapter"}

READ_ONLY == {"observe_runner", "prove_cleanup"}

\* An operation of the kinds the job lifecycle needs; all of them act on a
\* runner.  `image` tells two operations of one kind on one name apart, as
\* issued_at does.
Operation == [kind: OperationKind, host: Host, subject: Instance, image: Image]

AgentReceipt == [key: Key, host: Host, outcome: {"completed", "failed", "rejected"}]

\* Deny by default: an adapter is installed, the kind is declared, and
\* cancel_or_timeout has its own policy.
permit(op, h) ==
  /\ adapter[h] # Nothing
  /\ op.kind \in Capability[h].operations
  /\ op.kind = "cancel_or_timeout" => Capability[h].allow_cancel_or_timeout

\* Mutant: a key is issued again for other work.
IssueWidened(k, op) ==
  /\ permit(op, op.host)
  /\ issued' = [issued EXCEPT ![k] = op]
  /\ UNCHANGED <<lives, pool, gate, receipts, hostVars, replaced>>

\* OperationLedger.issue.  The same operation again changes nothing and other
\* work under the same key is refused.
issue(k, op) ==
  /\ permit(op, op.host)
  /\ issued[k] = Nothing
  /\ issued' = [issued EXCEPT ![k] = op]
  /\ UNCHANGED <<lives, pool, gate, receipts, hostVars, replaced>>

\* Mutant: any host's receipt is taken.
RecordAnyHost(r) ==
  /\ issued[r.key] # Nothing /\ issued[r.key].kind \notin READ_ONLY
  /\ receipts[r.key] = Nothing
  /\ receipts' = [receipts EXCEPT ![r.key] = r]
  /\ UNCHANGED <<lives, pool, gate, issued, hostVars, replaced>>

\* OperationLedger.record: the first answer is the answer.
record(r) ==
  /\ issued[r.key] # Nothing /\ issued[r.key].kind \notin READ_ONLY
  /\ r.host = issued[r.key].host
  /\ receipts[r.key] = Nothing
  /\ receipts' = [receipts EXCEPT ![r.key] = r]
  /\ UNCHANGED <<lives, pool, gate, issued, hostVars, replaced>>

\* authoritative_receipt: the manager's own document says the operation was
\* carried out.
Attested(op) ==
  \E k \in Key : issued[k] = op /\ receipts[k] # Nothing /\ receipts[k].outcome = "completed"

-----------------------------------------------------------------------------
(* lifecycle.py: the job machine *)

TERMINAL_JOB_STATES == {"completed", "timed_out", "cancelled", "disconnected"}
JobState == TERMINAL_JOB_STATES \cup
  {"none", "prepulled", "assigned", "running", "refused", "destroyed", "proven_clean", "quarantined"}

\* Mutant: a refused offer puts the instance back.
TransitionsRestarting(from) ==
  CASE from = "prepulled" -> {"assigned", "destroyed"}
    [] from = "assigned"  -> {"running", "refused", "cancelled"}
    [] from = "running"   -> TERMINAL_JOB_STATES
    [] from \in TERMINAL_JOB_STATES -> {"destroyed", "assigned"}
    [] from = "refused"   -> {"destroyed"}
    [] from = "destroyed" -> {"proven_clean", "quarantined"}
    [] OTHER -> {}

\* _TRANSITIONS, next_states
next_states(from) ==
  CASE from = "prepulled" -> {"assigned", "destroyed"}
    [] from = "assigned"  -> {"running", "refused", "cancelled"}
    [] from = "running"   -> TERMINAL_JOB_STATES
    [] from \in TERMINAL_JOB_STATES \cup {"refused"} -> {"destroyed"}
    [] from = "destroyed" -> {"proven_clean", "quarantined"}
    [] OTHER -> {}

Gone == {"destroyed", "proven_clean", "quarantined"}

\* "none": no instance of that name was admitted yet.
JobLifecycle == [state: JobState, job: Job \cup {Nothing}, image: Image \cup {Nothing}]

CanMove(i, to) == to \in next_states(lives[i].state)

\* _transition
Moved(i, to) == [lives EXCEPT ![i].state = to]

Disposal == {"disposed", "absent", "failed"}

CleanupEvidence == [instance: Instance, image: Image, volume: Disposal, network: Disposal]

\* Mutant: a failed volume passes for a proof.
AdmissibleNetworkOnly(e) == e.network # "failed"

\* CleanupEvidence.admissible
admissible(e) == e.volume # "failed" /\ e.network # "failed"

\* JobLifecycle.prove
Proves(i, e) ==
  /\ admissible(e)
  /\ e.instance = i /\ e.image = lives[i].image
  /\ CanMove(i, "proven_clean")

-----------------------------------------------------------------------------
(* lifecycle.py: the admission gate *)

gate_destroyed(g, i)  == [g EXCEPT !.unaccounted = @ \cup {i}]
gate_prove(g, e)      == [g EXCEPT !.unaccounted = @ \ {e.instance}, !.proven = @ \cup {e}]
gate_quarantine(g, i) == [g EXCEPT !.unaccounted = @ \ {i}, !.quarantined = @ \cup {i}]

\* Mutant: the gate is not asked about the instance that is replaced.
AdmitUngated(i, old) ==
  /\ Admissible(pool, i, pool.image)
  /\ pool' = admit(pool, i, pool.image)

\* admit_replacement: no replacement while the old instance is unaccounted for.
admit_replacement(i, old) ==
  /\ old # Nothing => old \notin gate.unaccounted
  /\ Admissible(pool, i, pool.image)
  /\ pool' = admit(pool, i, pool.image)

-----------------------------------------------------------------------------
(* The manager *)

Op(kind, i, image) == [kind |-> kind, host |-> HostOf[i], subject |-> i, image |-> image]

\* A name is used once for an image, and again only when its last instance was
\* proven clean.
Fresh(i, image) ==
  /\ lives[i].state \in {"none", "proven_clean"}
  /\ \A k \in Key : issued[k] # Op("destroy_runner", i, image)

\* Work is retried under its key; it gets another key only after a failure.
Untried(op) == \A k \in Key : issued[k] = op => receipts[k] # Nothing /\ receipts[k].outcome # "completed"

OrderCreate(i, k) ==
  /\ Fresh(i, pool.image) /\ Untried(Op("create_runner", i, pool.image))
  /\ issue(k, Op("create_runner", i, pool.image))

OrderDestroy(i, k) ==
  /\ CanMove(i, "destroyed") /\ i \notin pool.stock
  /\ Untried(Op("destroy_runner", i, lives[i].image))
  /\ issue(k, Op("destroy_runner", i, lives[i].image))

OrderCancel(i, k) ==
  /\ lives[i].state = "running" /\ Untried(Op("cancel_or_timeout", i, lives[i].image))
  /\ issue(k, Op("cancel_or_timeout", i, lives[i].image))

\* A created instance joins the warm stock, in place of a destroyed one or as
\* new capacity.
Admit(i, old) ==
  /\ Fresh(i, pool.image)
  /\ Attested(Op("create_runner", i, pool.image))
  /\ old # Nothing => lives[old].state \in Gone
  /\ admit_replacement(i, old)
  /\ lives' = [lives EXCEPT ![i] = [state |-> "prepulled", job |-> Nothing, image |-> pool.image]]
  /\ replaced' = (replaced \ {i}) \cup ({old} \ {Nothing, i})
  /\ UNCHANGED <<gate, issued, receipts, hostVars>>

\* offer: the instance leaves the stock with its one job.
Offer(i, j) ==
  /\ CanMove(i, "assigned")
  /\ pool' = retire(pool, i)
  /\ lives' = [lives EXCEPT ![i].state = "assigned", ![i].job = j]
  /\ UNCHANGED <<gate, issued, receipts, hostVars, replaced>>

\* start: the job runs, and writes what it writes.
Start(i) ==
  /\ CanMove(i, "running")
  /\ lives' = Moved(i, "running")
  /\ ran' = [ran EXCEPT ![i] = @ + 1]
  /\ \E left \in SUBSET {"volume", "network"} : box' = [box EXCEPT ![i].residue = @ \cup left]
  /\ UNCHANGED <<pool, gate, issued, receipts, adapter, performed, wire, evidence, replaced>>

\* refuse, finish
End(i, to) ==
  /\ to \in Outcome \cup {"refused"}
  /\ to = "cancelled" /\ lives[i].state = "running"
       => Attested(Op("cancel_or_timeout", i, lives[i].image))
  /\ CanMove(i, to)
  /\ lives' = Moved(i, to)
  /\ UNCHANGED <<pool, gate, issued, receipts, hostVars, replaced>>

\* A rollout pins another image: the stock of the old one is no longer stock.
Repin(image) ==
  /\ image # pool.image
  /\ pool' = [image |-> image, stock |-> {}]
  /\ UNCHANGED <<lives, gate, issued, receipts, hostVars, replaced>>

\* destroy, and the gate learns of it.
Destroyed(i) ==
  /\ CanMove(i, "destroyed") /\ i \notin pool.stock
  /\ Attested(Op("destroy_runner", i, lives[i].image))
  /\ i \notin gate.unaccounted
  /\ lives' = Moved(i, "destroyed")
  /\ gate' = gate_destroyed(gate, i)
  /\ UNCHANGED <<pool, issued, receipts, hostVars, replaced>>

\* prove: the lifecycle judges the evidence, the gate strikes the instance off.
Prove(i, e) ==
  /\ e.instance \in gate.unaccounted
  /\ IF GateOnly THEN lives' = IF Proves(i, e) THEN Moved(i, "proven_clean") ELSE lives
                 ELSE Proves(i, e) /\ lives' = Moved(i, "proven_clean")
  /\ gate' = gate_prove(gate, e)
  /\ UNCHANGED <<pool, issued, receipts, hostVars, replaced>>

Quarantine(i) ==
  /\ CanMove(i, "quarantined") /\ i \in gate.unaccounted
  /\ lives' = Moved(i, "quarantined")
  /\ gate' = gate_quarantine(gate, i)
  /\ UNCHANGED <<pool, issued, receipts, hostVars, replaced>>

-----------------------------------------------------------------------------
(* Hosts and their agents *)

Runtime == "podman"

Attach(h, a) ==
  /\ adapter[h] = Nothing
  /\ check_contract(a, Runtime)
  /\ adapter' = [adapter EXCEPT ![h] = a]
  /\ UNCHANGED <<managerVars, box, performed, wire, evidence, ran, replaced>>

\* A call that takes a durable key is carried out once; one that does not is
\* carried out as often as it is delivered.
Remembers(h, call) == "operation_key" \in adapter[h].calls[call]

\* What a call does to the container; a name in use is not created again.
Effect(op) ==
  LET c == box[op.subject] IN
  CASE op.kind = "create_runner"  -> IF c.up THEN {} ELSE {[up |-> TRUE, image |-> op.image, residue |-> {}]}
    [] op.kind = "destroy_runner" -> {[c EXCEPT !.up = FALSE, !.residue = left] : left \in SUBSET c.residue}
    [] OTHER                      -> {c}

Faults == {r \in wire : r.outcome = "failed" \/ r.host # issued[r.key].host}

Perform(k) ==
  LET op == issued[k] IN
  /\ op # Nothing /\ adapter[op.host] # Nothing
  /\ k \in performed => ~Remembers(op.host, op.kind)
  /\ performed' = performed \cup {k}
  /\ \/ /\ \E c \in Effect(op) : box' = [box EXCEPT ![op.subject] = c]
        /\ ran' = IF op.kind = "create_runner" THEN [ran EXCEPT ![op.subject] = 0] ELSE ran
        /\ wire' = wire \cup {[key |-> k, host |-> op.host, outcome |-> "completed"]}
     \/ /\ Cardinality(Faults) < MaxFaults
        /\ wire' = wire \cup {[key |-> k, host |-> op.host, outcome |-> "failed"]}
        /\ UNCHANGED <<box, ran>>
  /\ UNCHANGED <<managerVars, adapter, evidence, replaced>>

\* A destroy_runner reaches another host, which has no such container and says
\* so by completing.
PerformElsewhere(k, h) ==
  /\ issued[k] # Nothing /\ issued[k].kind = "destroy_runner" /\ h # issued[k].host /\ adapter[h] # Nothing
  /\ Cardinality(Faults) < MaxFaults
  /\ wire' = wire \cup {[key |-> k, host |-> h, outcome |-> "completed"]}
  /\ UNCHANGED <<managerVars, adapter, box, performed, evidence, ran, replaced>>

\* prove_cleanup: what is left of a destroyed instance whose container is gone.
Observe(i) ==
  LET found(r) == IF r \in box[i].residue THEN "failed" ELSE IF ran[i] = 0 THEN "absent" ELSE "disposed"
  IN  /\ lives[i].state = "destroyed" /\ ~box[i].up
      /\ evidence' = evidence \cup {[instance |-> i, image |-> box[i].image,
                             volume |-> found("volume"), network |-> found("network")]}
      /\ UNCHANGED <<managerVars, adapter, box, performed, wire, ran, replaced>>

\* The host cleans up behind a disposal that failed.
CleanUp(i) ==
  /\ ~box[i].up /\ box[i].residue # {}
  /\ box' = [box EXCEPT ![i].residue = {}]
  /\ UNCHANGED <<managerVars, adapter, performed, wire, evidence, ran, replaced>>

-----------------------------------------------------------------------------
(* Specification *)

ASSUME JobsAssumption ==
  /\ HostOf \in [Instance -> Host]
  /\ Outcome \subseteq TERMINAL_JOB_STATES
  /\ WarmMax \in Nat /\ MaxFaults \in Nat /\ GateOnly \in BOOLEAN
  /\ Nothing \notin Instance \cup Job \cup Image \cup Host \cup Key
  /\ Nothing \notin Operation /\ Nothing \notin AgentReceipt

JobsInit ==
  /\ lives = [i \in Instance |-> [state |-> "none", job |-> Nothing, image |-> Nothing]]
  /\ \E image \in Image : pool = [image |-> image, stock |-> {}]
  /\ gate = [unaccounted |-> {}, proven |-> {}, quarantined |-> {}]
  /\ issued = [k \in Key |-> Nothing]
  /\ receipts = [k \in Key |-> Nothing]
  /\ adapter = [h \in Host |-> Nothing]
  /\ box = [i \in Instance |-> [up |-> FALSE, image |-> Nothing, residue |-> {}]]
  /\ performed = {} /\ wire = {} /\ evidence = {} /\ replaced = {}
  /\ ran = [i \in Instance |-> 0]

Manager ==
  \/ \E i \in Instance :
       \/ \E k \in Key : OrderCreate(i, k) \/ OrderDestroy(i, k) \/ OrderCancel(i, k)
       \/ \E old \in Instance \cup {Nothing} : Admit(i, old)
       \/ \E j \in Job : Offer(i, j)
       \/ Start(i) \/ Destroyed(i) \/ Quarantine(i)
       \/ \E to \in JobState : End(i, to)
       \/ \E e \in evidence : Prove(i, e)
  \/ \E r \in wire : record(r)
  \/ \E image \in Image : Repin(image)

Hosts ==
  \/ \E h \in Host, a \in Adapters : Attach(h, a)
  \/ \E k \in Key : Perform(k) \/ \E h \in Host : PerformElsewhere(k, h)
  \/ \E i \in Instance : Observe(i) \/ CleanUp(i)

JobsNext == Manager \/ Hosts

JobsSpec == JobsInit /\ [][JobsNext]_jobsVars

-----------------------------------------------------------------------------
(* Properties *)

\* An instance the manager holds to be destroyed has no container, however
\* late, often or misdirected its operations and their receipts travelled.
\* (OperationLedger.issue and record, check_contract's operation_key)
DestroyedIsGone ==
  \A i \in Instance : lives[i].state \in Gone => ~(box[i].up /\ box[i].image = lives[i].image)

\* RUN-002: when an instance has been replaced, its resources are gone or held
\* in quarantine. (CleanupEvidence.admissible, JobLifecycle.prove,
\* AdmissionGate.prove, admit_replacement)
ReplacedIsClean ==
  \A i \in replaced : box[i].residue = {} \/ lives[i].state = "quarantined"

\* RUN-001: no container's filesystem ever sees a second job.
\* (JobLifecycle.offer and the transition table)
OneJobPerContainer == \A i \in Instance : ran[i] <= 1
=============================================================================
