----------------------------- MODULE FleetState -----------------------------
(***************************************************************************)
(* The fleet manager's desired state and the only way to change it:        *)
(* DesiredState (src/fleet-manager/fleet_manager/model.py), build_plan     *)
(* (plan.py) and apply_plan (apply.py) with its idempotency ledger, audit  *)
(* log (audit.py) and scopes (auth.py).                                    *)
(*                                                                         *)
(* Several operators plan against the revision they read, and apply later, *)
(* again, late, with a reused key, or without the right.  What they        *)
(* planned is a prediction: other plans are applied in between.            *)
(*                                                                         *)
(* apply_plan works on a copy, one change after the other.  The manager    *)
(* makes one call at a time and replaces state, ledger and log with what   *)
(* the call returns (its store is not in the source).                      *)
(***************************************************************************)
EXTENDS Integers, Sequences, FiniteSets

CONSTANTS
  Host, Pool, Image,
  AssignmentId, RolloutId,
  IdemKey,      \* idempotency keys
  Nothing,      \* no value
  Slots,        \* Host.slots
  Fits,         \* the (host, pool) pairs whose runtime, architecture and
                \* allow-list agree
  FirstImage, FirstRollback,
  Loaded,       \* the assignments of the document the manager starts from
  LoadedClock,  \* and the newest instant it carries
  MaxRevision,  \* bound
  MaxPlan,      \* bound: changes in a plan
  MaxPlans,     \* bound: plans built
  MaxTime       \* bound on the instants callers supply

VARIABLES
  state,   \* DesiredState
  ledger,  \* IdempotencyLedger: what each key applied
  log,     \* AuditLog: the changes applied, in order, and its newest instant
  plans,   \* the plans operators built
  work     \* the call of apply_plan in progress

fleetVars == <<state, ledger, log, plans, work>>

DESTRUCTIVE == {"release", "drain", "complete_drain", "rollout"}

\* A change and its parameters: the assignment, host, pool or image it names.
Change ==
  [kind: {"assign"}, id: AssignmentId, host: Host, pool: Pool, image: {Nothing}]
    \cup [kind: {"release"}, id: AssignmentId, host: {Nothing}, pool: {Nothing}, image: {Nothing}]
    \cup [kind: {"drain", "complete_drain", "return_to_service"}, id: {Nothing}, host: Host,
          pool: {Nothing}, image: {Nothing}]
    \cup [kind: {"rollout"}, id: RolloutId, host: {Nothing}, pool: Pool, image: Image]

Assignment == [status: {"none", "assigned", "released"}, host: Host \cup {Nothing},
               pool: Pool \cup {Nothing}, issued: Nat]

HostStates == [Host -> {"active", "draining", "drained"}]
DrainHistory == Seq({"draining", "drained", "ended"})
PoolImage == [image: Image, rollback: Image, revision: Nat]

\* `clock` is plan_clock: the newest instant the state carries.
DesiredState == [revision: Nat,
                 hosts: HostStates,
                 assignments: [AssignmentId -> Assignment],
                 drains: [Host -> DrainHistory],
                 images: [Pool -> PoolImage],
                 rollouts: SUBSET RolloutId,
                 clock: Nat]

\* A plan is its base revision, its changes (plan_id is their digest) and the
\* free slots it promises.
Plan == [base: Nat, changes: Seq(Change), free: [Host -> Int]]

ASSUME FleetAssumption ==
  /\ Slots \in [Host -> Nat \ {0}]
  /\ Fits \subseteq Host \X Pool
  /\ FirstImage \in Image /\ FirstRollback \in Image /\ FirstImage # FirstRollback
  /\ IsFiniteSet(AssignmentId)
  /\ Nothing \notin Host \cup Pool \cup Image \cup AssignmentId \cup RolloutId \cup IdemKey
  /\ Nothing \notin [plan: Plan, revision: Nat] \cup DesiredState \cup Nat
  /\ LoadedClock \in Nat
  /\ MaxRevision \in Nat /\ MaxPlan \in Nat /\ MaxPlans \in Nat /\ MaxTime \in Nat

FirstState ==
  [revision |-> 1,
   hosts |-> [h \in Host |-> "active"],
   assignments |-> Loaded,
   drains |-> [h \in Host |-> <<>>],
   images |-> [p \in Pool |-> [image |-> FirstImage, rollback |-> FirstRollback, revision |-> 1]],
   rollouts |-> {},
   clock |-> LoadedClock]

Idle == [plan |-> Nothing, key |-> Nothing, at |-> 0, next |-> 1, working |-> FirstState]

FleetInit ==
  /\ state = FirstState
  /\ ledger = [k \in IdemKey |-> Nothing]
  /\ log = [applied |-> <<>>, at |-> 0]
  /\ plans = {}
  /\ work = Idle

-----------------------------------------------------------------------------
(* model.py: capacity and transitions *)

AssignedTo(s, h) == {a \in AssignmentId : s.assignments[a].status = "assigned"
                                          /\ s.assignments[a].host = h}

\* capacity
InUse(s, h) == Cardinality(AssignedTo(s, h))
Free(s, h)  == Slots[h] - InUse(s, h)

\* The document the manager starts from promises no host more than its slots
\* (the loader does not check it; every later read of the capacity does).
ASSUME LoadedAssumption ==
  /\ Loaded \in [AssignmentId -> Assignment]
  /\ \A h \in Host : InUse(FirstState, h) <= Slots[h]

Newest(s, at) == IF at > s.clock THEN at ELSE s.clock

\* Mutant: the slots in use are not counted.
AssignableOvercommitted(s, c) ==
  /\ s.hosts[c.host] = "active" /\ <<c.host, c.pool>> \in Fits
  /\ s.assignments[c.id].status = "none"

Assignable(s, c) ==
  /\ s.hosts[c.host] = "active" /\ <<c.host, c.pool>> \in Fits
  /\ Free(s, c.host) > 0
  /\ s.assignments[c.id].status = "none"

with_assignment(s, c, at) ==
  [s EXCEPT !.revision = @ + 1, !.clock = Newest(s, at),
            !.assignments[c.id] = [status |-> "assigned", host |-> c.host, pool |-> c.pool, issued |-> at]]

Releasable(s, c, at) ==
  /\ s.assignments[c.id].status = "assigned"
  /\ at >= s.assignments[c.id].issued

with_release(s, c, at) ==
  [s EXCEPT !.revision = @ + 1, !.clock = Newest(s, at), !.assignments[c.id].status = "released"]

with_drain(s, c, at) ==
  [s EXCEPT !.revision = @ + 1, !.clock = Newest(s, at), !.hosts[c.host] = "draining",
            !.drains[c.host] = Append(@, "draining")]

\* Every drain of the host in state `from` goes to state `to`.
Moved(drains, from, to) == [n \in DOMAIN drains |-> IF drains[n] = from THEN to ELSE drains[n]]

Completable(s, c) == s.hosts[c.host] = "draining" /\ InUse(s, c.host) = 0

with_drain_complete(s, c, at) ==
  [s EXCEPT !.revision = @ + 1, !.clock = Newest(s, at), !.hosts[c.host] = "drained",
            !.drains[c.host] = Moved(@, "draining", "drained")]

\* Mutant: the return is not a new revision.
ReturnedUnnumbered(s, c, at) ==
  [s EXCEPT !.clock = Newest(s, at), !.hosts[c.host] = "active",
            !.drains[c.host] = Moved(@, "drained", "ended")]

with_host_returned(s, c, at) ==
  [s EXCEPT !.revision = @ + 1, !.clock = Newest(s, at), !.hosts[c.host] = "active",
            !.drains[c.host] = Moved(@, "drained", "ended")]

with_rollout(s, c, at) ==
  [s EXCEPT !.revision = @ + 1, !.clock = Newest(s, at), !.rollouts = @ \cup {c.id},
            !.images[c.pool] = [image |-> c.image, rollback |-> @.image, revision |-> @.revision + 1]]

-----------------------------------------------------------------------------
(* plan.py *)

\* simulate raises no ModelError.
Possible(s, c, at) ==
  \/ c.kind = "assign" /\ Assignable(s, c)
  \/ c.kind = "release" /\ Releasable(s, c, at)
  \/ c.kind = "drain" /\ s.hosts[c.host] = "active"
  \/ c.kind = "complete_drain" /\ Completable(s, c)
  \/ c.kind = "return_to_service" /\ s.hosts[c.host] = "drained"
  \/ c.kind = "rollout" /\ c.image # s.images[c.pool].image /\ c.id \notin s.rollouts

\* What simulate returns.
simulate(s, c, at) ==
  CASE c.kind = "assign"            -> with_assignment(s, c, at)
    [] c.kind = "release"           -> with_release(s, c, at)
    [] c.kind = "drain"             -> with_drain(s, c, at)
    [] c.kind = "complete_drain"    -> with_drain_complete(s, c, at)
    [] c.kind = "return_to_service" -> with_host_returned(s, c, at)
    [] c.kind = "rollout"           -> with_rollout(s, c, at)

\* A whole list of changes, each on the result of the one before, at an instant
\* or at the clock of the state itself; Nothing when one is not possible.
Run(s, changes, at) ==
  LET When(t) == IF at = Nothing THEN t.clock ELSE at
      after[n \in 0..Len(changes)] ==
        IF n = 0 THEN s
        ELSE IF after[n - 1] = Nothing THEN Nothing
        ELSE IF ~Possible(after[n - 1], changes[n], When(after[n - 1])) THEN Nothing
        ELSE simulate(after[n - 1], changes[n], When(after[n - 1]))
  IN  after[Len(changes)]

\* build_plan: an operator plans against the revision it reads.
build_plan(changes) ==
  LET end == Run(state, changes, Nothing) IN
  /\ changes # <<>>
  /\ end # Nothing
  /\ plans' = plans \cup {[base |-> state.revision, changes |-> changes,
                           free |-> [h \in Host |-> Free(end, h)]]}
  /\ UNCHANGED <<state, ledger, log, work>>

destructive(p) == \E n \in DOMAIN p.changes : p.changes[n].kind \in DESTRUCTIVE

-----------------------------------------------------------------------------
(* auth.py, apply.py, audit.py *)

Scope == {"read", "plan", "apply", "admin"}

\* The scopes that satisfy one.
SatisfiedBy(scope) ==
  CASE scope = "read"  -> Scope
    [] scope = "plan"  -> Scope \ {"read"}
    [] scope = "apply" -> {"apply", "admin"}
    [] scope = "admin" -> {"admin"}

Authorized(p, granted) ==
  /\ granted \in SatisfiedBy("apply")
  /\ destructive(p) => granted \in SatisfiedBy("admin")

\* A log takes no entry older than its newest: the call raises and leaves
\* everything as it was.
Loggable(at) == at >= log.at

\* apply_plan ends with one entry in the log and nothing applied: not
\* authorized, the key covers another plan, a replay, or a stale plan.
apply_without_effect(p, k, granted, at) ==
  /\ work.plan = Nothing /\ Loggable(at)
  /\ \/ ~Authorized(p, granted)
     \/ ledger[k] # Nothing
     \/ p.base # state.revision
  /\ log' = [log EXCEPT !.at = at]
  /\ UNCHANGED <<state, ledger, plans, work>>

\* apply_plan begins to execute.
apply_begin(p, k, granted, at) ==
  /\ work.plan = Nothing /\ Loggable(at)
  /\ Authorized(p, granted) /\ ledger[k] = Nothing /\ p.base = state.revision
  /\ work' = [plan |-> p, key |-> k, at |-> at, next |-> 1, working |-> state]
  /\ UNCHANGED <<state, ledger, log, plans>>

\* The change that is next on the working copy.
NextChange == work.plan.changes[work.next]

apply_change ==
  /\ work.plan # Nothing /\ work.next <= Len(work.plan.changes)
  /\ Possible(work.working, NextChange, work.at)
  /\ work' = [work EXCEPT !.next = @ + 1, !.working = simulate(@, NextChange, work.at)]
  /\ UNCHANGED <<state, ledger, log, plans>>

\* Mutant: what was done before the refusal is kept.
RefuseKeeping ==
  /\ work.plan # Nothing /\ work.next <= Len(work.plan.changes)
  /\ ~Possible(work.working, NextChange, work.at)
  /\ log' = [log EXCEPT !.at = work.at]
  /\ state' = work.working
  /\ work' = Idle
  /\ UNCHANGED <<ledger, plans>>

\* A change is not possible: the copy and the pending entries are dropped.
apply_refused ==
  /\ work.plan # Nothing /\ work.next <= Len(work.plan.changes)
  /\ ~Possible(work.working, NextChange, work.at)
  /\ log' = [log EXCEPT !.at = work.at]
  /\ work' = Idle
  /\ UNCHANGED <<state, ledger, plans>>

Entry == [change: Change, key: IdemKey, at: 1..MaxTime]

\* The entries of a plan: one for each change, with its key and its instant.
Entries(p, k, at) == [n \in DOMAIN p.changes |-> [change |-> p.changes[n], key |-> k, at |-> at]]

\* Mutant: the ledger is returned as it came.
CommitForgettingKey ==
  /\ work.plan # Nothing /\ work.next > Len(work.plan.changes)
  /\ state' = work.working
  /\ log' = [applied |-> log.applied \o Entries(work.plan, work.key, work.at), at |-> work.at]
  /\ work' = Idle
  /\ UNCHANGED <<ledger, plans>>

\* All changes applied: state, ledger and log are replaced together, unless the
\* result is not the revision the plan declared, which raises.
apply_commit ==
  /\ work.plan # Nothing /\ work.next > Len(work.plan.changes)
  /\ IF work.working.revision = work.plan.base + Len(work.plan.changes)
     THEN /\ state' = work.working
          /\ ledger' = [ledger EXCEPT ![work.key] = [plan |-> work.plan, revision |-> work.working.revision]]
          /\ log' = [applied |-> log.applied \o Entries(work.plan, work.key, work.at), at |-> work.at]
     ELSE UNCHANGED <<state, ledger, log>>
  /\ work' = Idle
  /\ UNCHANGED plans

apply_plan(p, k, granted, at) ==
  apply_begin(p, k, granted, at) \/ apply_without_effect(p, k, granted, at)

-----------------------------------------------------------------------------
(* Specification *)

\* Lists of changes an operator may write.
ChangeLists == UNION {[1..n -> Change] : n \in 1..MaxPlan}

Operators ==
  \/ /\ Cardinality(plans) < MaxPlans
     /\ \E changes \in ChangeLists : state.revision + Len(changes) <= MaxRevision /\ build_plan(changes)
  \/ \E p \in plans, k \in IdemKey, granted \in Scope, at \in 1..MaxTime : apply_plan(p, k, granted, at)

Manager == apply_change \/ apply_refused \/ apply_commit

FleetNext == Operators \/ Manager

FleetSpec == FleetInit /\ [][FleetNext]_fleetVars

-----------------------------------------------------------------------------
(* Properties *)

\* State, plans, ledger, log and the working copy are well formed; a ledger
\* entry names a plan that was built (IdempotencyLedger, AuditLog).
FleetTypeOK ==
  /\ state \in DesiredState
  /\ \A p \in plans : p \in Plan
  /\ ledger \in [IdemKey -> {Nothing} \cup [plan: plans, revision: Nat]]
  /\ log \in [applied: Seq(Entry), at: 0..MaxTime]
  /\ work \in [plan: plans \cup {Nothing}, key: IdemKey \cup {Nothing}, at: 0..MaxTime, next: Nat \ {0},
               working: DesiredState]

\* No host is promised more work than it has slots, whatever mixture of plans
\* was applied; Capacity raises on the first read of a state where one is.
WithinSlots(s) == \A h \in Host : InUse(s, h) <= Slots[h]

NoOvercommit == WithinSlots(state) /\ WithinSlots(work.working)

\* A host and the history of its drains tell the same story, and a drained
\* host holds no assignment.  (active_drain, with_drain, with_drain_complete,
\* with_host_returned keep the two apart in the state.)
DrainsAgree(s) ==
  \A h \in Host :
    LET d == s.drains[h] IN
    /\ s.hosts[h] = "active" => \A n \in DOMAIN d : d[n] = "ended"
    /\ s.hosts[h] # "active" =>
         /\ d # <<>> /\ d[Len(d)] = s.hosts[h]
         /\ \A n \in DOMAIN d : n < Len(d) => d[n] = "ended"
    /\ s.hosts[h] = "drained" => AssignedTo(s, h) = {}

DrainsMatchHosts == DrainsAgree(state) /\ DrainsAgree(work.working)

\* Both of the state and of the working copy of an apply in progress: slots are
\* not oversold and hosts agree with their drains, so that the next plan is
\* judged against what is so (Capacity, with_drain, with_host_returned).
CapacityIsKept == NoOvercommit /\ DrainsMatchHosts

\* The audit log is the whole story: replayed from the first state, it gives
\* the state, so no change is unrecorded, recorded twice, or partly applied.
AuditReplaysToState ==
  LET after[n \in 0..Len(log.applied)] ==
        IF n = 0 THEN FirstState
        ELSE simulate(after[n - 1], log.applied[n].change, log.applied[n].at)
  IN  state = after[Len(log.applied)]

\* A key applied one plan, once and as a whole: its entries stand together in
\* the log, at the revisions the plan was made for, and every entry is some key's.
KeysApplyOnce ==
  /\ \A k \in IdemKey : ledger[k] # Nothing =>
       \A n \in DOMAIN log.applied :
         log.applied[n].key = k <=>
           /\ n \in ledger[k].plan.base..(ledger[k].revision - 1)
           /\ log.applied[n].change = ledger[k].plan.changes[n - ledger[k].plan.base + 1]
  /\ \A n \in DOMAIN log.applied : ledger[log.applied[n].key] # Nothing

\* A plan keeps its word: as long as the state is at the plan's revision,
\* applying it at an instant the log accepts and the state does not precede
\* cannot be refused as impossible, and leaves the free slots that were
\* reviewed.
PlansKeepTheirWord ==
  \A p \in plans : p.base = state.revision =>
    \A at \in log.at..MaxTime : at >= state.clock =>
      LET end == Run(state, p.changes, at) IN
      /\ end # Nothing
      /\ end.revision = p.base + Len(p.changes)
      /\ \A h \in Host : Free(end, h) = p.free[h]
=============================================================================
