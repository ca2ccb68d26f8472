----------------------------- MODULE FleetLoop -----------------------------
(***************************************************************************)
(* The fleet manager's control loop around the desired state of            *)
(* FleetState: reconcile and bound_candidates                              *)
(* (src/fleet-manager/fleet_manager/reconcile.py) read the state and the   *)
(* last report of each host (observation.py) and propose a bounded batch;  *)
(* the batch is planned and applied like an operator's; StateIssuer signs  *)
(* the state for one host and accept_state (state.py) is the host's check. *)
(*                                                                         *)
(* Nothing holds the loop together but numbers: a batch is of a revision,  *)
(* a report is as old as it is, an envelope has a sequence and a lifetime  *)
(* and arrives late, twice, out of order or not at all.                    *)
(*                                                                         *)
(* MCRecords explores apply_plan change by change; here a plan that is not *)
(* stale is applied in one step, with its key fresh and its entries in a   *)
(* log this module leaves alone.  The document of the state is the whole   *)
(* state; a host reads from it what it has to run.                         *)
(***************************************************************************)
EXTENDS FleetState

CONSTANTS
  Order,          \* all identifiers in the order of the strings they are
  PoolOrder,      \* the pools in the order of their ids
  RecIds,         \* the assignment ids the reconciler counts through, for each pool
  AllowedPools,   \* Host.allowed_pools
  WarmMin,        \* Pool.warm_min
  MaxParallel,    \* Pool.disruption_budget
  max_drains, max_replacements, max_host_mutations,  \* ConvergenceLimits
  Lifetime,       \* MAX_STATE_LIFETIME
  ClockSkew,      \* MAX_STATE_CLOCK_SKEW
  Ahead,          \* how far each host's clock is ahead of the manager's
  Asking,         \* the hosts that ask for their state; the others only report
  MaxClock,       \* bound
  MaxProposals,   \* bound: changes operators propose
  MaxHeld         \* bound: copies of envelopes for a host somebody still holds

VARIABLES
  reports,    \* the last Observation of each host: its runners
  pending,    \* the reconciler's batch that waits to be submitted
  halted,     \* the switch that stops the reconciler
  proposed,   \* changes operators proposed so far
  sequences,  \* StateIssuer._sequences
  sent,       \* the envelopes issued, for whoever holds a copy
  accepted,   \* the last state each host accepted
  running,    \* the runners each host runs
  clock       \* the manager's

loopVars == <<reports, pending, halted, proposed, sequences, sent, accepted, running, clock>>
allVars == <<fleetVars, loopVars>>


\* Every cap may be zero, every budget is at least one.
ConvergenceLimits == {max_drains, max_replacements, max_host_mutations} \subseteq Nat
DisruptionBudget == \A p \in Pool : MaxParallel[p] \in Nat \ {0}

Identifier == Host \cup Pool \cup Image \cup AssignmentId \cup RolloutId \cup {Nothing}

ASSUME LoopAssumption ==
  /\ Order \in Seq(Identifier) /\ \A x \in Identifier : \E n \in DOMAIN Order : Order[n] = x
  /\ PoolOrder \in Seq(Pool) /\ \A p \in Pool : \E n \in DOMAIN PoolOrder : PoolOrder[n] = p
  /\ RecIds \in [Pool -> Seq(AssignmentId)]
  /\ \A pair \in Fits : pair[2] \in AllowedPools[pair[1]]
  /\ \A p \in Pool : WarmMin[p] \in Nat
  /\ ConvergenceLimits /\ DisruptionBudget
  /\ Lifetime \in Nat \ {0} /\ ClockSkew \in Nat

NoBatch == [base |-> 0, changes |-> <<>>]

\* The runners a host has to run, in a document of the state: so many of each
\* pool, numbered by the host.
Wanted(s, h) ==
  {r \in Pool \X (1..Slots[h]) : r[2] <= Cardinality({a \in AssignedTo(s, h) : s.assignments[a].pool = r[1]})}

NothingAccepted == [revision |-> 0, sequence |-> 0, wanted |-> {}]

LoopInit ==
  /\ FleetInit
  /\ reports = [h \in Host |-> Nothing]
  /\ pending = NoBatch
  /\ halted = FALSE
  /\ proposed = 0
  /\ sequences = [h \in Host |-> 0]
  /\ sent = {}
  /\ accepted = [h \in Host |-> NothingAccepted]
  /\ running = [h \in Host |-> {}]
  /\ clock = 0

-----------------------------------------------------------------------------
(* reconcile.py: a batch within its limits *)

\* F of x, where x is computed once.
Once(F(_), x) == CHOOSE r \in {F(v) : v \in {x}} : TRUE

\* Step over a list from the left.
Fold(Step(_, _), first, list) ==
  LET After(items) ==
        LET after[n \in 0..Len(items)] ==
              IF n = 0 THEN first ELSE Once(LAMBDA sofar : Step(sofar, items[n]), after[n - 1])
        IN  after[Len(items)]
  IN  Once(After, list)

Position == [x \in Identifier |-> CHOOSE n \in DOMAIN Order : Order[n] = x]

_CANDIDATE_ORDER(kind) ==
  CASE kind = "complete_drain"    -> 0
    [] kind = "return_to_service" -> 1
    [] kind = "drain"             -> 2
    [] kind = "release"           -> 3
    [] kind = "rollout"           -> 4
    [] kind = "assign"            -> 5

Subject(c) ==
  CASE c.kind \in {"assign", "release"} -> c.id
    [] c.kind = "rollout"               -> c.pool
    [] OTHER                            -> c.host

_candidate_key(c) ==
  <<_CANDIDATE_ORDER(c.kind), Position[Subject(c)],
    Position[c.id], Position[c.host], Position[c.pool], Position[c.image]>>

\* Keys are compared from the left.
Before(k, m) == \E i \in 1..6 : k[i] < m[i] /\ \A j \in 1..(i - 1) : k[j] = m[j]

Preceding == [c \in Change |-> {d \in Change : Before(_candidate_key(d), _candidate_key(c))}]

\* The candidates in the order of their keys: the n-th has n - 1 before it.
Sorted(candidates) ==
  [n \in 1..Cardinality(candidates) |->
     CHOOSE c \in candidates : Cardinality(candidates \cap Preceding[c]) = n - 1]

_validated_candidates(candidates) == Once(Sorted, candidates)

\* The host a change touches, if it names one.
_host_of(c) == c.host

_disrupted_pools(s, c) ==
  CASE c.kind \in {"assign", "rollout"} -> {c.pool}
    [] c.kind = "release"               -> {s.assignments[c.id].pool}
    [] OTHER                            -> AllowedPools[c.host]

_budget(p) == MaxParallel[p]

Unused == [drains |-> 0, replacements |-> 0, host_mutations |-> 0, pools |-> [p \in Pool |-> 0]]

IsDrain(c) == c.kind \in {"drain", "complete_drain"}

_exhausted(s, c, used, stop) ==
  \/ stop
  \/ IsDrain(c) /\ used.drains >= max_drains
  \/ c.kind = "rollout" /\ used.replacements >= max_replacements
  \/ _host_of(c) # Nothing /\ used.host_mutations >= max_host_mutations
  \/ c.kind \in DESTRUCTIVE /\ \E p \in _disrupted_pools(s, c) : used.pools[p] >= _budget(p)

One(condition) == IF condition THEN 1 ELSE 0

\* Mutant: a drain is charged to one of the host's pools only.
ChargeOnePool(s, c, used) ==
  [drains |-> used.drains + One(IsDrain(c)),
   replacements |-> used.replacements + One(c.kind = "rollout"),
   host_mutations |-> used.host_mutations + One(_host_of(c) # Nothing),
   pools |-> LET one == CHOOSE p \in _disrupted_pools(s, c) :
                          \A q \in _disrupted_pools(s, c) : Position[p] >= Position[q]
             IN  [p \in Pool |-> used.pools[p] + One(c.kind \in DESTRUCTIVE /\ p = one)]]

_charge(s, c, used) ==
  [drains |-> used.drains + One(IsDrain(c)),
   replacements |-> used.replacements + One(c.kind = "rollout"),
   host_mutations |-> used.host_mutations + One(_host_of(c) # Nothing),
   pools |-> [p \in Pool |-> used.pools[p] + One(c.kind \in DESTRUCTIVE /\ p \in _disrupted_pools(s, c))]]

\* One candidate more: deferred, or submitted and charged.
Decided(s, stop, sofar, c) ==
  IF _exhausted(s, c, sofar.used, stop)
  THEN [sofar EXCEPT !.deferred = @ \cup {c}]
  ELSE [sofar EXCEPT !.changes = Append(@, c), !.used = _charge(s, c, @)]

bound_candidates(s, candidates, stop) ==
  Fold(LAMBDA sofar, c : Decided(s, stop, sofar, c), [changes |-> <<>>, deferred |-> {}, used |-> Unused],
       _validated_candidates(candidates))

-----------------------------------------------------------------------------
(* reconcile.py: desired against observed *)

Active(s) == {h \in Host : s.hosts[h] = "active"}
Reporting == {h \in Host : reports[h] # Nothing}

Runners(h) == IF h \in Reporting THEN reports[h] ELSE {}
Observed(h, p) == {r \in Runners(h) : r[1] = p}

runner_count(h) == Cardinality(Runners(h))

\* Runners the desired state does not account for, and hosts that say nothing.
HostDrifts(s) ==
  {[kind |-> "host_not_reporting", host |-> h, pool |-> Nothing] : h \in Active(s) \ Reporting}
    \cup {[kind |-> "unmanaged_runner", host |-> hp[1], pool |-> hp[2]] :
            hp \in {hp \in Active(s) \X Pool : Observed(hp[1], hp[2]) \ Wanted(s, hp[1]) # {}}}

Missing(s, p) == WarmMin[p] - Cardinality(UNION {{h} \X Observed(h, p) : h \in Active(s)})

WarmDrifts(s) ==
  {[kind |-> "warm_shortfall", host |-> Nothing, pool |-> p] : p \in {p \in Pool : Missing(s, p) > 0}}

refusal_for(s, h, p) == s.hosts[h] # "active" \/ <<h, p>> \notin Fits

\* Mutant: the free slots are those of the state, not of the working copy.
PlacementHostOfState(working, s, p) ==
  LET offered == {h \in Active(s) \cap Reporting : ~refusal_for(s, h, p) /\ Free(s, h) > 0}
  IN  {h \in offered : \A g \in offered \ {h} : Free(s, h) > Free(s, g)
                          \/ (Free(s, h) = Free(s, g) /\ Position[h] < Position[g])}

\* The host with most free slots, then the lowest id, if one can take the
\* assignment; a host that says nothing is not offered.
_placement_host(working, s, p) ==
  LET offered == {h \in Active(s) \cap Reporting : ~refusal_for(s, h, p) /\ Free(working, h) > 0}
  IN  {h \in offered : \A g \in offered \ {h} : Free(working, h) > Free(working, g)
                          \/ (Free(working, h) = Free(working, g) /\ Position[h] < Position[g])}

\* The first id not taken; the count has no end, RecIds has (bound).
_free_assignment_id(p, working) ==
  LET free == {n \in DOMAIN RecIds[p] : working.assignments[RecIds[p][n]].status = "none"}
  IN  {RecIds[p][n] : n \in {n \in free : \A m \in free : n <= m}}

Wants(s, wants, p) == wants \o [n \in 1..(IF Missing(s, p) > 0 THEN Missing(s, p) ELSE 0) |-> p]

\* The pools with runners missing, each as often as one is.
Shortfall(s) == Fold(LAMBDA wants, p : Wants(s, wants, p), <<>>, PoolOrder)

Placements(s, sofar, p) ==
  {[kind |-> "assign", id |-> a, host |-> h, pool |-> p, image |-> Nothing] :
     h \in _placement_host(sofar.working, s, p), a \in _free_assignment_id(p, sofar.working)}

\* A pool's next assignment, if there is a host for it.
Placed(s, sofar, p) ==
  IF Placements(s, sofar, p) = {} THEN sofar
  ELSE LET c == CHOOSE c \in Placements(s, sofar, p) : TRUE
       IN  [working |-> with_assignment(sofar.working, c, s.clock), candidates |-> sofar.candidates \cup {c}]

\* An assignment for each missing runner, each on the result of the one before.
Assignments(s) ==
  Fold(LAMBDA sofar, p : Placed(s, sofar, p), [working |-> s, candidates |-> {}], Shortfall(s)).candidates

Draining(s) == {h \in Host : \E n \in DOMAIN s.drains[h] : s.drains[h][n] = "draining"}

\* A drain is complete when neither an assignment nor a reported runner remains.
DrainCompletable(s, h) == InUse(s, h) = 0 /\ runner_count(h) = 0

Completions(s) ==
  {[kind |-> "complete_drain", id |-> Nothing, host |-> h, pool |-> Nothing, image |-> Nothing] :
     h \in {h \in Draining(s) : DrainCompletable(s, h)}}

DrainDrifts(s) ==
  {[kind |-> IF DrainCompletable(s, h) THEN "drain_completable" ELSE "drain_blocked", host |-> h, pool |-> Nothing] :
     h \in Draining(s)}

Candidates(s) == Assignments(s) \cup Completions(s)

reconcile(s, stop) ==
  LET bounded == bound_candidates(s, Candidates(s), stop) IN
  [candidates |-> Candidates(s), changes |-> bounded.changes, deferred |-> bounded.deferred,
   drifts |-> HostDrifts(s) \cup WarmDrifts(s) \cup DrainDrifts(s)]

\* A Reconciliation is only built if its changes are the candidates it did not
\* defer, in their order.
Reconciliation(found) ==
  found.changes = SelectSeq(_validated_candidates(found.candidates), LAMBDA c : c \notin found.deferred)

converged(found) == found.changes = <<>> /\ found.deferred = {}

-----------------------------------------------------------------------------
(* The manager's steps *)

\* What of it is submitted, and the revision it is of.
Batch(found) == [base |-> state.revision, changes |-> found.changes]

Reconcile ==
  /\ pending = NoBatch
  /\ \E found \in {reconcile(state, halted)} :
       Reconciliation(found) /\ ~converged(found) /\ pending' = Batch(found)
  /\ UNCHANGED <<fleetVars, reports, halted, proposed, sequences, sent, accepted, running, clock>>

\* build_plan and apply_plan at the batch's revision: a batch that is empty,
\* stale, holds what is not a Change or does not run leaves the state as it is.
Applied(batch) ==
  LET end == Run(state, batch.changes, Nothing) IN
  IF batch.base = state.revision /\ batch.changes \in Seq(Change) /\ end # Nothing THEN end ELSE state

Submit ==
  /\ pending # NoBatch
  /\ state' = Applied(pending)
  /\ pending' = NoBatch
  /\ UNCHANGED <<ledger, log, plans, work, reports, halted, proposed, sequences, sent, accepted, running, clock>>

\* The changes an operator may ask for in the state it reads.
Proposals ==
  {c \in Change : c.kind \notin {"assign", "complete_drain"} /\ Possible(state, c, state.clock)}

\* An operator's candidates go through the same limits (bound_candidates is
\* public for that) and are applied before anything else is.
Propose(candidates) ==
  /\ proposed + Cardinality(candidates) <= MaxProposals
  /\ state' = Applied(Batch(bound_candidates(state, candidates, halted)))
  /\ proposed' = proposed + Cardinality(candidates)
  /\ UNCHANGED <<ledger, log, plans, work, reports, pending, halted, sequences, sent, accepted, running, clock>>

\* The reconciler is stopped by an operator, and started again.
Halt ==
  /\ ~halted /\ proposed < MaxProposals
  /\ halted' = TRUE
  /\ proposed' = proposed + 1
  /\ UNCHANGED <<fleetVars, reports, pending, sequences, sent, accepted, running, clock>>

Resume ==
  /\ halted
  /\ halted' = FALSE
  /\ UNCHANGED <<fleetVars, reports, pending, proposed, sequences, sent, accepted, running, clock>>

-----------------------------------------------------------------------------
(* state.py: what a host is asked to become *)

\* A host asks again when the state has moved on, or what it was sent is lost.
Asks(h) ==
  /\ h \in Asking
  /\ \A e \in sent : e.audience = h =>
       e.revision # state.revision \/ (clock + Ahead[h] > e.expires /\ accepted[h].sequence < e.sequence)

\* The envelope for a host: the state as it is, under the host's next sequence.
SignedState(h) ==
  [audience |-> h, revision |-> state.revision, sequence |-> sequences[h] + 1,
   issued |-> clock, expires |-> clock + Lifetime, wanted |-> Wanted(state, h)]

\* Copies of older envelopes are lost in the end (bound).
Held(h) == {e \in sent : e.audience = h => e.sequence + MaxHeld > sequences[h] + 1}

\* Mutant: the sequence is not stored, so every envelope has the first one.
IssueFirstSequence(h) ==
  /\ Asks(h)
  /\ sent' = Held(h) \cup {SignedState(h)}
  /\ UNCHANGED <<fleetVars, reports, pending, halted, proposed, sequences, accepted, running, clock>>

StateIssuer_issue(h) ==
  /\ Asks(h)
  /\ sequences' = [sequences EXCEPT ![h] = @ + 1]
  /\ sent' = Held(h) \cup {SignedState(h)}
  /\ UNCHANGED <<fleetVars, reports, pending, halted, proposed, accepted, running, clock>>

\* Mutant: the sequence is not compared with the last accepted one.
AcceptableAgain(h, e) ==
  /\ e.audience = h
  /\ clock + Ahead[h] <= e.expires
  /\ clock + Ahead[h] >= e.issued - ClockSkew

\* The checks of accept_state; the signature is the manager's on all it sent.
Acceptable(h, e) ==
  /\ e.audience = h
  /\ clock + Ahead[h] <= e.expires
  /\ clock + Ahead[h] >= e.issued - ClockSkew
  /\ e.sequence > accepted[h].sequence

accept_state(h, e) ==
  /\ Acceptable(h, e)
  /\ accepted' = [accepted EXCEPT ![h] = [revision |-> e.revision, sequence |-> e.sequence, wanted |-> e.wanted]]
  /\ UNCHANGED <<fleetVars, reports, pending, halted, proposed, sequences, sent, running, clock>>

-----------------------------------------------------------------------------
(* The hosts: they run what the accepted state gives them, and report *)

Follow(h) ==
  /\ running[h] # accepted[h].wanted
  /\ running' = [running EXCEPT ![h] = accepted[h].wanted]
  /\ UNCHANGED <<fleetVars, reports, pending, halted, proposed, sequences, sent, accepted, clock>>

Report(h) ==
  /\ reports[h] # running[h]
  /\ reports' = [reports EXCEPT ![h] = running[h]]
  /\ UNCHANGED <<fleetVars, pending, halted, proposed, sequences, sent, accepted, running, clock>>

Tick ==
  /\ clock < MaxClock
  /\ clock' = clock + 1
  /\ UNCHANGED <<fleetVars, reports, pending, halted, proposed, sequences, sent, accepted, running>>

-----------------------------------------------------------------------------
(* Specification *)

LoopNext ==
  \/ Reconcile
  \/ \E candidates \in SUBSET Proposals : candidates # {} /\ Propose(candidates)
  \/ Submit
  \/ Halt \/ Resume
  \/ \E h \in Host : StateIssuer_issue(h) \/ Follow(h) \/ Report(h)
  \/ \E h \in Host, e \in sent : accept_state(h, e)
  \/ Tick

\* The loop is called again and again, a halt is lifted, and a host that is up
\* keeps asking, following and reporting.  Operators, delays and the order of
\* delivery are free.
LoopSpec ==
  /\ LoopInit /\ [][LoopNext]_allVars
  /\ WF_allVars(Reconcile) /\ WF_allVars(Submit) /\ WF_allVars(Resume)
  /\ \A h \in Host :
       /\ WF_allVars(StateIssuer_issue(h)) /\ WF_allVars(Report(h))
       /\ WF_allVars(\E e \in sent : e.revision = state.revision /\ accept_state(h, e))
       /\ WF_allVars(Follow(h))

-----------------------------------------------------------------------------
(* Properties *)

\* A batch computed at the state's revision can be applied as it stands,
\* whatever part of it the caps deferred: no assignment in it lacks a slot, an
\* id or an active host (reconcile places on a working copy, bound_candidates
\* then drops candidates from the middle).
BatchFits == pending.base = state.revision => Run(state, pending.changes, Nothing) # Nothing

\* What one step takes from a pool: hosts drained, runners released, a rollout.
Disruption(p) ==
  Cardinality({h \in Host : p \in AllowedPools[h] /\ state'.hosts[h] # state.hosts[h] /\ state'.hosts[h] # "active"})
    + Cardinality({a \in AssignmentId : /\ state.assignments[a].status = "assigned"
                                        /\ state.assignments[a].pool = p
                                        /\ state'.assignments[a].status = "released"})
    + One(state'.images[p] # state.images[p])

\* No step disturbs more of a pool than its disruption budget, although the
\* budget is charged change by change and a host serves several pools
\* (_exhausted and _charge against the pools of _disrupted_pools).
DisruptionBounded == [][\A p \in Pool : Disruption(p) <= MaxParallel[p]]_allVars

\* A host never goes back to an older state, whatever order the envelopes
\* reach it in and however often (accept_state, StateIssuer.issue).
AcceptedGoesForward == [][\A h \in Host : accepted'[h].revision >= accepted[h].revision]_allVars

\* The loop settles once operators are quiet: a reconciliation finds nothing
\* more to submit or to defer, and every drain without assignments is complete.
\* For that the host learns of its state under a newer sequence, ends its
\* runners and reports, and a batch within its caps is applied before it is
\* stale (state.py, observation.py and reconcile.py together).
Settles ==
  <>[](/\ Candidates(state) = {}
       /\ \A h \in Host : state.hosts[h] = "draining" => InUse(state, h) > 0)
=============================================================================
