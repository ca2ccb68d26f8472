---------------------------- MODULE FleetProofs ----------------------------
(***************************************************************************)
(* For fleets of any size and plans of any length: no host is promised     *)
(* more than its slots, hosts and drains agree, an idempotency key applies *)
(* one plan, once and as a whole, the audit log tells the whole state, and *)
(* a plan runs later as it was reviewed.  Around it, in the control loop,  *)
(* a batch fits in the state it was made of, no step takes more from a     *)
(* pool than its budget, and no host goes back to an older state.          *)
(***************************************************************************)
EXTENDS FleetLoop, FiniteSetTheorems, SequenceTheorems, WellFoundedInduction, TLAPS

-----------------------------------------------------------------------------
(* What each transition does to the state *)

LEMMA NewestType ==
  ASSUME NEW s \in DesiredState, NEW at \in Nat
  PROVE  Newest(s, at) \in Nat
  BY DEF Newest, DesiredState

\* The next revision of a state, before the change itself (_bumped).
Bumped(s, at) == [s EXCEPT !.revision = @ + 1, !.clock = Newest(s, at)]

LEMMA BumpedType ==
  ASSUME NEW s \in DesiredState, NEW at \in Nat
  PROVE  LET t == Bumped(s, at) IN
         /\ t \in DesiredState
         /\ t.revision = s.revision + 1 /\ t.clock = Newest(s, at)
         /\ t.hosts = s.hosts /\ t.drains = s.drains /\ t.assignments = s.assignments
         /\ t.images = s.images /\ t.rollouts = s.rollouts
<1> DEFINE d == [s EXCEPT !.revision = @ + 1]
           n == Newest(s, at)
<1>1. n \in Nat
  BY NewestType
<1>2. /\ d \in DesiredState /\ d.revision = s.revision + 1
      /\ d.hosts = s.hosts /\ d.drains = s.drains /\ d.assignments = s.assignments
      /\ d.images = s.images /\ d.rollouts = s.rollouts
  BY DEF DesiredState
<1>3. Bumped(s, at) = [d EXCEPT !.clock = n]
  BY Zenon DEF Bumped
<1>4. n = Newest(s, at)
  OBVIOUS
<1> HIDE DEF d, n
<1> QED
  BY <1>1, <1>2, <1>3, <1>4 DEF DesiredState

\* A host moves to another state and its drains with it.
Relocated(s, h, x, q) == [s EXCEPT !.hosts[h] = x, !.drains[h] = q]

LEMMA HostMoves ==
  ASSUME NEW s \in DesiredState, NEW h \in Host, NEW x \in {"active", "draining", "drained"},
         NEW q \in DrainHistory,
         NEW t, t = Relocated(s, h, x, q)
  PROVE  /\ t \in DesiredState
         /\ t.revision = s.revision /\ t.assignments = s.assignments
         /\ t.images = s.images /\ t.rollouts = s.rollouts /\ t.clock = s.clock
         /\ t.hosts[h] = x /\ t.drains[h] = q
<1> DEFINE hs == [s.hosts EXCEPT ![h] = x]
           ds == [s.drains EXCEPT ![h] = q]
           e == [s EXCEPT !.hosts = hs]
<1>1. hs \in HostStates /\ ds \in [Host -> DrainHistory]
  BY DEF HostStates, DesiredState
<1>2. t = [e EXCEPT !.drains = ds]
  BY DEF Relocated, DesiredState
<1>3. /\ e \in DesiredState /\ e.revision = s.revision /\ e.assignments = s.assignments /\ e.hosts = hs
      /\ e.images = s.images /\ e.rollouts = s.rollouts /\ e.clock = s.clock
  <2> HIDE DEF hs
  <2> QED
    BY <1>1 DEF DesiredState
<1> HIDE DEF e, ds
<1> QED
  <2>1. /\ t \in DesiredState /\ t.revision = e.revision /\ t.assignments = e.assignments
        /\ t.images = e.images /\ t.rollouts = e.rollouts /\ t.clock = e.clock
        /\ t.hosts = e.hosts /\ t.drains = ds
    BY <1>1, <1>2, <1>3 DEF DesiredState
  <2> QED
    BY <2>1, <1>3 DEF ds, DesiredState, HostStates

LEMMA Assigns ==
  ASSUME NEW s \in DesiredState, NEW c \in Change, c.kind = "assign", NEW at \in Nat
  PROVE  LET t == with_assignment(s, c, at) IN
         /\ t \in DesiredState
         /\ t.revision = s.revision + 1 /\ t.clock = Newest(s, at)
         /\ t.hosts = s.hosts /\ t.drains = s.drains
         /\ t.images = s.images /\ t.rollouts = s.rollouts
         /\ t.assignments[c.id] = [status |-> "assigned", host |-> c.host, pool |-> c.pool, issued |-> at]
         /\ \A a \in AssignmentId : a # c.id => t.assignments[a] = s.assignments[a]
<1>1. c.id \in AssignmentId /\ c.host \in Host /\ c.pool \in Pool
  BY FleetAssumption DEF Change
<1>2. [status |-> "assigned", host |-> c.host, pool |-> c.pool, issued |-> at] \in Assignment
  BY <1>1 DEF Assignment
<1>3. Newest(s, at) \in Nat
  BY NewestType
<1> DEFINE d == Bumped(s, at)
<1>8. with_assignment(s, c, at) = [d EXCEPT !.assignments[c.id] = [status |-> "assigned", host |-> c.host, pool |-> c.pool, issued |-> at]]
  BY DEF with_assignment, Bumped, DesiredState
<1>9. /\ d \in DesiredState /\ d.revision = s.revision + 1 /\ d.clock = Newest(s, at)
      /\ d.hosts = s.hosts /\ d.drains = s.drains /\ d.assignments = s.assignments
      /\ d.images = s.images /\ d.rollouts = s.rollouts
  BY BumpedType
<1> HIDE DEF d
<1> QED
  BY <1>1, <1>2, <1>8, <1>9 DEF DesiredState

LEMMA Releases ==
  ASSUME NEW s \in DesiredState, NEW c \in Change, c.kind = "release", NEW at \in Nat
  PROVE  LET t == with_release(s, c, at) IN
         /\ t \in DesiredState
         /\ t.revision = s.revision + 1 /\ t.clock = Newest(s, at)
         /\ t.hosts = s.hosts /\ t.drains = s.drains
         /\ t.images = s.images /\ t.rollouts = s.rollouts
         /\ t.assignments[c.id] = [s.assignments[c.id] EXCEPT !.status = "released"]
         /\ \A a \in AssignmentId : a # c.id => t.assignments[a] = s.assignments[a]
<1>1. c.id \in AssignmentId
  BY FleetAssumption DEF Change
<1>2. s.assignments[c.id] \in Assignment
  BY <1>1 DEF DesiredState
<1>3. [s.assignments[c.id] EXCEPT !.status = "released"] \in Assignment
  BY <1>2 DEF Assignment
<1>4. Newest(s, at) \in Nat
  BY NewestType
<1> DEFINE d == Bumped(s, at)
<1>8. with_release(s, c, at) = [d EXCEPT !.assignments[c.id].status = "released"]
  BY DEF with_release, Bumped, DesiredState
<1>9. /\ d \in DesiredState /\ d.revision = s.revision + 1 /\ d.clock = Newest(s, at)
      /\ d.hosts = s.hosts /\ d.drains = s.drains /\ d.assignments = s.assignments
      /\ d.images = s.images /\ d.rollouts = s.rollouts
  BY BumpedType
<1> HIDE DEF d
<1> QED
  BY <1>1, <1>3, <1>8, <1>9 DEF DesiredState

LEMMA Drains ==
  ASSUME NEW s \in DesiredState, NEW c \in Change, c.kind = "drain", NEW at \in Nat
  PROVE  LET t == with_drain(s, c, at) IN
         /\ t \in DesiredState
         /\ t.revision = s.revision + 1 /\ t.clock = Newest(s, at)
         /\ t.images = s.images /\ t.rollouts = s.rollouts
         /\ t.hosts[c.host] = "draining"
         /\ t.drains[c.host] = Append(s.drains[c.host], "draining")
         /\ \A g \in Host : g # c.host => t.hosts[g] = s.hosts[g] /\ t.drains[g] = s.drains[g]
         /\ t.assignments = s.assignments
<1>1. c.host \in Host
  BY FleetAssumption DEF Change
<1>2. Newest(s, at) \in Nat
  BY NewestType
<1>3. s.drains[c.host] \in DrainHistory
  BY <1>1 DEF DesiredState
<1>4. Append(s.drains[c.host], "draining") \in DrainHistory
  BY <1>3 DEF DrainHistory
<1> DEFINE d == Bumped(s, at)
           q == Append(s.drains[c.host], "draining")
<1>5. /\ d \in DesiredState /\ d.revision = s.revision + 1 /\ d.clock = Newest(s, at)
      /\ d.hosts = s.hosts /\ d.drains = s.drains /\ d.assignments = s.assignments
      /\ d.images = s.images /\ d.rollouts = s.rollouts
  BY BumpedType
<1> DEFINE t == with_drain(s, c, at)
<1>6. t = Relocated(d, c.host, "draining", q)
  BY DEF with_drain, Relocated, Bumped, DesiredState
<1>7. q \in DrainHistory
  BY <1>4
<1> DEFINE h == c.host
<1> HIDE DEF d, q, t, h
<1>8. h \in Host /\ t = Relocated(d, h, "draining", q)
  BY <1>1, <1>6 DEF h
<1>9. /\ t \in DesiredState /\ t.revision = d.revision /\ t.assignments = d.assignments
      /\ t.images = d.images /\ t.rollouts = d.rollouts /\ t.clock = d.clock
  BY <1>5, <1>7, <1>8, HostMoves
<1>10. /\ t.hosts[h] = "draining" /\ t.drains[h] = q
  BY <1>5, <1>7, <1>8, HostMoves
<1>11. \A g \in Host : g # h => t.hosts[g] = d.hosts[g] /\ t.drains[g] = d.drains[g]
  <2> SUFFICES ASSUME NEW g \in Host, g # h
               PROVE  t.hosts[g] = d.hosts[g] /\ t.drains[g] = d.drains[g]
    OBVIOUS
  <2> QED
    BY <1>5, <1>8 DEF Relocated, DesiredState, HostStates
<1> QED
  BY <1>5, <1>9, <1>10, <1>11 DEF q, t, h

LEMMA MovedType ==
  ASSUME NEW d \in DrainHistory, NEW from,
         NEW to \in {"draining", "drained", "ended"}
  PROVE  /\ Moved(d, from, to) \in DrainHistory
         /\ Len(Moved(d, from, to)) = Len(d)
         /\ DOMAIN Moved(d, from, to) = DOMAIN d
         /\ \A n \in DOMAIN d : Moved(d, from, to)[n] = IF d[n] = from THEN to ELSE d[n]
  BY DEF Moved, DrainHistory

LEMMA Completes ==
  ASSUME NEW s \in DesiredState, NEW c \in Change, c.kind = "complete_drain", NEW at \in Nat
  PROVE  LET t == with_drain_complete(s, c, at) IN
         /\ t \in DesiredState
         /\ t.revision = s.revision + 1 /\ t.clock = Newest(s, at)
         /\ t.images = s.images /\ t.rollouts = s.rollouts
         /\ t.hosts[c.host] = "drained"
         /\ t.drains[c.host] = Moved(s.drains[c.host], "draining", "drained")
         /\ \A g \in Host : g # c.host => t.hosts[g] = s.hosts[g] /\ t.drains[g] = s.drains[g]
         /\ t.assignments = s.assignments
<1>1. c.host \in Host
  BY FleetAssumption DEF Change
<1>2. Newest(s, at) \in Nat
  BY NewestType
<1>3. s.drains[c.host] \in DrainHistory
  BY <1>1 DEF DesiredState
<1>4. Moved(s.drains[c.host], "draining", "drained") \in DrainHistory
  BY <1>3, MovedType
<1> DEFINE d == Bumped(s, at)
           q == Moved(s.drains[c.host], "draining", "drained")
<1>5. /\ d \in DesiredState /\ d.revision = s.revision + 1 /\ d.clock = Newest(s, at)
      /\ d.hosts = s.hosts /\ d.drains = s.drains /\ d.assignments = s.assignments
      /\ d.images = s.images /\ d.rollouts = s.rollouts
  BY BumpedType
<1> DEFINE t == with_drain_complete(s, c, at)
<1>6. t = Relocated(d, c.host, "drained", q)
  BY DEF with_drain_complete, Relocated, Bumped, DesiredState
<1>7. q \in DrainHistory
  BY <1>4
<1> DEFINE h == c.host
<1> HIDE DEF d, q, t, h
<1>8. h \in Host /\ t = Relocated(d, h, "drained", q)
  BY <1>1, <1>6 DEF h
<1>9. /\ t \in DesiredState /\ t.revision = d.revision /\ t.assignments = d.assignments
      /\ t.images = d.images /\ t.rollouts = d.rollouts /\ t.clock = d.clock
  BY <1>5, <1>7, <1>8, HostMoves
<1>10. /\ t.hosts[h] = "drained" /\ t.drains[h] = q
  BY <1>5, <1>7, <1>8, HostMoves
<1>11. \A g \in Host : g # h => t.hosts[g] = d.hosts[g] /\ t.drains[g] = d.drains[g]
  <2> SUFFICES ASSUME NEW g \in Host, g # h
               PROVE  t.hosts[g] = d.hosts[g] /\ t.drains[g] = d.drains[g]
    OBVIOUS
  <2> QED
    BY <1>5, <1>8 DEF Relocated, DesiredState, HostStates
<1> QED
  BY <1>5, <1>9, <1>10, <1>11 DEF q, t, h

LEMMA Returns ==
  ASSUME NEW s \in DesiredState, NEW c \in Change, c.kind = "return_to_service", NEW at \in Nat
  PROVE  LET t == with_host_returned(s, c, at) IN
         /\ t \in DesiredState
         /\ t.revision = s.revision + 1 /\ t.clock = Newest(s, at)
         /\ t.images = s.images /\ t.rollouts = s.rollouts
         /\ t.hosts[c.host] = "active"
         /\ t.drains[c.host] = Moved(s.drains[c.host], "drained", "ended")
         /\ \A g \in Host : g # c.host => t.hosts[g] = s.hosts[g] /\ t.drains[g] = s.drains[g]
         /\ t.assignments = s.assignments
<1>1. c.host \in Host
  BY FleetAssumption DEF Change
<1>2. Newest(s, at) \in Nat
  BY NewestType
<1>3. s.drains[c.host] \in DrainHistory
  BY <1>1 DEF DesiredState
<1>4. Moved(s.drains[c.host], "drained", "ended") \in DrainHistory
  BY <1>3, MovedType
<1> DEFINE d == Bumped(s, at)
           q == Moved(s.drains[c.host], "drained", "ended")
<1>5. /\ d \in DesiredState /\ d.revision = s.revision + 1 /\ d.clock = Newest(s, at)
      /\ d.hosts = s.hosts /\ d.drains = s.drains /\ d.assignments = s.assignments
      /\ d.images = s.images /\ d.rollouts = s.rollouts
  BY BumpedType
<1> DEFINE t == with_host_returned(s, c, at)
<1>6. t = Relocated(d, c.host, "active", q)
  BY DEF with_host_returned, Relocated, Bumped, DesiredState
<1>7. q \in DrainHistory
  BY <1>4
<1> DEFINE h == c.host
<1> HIDE DEF d, q, t, h
<1>8. h \in Host /\ t = Relocated(d, h, "active", q)
  BY <1>1, <1>6 DEF h
<1>9. /\ t \in DesiredState /\ t.revision = d.revision /\ t.assignments = d.assignments
      /\ t.images = d.images /\ t.rollouts = d.rollouts /\ t.clock = d.clock
  BY <1>5, <1>7, <1>8, HostMoves
<1>10. /\ t.hosts[h] = "active" /\ t.drains[h] = q
  BY <1>5, <1>7, <1>8, HostMoves
<1>11. \A g \in Host : g # h => t.hosts[g] = d.hosts[g] /\ t.drains[g] = d.drains[g]
  <2> SUFFICES ASSUME NEW g \in Host, g # h
               PROVE  t.hosts[g] = d.hosts[g] /\ t.drains[g] = d.drains[g]
    OBVIOUS
  <2> QED
    BY <1>5, <1>8 DEF Relocated, DesiredState, HostStates
<1> QED
  BY <1>5, <1>9, <1>10, <1>11 DEF q, t, h

LEMMA RollsOut ==
  ASSUME NEW s \in DesiredState, NEW c \in Change, c.kind = "rollout", NEW at \in Nat
  PROVE  LET t == with_rollout(s, c, at) IN
         /\ t \in DesiredState
         /\ t.revision = s.revision + 1 /\ t.clock = Newest(s, at)
         /\ t.hosts = s.hosts /\ t.drains = s.drains
         /\ t.assignments = s.assignments
         /\ t.rollouts = s.rollouts \cup {c.id}
         /\ t.images = [s.images EXCEPT ![c.pool] =
              [image |-> c.image, rollback |-> s.images[c.pool].image, revision |-> s.images[c.pool].revision + 1]]
<1>1. c.id \in RolloutId /\ c.pool \in Pool /\ c.image \in Image
  BY FleetAssumption DEF Change
<1>2. Newest(s, at) \in Nat
  BY NewestType
<1>3. [image |-> c.image, rollback |-> s.images[c.pool].image, revision |-> s.images[c.pool].revision + 1]
        \in PoolImage
  BY <1>1 DEF DesiredState, PoolImage
<1> DEFINE d == Bumped(s, at)
           x == [image |-> c.image, rollback |-> s.images[c.pool].image, revision |-> s.images[c.pool].revision + 1]
           e == [d EXCEPT !.rollouts = d.rollouts \cup {c.id}]
           im == [s.images EXCEPT ![c.pool] = x]
<1>4. /\ d \in DesiredState /\ d.revision = s.revision + 1 /\ d.clock = Newest(s, at)
      /\ d.rollouts = s.rollouts
      /\ d.hosts = s.hosts /\ d.drains = s.drains /\ d.assignments = s.assignments
      /\ d.images = s.images
  BY BumpedType
<1>5. with_rollout(s, c, at) = [e EXCEPT !.images = im]
  BY DEF with_rollout, Bumped, DesiredState
<1>6. im \in [Pool -> PoolImage]
  BY <1>1, <1>3 DEF DesiredState
<1> HIDE DEF d, im
<1>7. /\ e \in DesiredState /\ e.revision = d.revision /\ e.clock = d.clock
      /\ e.rollouts = d.rollouts \cup {c.id}
      /\ e.hosts = d.hosts /\ e.drains = d.drains /\ e.assignments = d.assignments
  BY <1>1, <1>4 DEF DesiredState
<1> HIDE DEF e
<1>8. im = [s.images EXCEPT ![c.pool] =
              [image |-> c.image, rollback |-> s.images[c.pool].image, revision |-> s.images[c.pool].revision + 1]]
  BY DEF im
<1> QED
  BY <1>4, <1>5, <1>6, <1>7, <1>8 DEF DesiredState

-----------------------------------------------------------------------------
(* What a possible change keeps *)

LEMMA InUseType ==
  ASSUME NEW s, NEW h
  PROVE  IsFiniteSet(AssignedTo(s, h)) /\ InUse(s, h) \in Nat
<1>1. AssignedTo(s, h) \subseteq AssignmentId
  BY DEF AssignedTo
<1>2. IsFiniteSet(AssignedTo(s, h))
  BY <1>1, FleetAssumption, FS_Subset
<1> QED
  BY <1>2, FS_CardinalityType DEF InUse

LEMMA FreeType ==
  ASSUME NEW s, NEW h \in Host
  PROVE  Free(s, h) \in Int
<1>1. Slots[h] \in Nat
  BY FleetAssumption
<1> QED
  BY <1>1, InUseType DEF Free

\* A host never holds more than before unless a slot was free.
LEMMA SlotsKept ==
  ASSUME NEW s \in DesiredState, NEW t \in DesiredState, NEW h \in Host, InUse(s, h) <= Slots[h],
         \/ AssignedTo(t, h) \subseteq AssignedTo(s, h)
         \/ Free(s, h) > 0 /\ \E a \in AssignmentId : AssignedTo(t, h) \subseteq AssignedTo(s, h) \cup {a}
  PROVE  InUse(t, h) <= Slots[h]
<1>1. InUse(s, h) \in Nat /\ InUse(t, h) \in Nat /\ Slots[h] \in Nat /\ IsFiniteSet(AssignedTo(s, h))
  BY InUseType, FleetAssumption
<1>2. CASE AssignedTo(t, h) \subseteq AssignedTo(s, h)
  <2>1. Cardinality(AssignedTo(t, h)) <= Cardinality(AssignedTo(s, h))
    BY <1>1, <1>2, FS_Subset
  <2> QED
    BY <1>1, <2>1 DEF InUse
<1>3. CASE Free(s, h) > 0 /\ \E a \in AssignmentId : AssignedTo(t, h) \subseteq AssignedTo(s, h) \cup {a}
  <2>1. PICK a \in AssignmentId : AssignedTo(t, h) \subseteq AssignedTo(s, h) \cup {a}
    BY <1>3
  <2> DEFINE S == AssignedTo(s, h)
             T == AssignedTo(t, h)
  <2>2. IsFiniteSet(S) /\ T \subseteq S \cup {a} /\ Cardinality(S) \in Nat
    BY <1>1, <2>1 DEF InUse
  <2>3. InUse(t, h) = Cardinality(T) /\ InUse(s, h) = Cardinality(S)
    BY DEF InUse
  <2> HIDE DEF S, T
  <2>4. IsFiniteSet(S \cup {a}) /\ Cardinality(S \cup {a}) <= Cardinality(S) + 1
    BY <2>2, FS_AddElement
  <2>5. Cardinality(T) <= Cardinality(S \cup {a}) /\ Cardinality(S \cup {a}) \in Nat
    BY <2>2, <2>4, FS_Subset, FS_CardinalityType
  <2>6. InUse(s, h) < Slots[h]
    BY <1>1, <1>3 DEF Free
  <2> QED
    BY <1>1, <2>2, <2>3, <2>4, <2>5, <2>6
<1> QED
  BY <1>2, <1>3

\* What a change leaves of the assignments of a host.
LEMMA AssignmentsKept ==
  ASSUME NEW s \in DesiredState, NEW c \in Change, NEW at \in Nat, Possible(s, c, at), NEW h \in Host
  PROVE  LET t == simulate(s, c, at) IN
         \/ AssignedTo(t, h) \subseteq AssignedTo(s, h)
         \/ /\ s.hosts[h] = "active" /\ Free(s, h) > 0
            /\ \E a \in AssignmentId : AssignedTo(t, h) \subseteq AssignedTo(s, h) \cup {a}
<1> DEFINE t == simulate(s, c, at)
<1>1. CASE c.kind = "assign"
  <2>1. t = with_assignment(s, c, at) /\ Assignable(s, c)
    BY <1>1 DEF simulate, Possible
  <2>2. c.id \in AssignmentId
    BY <1>1, FleetAssumption DEF Change
  <2> HIDE DEF t
  <2>3. /\ t.assignments[c.id] = [status |-> "assigned", host |-> c.host, pool |-> c.pool, issued |-> at]
        /\ \A a \in AssignmentId : a # c.id => t.assignments[a] = s.assignments[a]
    BY <1>1, <2>1, Assigns
  <2>4. CASE h = c.host
    <3>1. AssignedTo(t, h) \subseteq AssignedTo(s, h) \cup {c.id}
      BY <2>3 DEF AssignedTo
    <3>2. s.hosts[h] = "active" /\ Free(s, h) > 0
      BY <2>1, <2>4 DEF Assignable
    <3> QED
      BY <2>2, <3>1, <3>2 DEF t
  <2>5. CASE h # c.host
    <3>1. AssignedTo(t, h) \subseteq AssignedTo(s, h)
      BY <2>2, <2>3, <2>5 DEF AssignedTo
    <3> QED
      BY <3>1 DEF t
  <2> QED
    BY <2>4, <2>5
<1>2. CASE c.kind = "release"
  <2>1. t = with_release(s, c, at)
    BY <1>2 DEF simulate
  <2> HIDE DEF t
  <2>2. /\ t.assignments[c.id].status = "released"
        /\ \A a \in AssignmentId : a # c.id => t.assignments[a] = s.assignments[a]
    <3> DEFINE a == s.assignments[c.id]
    <3>1. a \in Assignment
      BY <1>2, FleetAssumption DEF Change, DesiredState
    <3>2. /\ t.assignments[c.id] = [a EXCEPT !.status = "released"]
          /\ \A b \in AssignmentId : b # c.id => t.assignments[b] = s.assignments[b]
      BY <1>2, <2>1, Releases
    <3> HIDE DEF a
    <3> QED
      BY <3>1, <3>2 DEF Assignment
  <2>3. AssignedTo(t, h) \subseteq AssignedTo(s, h)
    BY <2>2 DEF AssignedTo
  <2> QED
    BY <2>3 DEF t
<1>3. CASE c.kind \in {"drain", "complete_drain", "return_to_service", "rollout"}
  <2>1. t.assignments = s.assignments
    <3>1. CASE c.kind = "drain"
      BY <3>1, Drains DEF simulate
    <3>2. CASE c.kind = "complete_drain"
      BY <3>2, Completes DEF simulate
    <3>3. CASE c.kind = "return_to_service"
      BY <3>3, Returns DEF simulate
    <3>4. CASE c.kind = "rollout"
      BY <3>4, RollsOut, ZenonT(60) DEF simulate
    <3> QED
      BY <1>3, <3>1, <3>2, <3>3, <3>4
  <2> HIDE DEF t
  <2>2. AssignedTo(t, h) \subseteq AssignedTo(s, h)
    BY <2>1 DEF AssignedTo
  <2> QED
    BY <2>2 DEF t
<1> QED
  BY <1>1, <1>2, <1>3 DEF Change

\* A possible change gives a state, one revision on.
LEMMA SimulateType ==
  ASSUME NEW s \in DesiredState, NEW c \in Change, NEW at \in Nat
  PROVE  simulate(s, c, at) \in DesiredState /\ simulate(s, c, at).revision = s.revision + 1
<1>1. CASE c.kind = "assign"
  BY <1>1, Assigns DEF simulate
<1>2. CASE c.kind = "release"
  BY <1>2, Releases DEF simulate
<1>3. CASE c.kind = "drain"
  BY <1>3, Drains DEF simulate
<1>4. CASE c.kind = "complete_drain"
  BY <1>4, Completes DEF simulate
<1>5. CASE c.kind = "return_to_service"
  BY <1>5, Returns DEF simulate
<1>6. CASE c.kind = "rollout"
  BY <1>6, RollsOut DEF simulate
<1> QED
  BY <1>1, <1>2, <1>3, <1>4, <1>5, <1>6 DEF Change

LEMMA SlotsKeptByChange ==
  ASSUME NEW s \in DesiredState, NEW c \in Change, NEW at \in Nat, Possible(s, c, at), WithinSlots(s)
  PROVE  WithinSlots(simulate(s, c, at))
<1> DEFINE t == simulate(s, c, at)
<1>1. t \in DesiredState
  BY SimulateType
<1>2. ASSUME NEW h \in Host PROVE InUse(t, h) <= Slots[h]
  <2>1. \/ AssignedTo(t, h) \subseteq AssignedTo(s, h)
        \/ /\ s.hosts[h] = "active" /\ Free(s, h) > 0
           /\ \E a \in AssignmentId : AssignedTo(t, h) \subseteq AssignedTo(s, h) \cup {a}
    BY AssignmentsKept
  <2>2. InUse(s, h) <= Slots[h]
    BY DEF WithinSlots
  <2> HIDE DEF t
  <2> QED
    BY <1>1, <2>1, <2>2, SlotsKept
<1> QED
  BY <1>2 DEF WithinSlots

\* One host of DrainsAgree.
HostAgrees(s, h) ==
  LET d == s.drains[h] IN
  /\ s.hosts[h] = "active" => \A n \in DOMAIN d : d[n] = "ended"
  /\ s.hosts[h] # "active" =>
       /\ d # <<>> /\ d[Len(d)] = s.hosts[h]
       /\ \A n \in DOMAIN d : n < Len(d) => d[n] = "ended"
  /\ s.hosts[h] = "drained" => AssignedTo(s, h) = {}

LEMMA DrainsKeptByChange ==
  ASSUME NEW s \in DesiredState, NEW c \in Change, NEW at \in Nat, Possible(s, c, at), DrainsAgree(s)
  PROVE  DrainsAgree(simulate(s, c, at))
<1> DEFINE t == simulate(s, c, at)
<1>1. ASSUME NEW h \in Host PROVE HostAgrees(t, h)
  <2>1. HostAgrees(s, h)
    BY DEF DrainsAgree, HostAgrees
  <2>2. \/ AssignedTo(t, h) \subseteq AssignedTo(s, h)
        \/ s.hosts[h] = "active"
    BY AssignmentsKept
  <2>3. s.hosts[h] \in {"active", "draining", "drained"} /\ s.drains[h] \in DrainHistory
    BY DEF DesiredState, HostStates
  <2>4. CASE t.hosts[h] = s.hosts[h] /\ t.drains[h] = s.drains[h]
    BY <2>1, <2>2, <2>4 DEF HostAgrees
  <2>5. CASE c.kind = "drain" /\ h = c.host
    <3>1. s.hosts[h] = "active"
      BY <2>5 DEF Possible
    <3>2. t.hosts[h] = "draining" /\ t.drains[h] = Append(s.drains[h], "draining")
      BY <2>5, Drains DEF simulate
    <3> DEFINE d == s.drains[h]
               e == t.drains[h]
    <3>3. \A n \in DOMAIN d : d[n] = "ended"
      BY <2>1, <3>1 DEF HostAgrees
    <3>4. d \in Seq({"draining", "drained", "ended"}) /\ e = Append(d, "draining")
      BY <2>3, <3>2 DEF DrainHistory
    <3> HIDE DEF d, e
    <3>5. /\ e # <<>> /\ e[Len(e)] = "draining"
          /\ \A n \in DOMAIN e : n < Len(e) => e[n] = "ended"
      BY <3>3, <3>4
    <3> QED
      BY <3>2, <3>5 DEF HostAgrees, e
  <2>6. CASE c.kind = "complete_drain" /\ h = c.host
    <3>1. s.hosts[h] = "draining" /\ InUse(s, h) = 0
      BY <2>6 DEF Possible, Completable
    <3>2. /\ t.hosts[h] = "drained" /\ t.drains[h] = Moved(s.drains[h], "draining", "drained")
          /\ t.assignments = s.assignments
      BY <2>6, Completes DEF simulate
    <3> DEFINE d == s.drains[h]
               e == t.drains[h]
    <3>3. /\ d # <<>> /\ d[Len(d)] = "draining"
          /\ \A n \in DOMAIN d : n < Len(d) => d[n] = "ended"
      BY <2>1, <3>1 DEF HostAgrees
    <3>4. /\ d \in Seq({"draining", "drained", "ended"}) /\ e = Moved(d, "draining", "drained")
      BY <2>3, <3>2 DEF DrainHistory
    <3> HIDE DEF d, e
    <3>5. /\ e # <<>> /\ e[Len(e)] = "drained"
          /\ \A n \in DOMAIN e : n < Len(e) => e[n] = "ended"
      BY <3>3, <3>4 DEF Moved
    <3>6. AssignedTo(s, h) = {}
      BY <3>1, InUseType, FS_EmptySet DEF InUse
    <3>7. AssignedTo(t, h) = {}
      BY <3>2, <3>6 DEF AssignedTo
    <3> QED
      BY <3>2, <3>5, <3>7 DEF HostAgrees, e
  <2>7. CASE c.kind = "return_to_service" /\ h = c.host
    <3>1. s.hosts[h] = "drained"
      BY <2>7 DEF Possible
    <3>2. t.hosts[h] = "active" /\ t.drains[h] = Moved(s.drains[h], "drained", "ended")
      BY <2>7, Returns DEF simulate
    <3> DEFINE d == s.drains[h]
               e == t.drains[h]
    <3>3. /\ d # <<>> /\ d[Len(d)] = "drained"
          /\ \A n \in DOMAIN d : n < Len(d) => d[n] = "ended"
      BY <2>1, <3>1 DEF HostAgrees
    <3>4. d \in Seq({"draining", "drained", "ended"}) /\ e = Moved(d, "drained", "ended")
      BY <2>3, <3>2 DEF DrainHistory
    <3> HIDE DEF d, e
    <3>5. \A n \in DOMAIN e : e[n] = "ended"
      BY <3>3, <3>4 DEF Moved
    <3> QED
      BY <3>2, <3>5 DEF HostAgrees, e
  <2>8. \/ t.hosts[h] = s.hosts[h] /\ t.drains[h] = s.drains[h]
        \/ c.kind = "drain" /\ h = c.host
        \/ c.kind = "complete_drain" /\ h = c.host
        \/ c.kind = "return_to_service" /\ h = c.host
    <3>1. CASE c.kind = "assign"
      BY <3>1, Assigns, ZenonT(60) DEF simulate
    <3>2. CASE c.kind = "release"
      BY <3>2, Releases, ZenonT(60) DEF simulate
    <3>3. CASE c.kind = "drain" /\ h # c.host
      BY <3>3, Drains DEF simulate
    <3>4. CASE c.kind = "complete_drain" /\ h # c.host
      BY <3>4, Completes DEF simulate
    <3>5. CASE c.kind = "return_to_service" /\ h # c.host
      BY <3>5, Returns DEF simulate
    <3>6. CASE c.kind = "rollout"
      BY <3>6, RollsOut, ZenonT(60) DEF simulate
    <3> QED
      BY <3>1, <3>2, <3>3, <3>4, <3>5, <3>6 DEF Change
  <2> HIDE DEF t
  <2> QED
    BY <2>4, <2>5, <2>6, <2>7, <2>8
<1> QED
  BY <1>1 DEF DrainsAgree, HostAgrees

-----------------------------------------------------------------------------
(* The inductive invariant *)

\* Entry n of the log took revision n to revision n + 1, and a key's entries
\* are the revisions from its plan's base to its result.
LogInv ==
  /\ Len(log.applied) = state.revision - 1
  /\ \A p \in plans : p.base >= 1
  /\ \A n \in DOMAIN log.applied : ledger[log.applied[n].key] # Nothing

Span(k) == ledger[k].plan.base..(ledger[k].revision - 1)

LedgerInv ==
  \A k \in IdemKey : ledger[k] # Nothing =>
    /\ ledger[k].revision = ledger[k].plan.base + Len(ledger[k].plan.changes)
    /\ ledger[k].revision <= state.revision
    /\ \A n \in Span(k) : /\ log.applied[n].key = k
                          /\ log.applied[n].change = ledger[k].plan.changes[n - ledger[k].plan.base + 1]
    /\ \A n \in DOMAIN log.applied : log.applied[n].key = k => n \in Span(k)

\* The call in progress has a fresh key and a plan for the current revision.
WorkInv ==
  work.plan # Nothing =>
    /\ work.key \in IdemKey /\ ledger[work.key] = Nothing
    /\ work.at \in 1..MaxTime
    /\ work.plan.base = state.revision

IInv == FleetTypeOK /\ NoOvercommit /\ DrainsMatchHosts /\ LogInv /\ LedgerInv /\ WorkInv

-----------------------------------------------------------------------------
(* Its first states and its steps *)

LEMMA FirstStateGood ==
  FirstState \in DesiredState /\ WithinSlots(FirstState) /\ DrainsAgree(FirstState)
<1>1. /\ [h \in Host |-> "active"] \in HostStates
      /\ [h \in Host |-> <<>>] \in [Host -> DrainHistory]
  BY DEF HostStates, DrainHistory
<1>2. [p \in Pool |-> [image |-> FirstImage, rollback |-> FirstRollback, revision |-> 1]] \in [Pool -> PoolImage]
  BY FleetAssumption DEF PoolImage
<1>3. FirstState \in DesiredState
  BY <1>1, <1>2, FleetAssumption, LoadedAssumption DEF FirstState, DesiredState
<1>4. WithinSlots(FirstState)
  BY LoadedAssumption DEF WithinSlots
<1>5. \A h \in Host : FirstState.hosts[h] = "active" /\ FirstState.drains[h] = <<>>
  BY DEF FirstState
<1> QED
  BY <1>3, <1>4, <1>5 DEF DrainsAgree

LEMMA IdleType ==
  Idle \in [plan: plans \cup {Nothing}, key: IdemKey \cup {Nothing}, at: 0..MaxTime, next: Nat \ {0},
            working: DesiredState]
  BY FirstStateGood, FleetAssumption DEF Idle

LEMMA InitGood == FleetInit => IInv
<1> SUFFICES ASSUME FleetInit PROVE IInv
  OBVIOUS
<1> USE DEF FleetInit
<1>1. FleetTypeOK
  BY FirstStateGood, IdleType, FleetAssumption DEF FleetTypeOK
<1>2. NoOvercommit /\ DrainsMatchHosts
  BY FirstStateGood DEF NoOvercommit, DrainsMatchHosts, Idle
<1>3. LogInv
  BY DEF LogInv, FirstState
<1>4. LedgerInv /\ WorkInv
  BY DEF LedgerInv, WorkInv, Idle
<1> QED
  BY <1>1, <1>2, <1>3, <1>4 DEF IInv

LEMMA PlanType ==
  ASSUME FleetTypeOK, NEW changes \in ChangeLists, build_plan(changes)
  PROVE  \A p \in plans' : p \in Plan /\ (p \notin plans => p.base = state.revision)
<1>1. changes \in Seq(Change)
  BY FleetAssumption DEF ChangeLists
<1>2. state.revision \in Nat
  BY DEF FleetTypeOK, DesiredState
<1> DEFINE end == Run(state, changes, Nothing)
           f == [h \in Host |-> Free(end, h)]
<1>3. plans' = plans \cup {[base |-> state.revision, changes |-> changes, free |-> f]}
  BY DEF build_plan
<1>4. f \in [Host -> Int]
  BY FreeType
<1> HIDE DEF f
<1> QED
  BY <1>1, <1>2, <1>3, <1>4 DEF Plan, FleetTypeOK

LEMMA BuildKeeps ==
  ASSUME IInv, NEW changes \in ChangeLists, build_plan(changes)
  PROVE  IInv'
<1>1. \A p \in plans' : p \in Plan /\ (p \notin plans => p.base = state.revision)
  BY PlanType DEF IInv
<1>2. plans \subseteq plans' /\ UNCHANGED <<state, ledger, log, work>>
  BY DEF build_plan
<1>3. FleetTypeOK'
  <2>1. ledger \in [IdemKey -> {Nothing} \cup [plan: plans', revision: Nat]]
    BY <1>2 DEF IInv, FleetTypeOK
  <2>2. work \in [plan: plans' \cup {Nothing}, key: IdemKey \cup {Nothing}, at: 0..MaxTime, next: Nat \ {0},
                  working: DesiredState]
    BY <1>2 DEF IInv, FleetTypeOK
  <2> QED
    BY <1>1, <1>2, <2>1, <2>2 DEF IInv, FleetTypeOK
<1>4. LogInv'
  <2>1. state.revision >= 1
    BY DEF IInv, LogInv, FleetTypeOK, DesiredState
  <2> QED
    BY <1>1, <1>2, <2>1 DEF IInv, LogInv
<1>5. NoOvercommit' /\ DrainsMatchHosts' /\ WorkInv'
  BY <1>2 DEF IInv, NoOvercommit, DrainsMatchHosts, WorkInv
<1>6. LedgerInv'
  BY <1>2 DEF IInv, LedgerInv, Span
<1> QED
  BY <1>3, <1>4, <1>5, <1>6 DEF IInv

\* Only the instant of the log moves.
LEMMA LoggedType ==
  ASSUME FleetTypeOK, NEW at \in 0..MaxTime, log' = [log EXCEPT !.at = at]
  PROVE  log' \in [applied: Seq(Entry), at: 0..MaxTime] /\ log'.applied = log.applied
  BY DEF FleetTypeOK

LEMMA WithoutEffectKeeps ==
  ASSUME IInv, NEW p \in plans, NEW k \in IdemKey, NEW granted \in Scope, NEW at \in 1..MaxTime,
         apply_without_effect(p, k, granted, at)
  PROVE  IInv'
<1>1. log' = [log EXCEPT !.at = at] /\ UNCHANGED <<state, ledger, plans, work>>
  BY DEF apply_without_effect
<1>2. log' \in [applied: Seq(Entry), at: 0..MaxTime] /\ log'.applied = log.applied
  BY <1>1, LoggedType, FleetAssumption DEF IInv
<1>3. FleetTypeOK'
  BY <1>1, <1>2 DEF IInv, FleetTypeOK
<1>4. NoOvercommit' /\ DrainsMatchHosts' /\ WorkInv'
  BY <1>1 DEF IInv, NoOvercommit, DrainsMatchHosts, WorkInv
<1>5. LogInv' /\ LedgerInv'
  BY <1>1, <1>2 DEF IInv, LogInv, LedgerInv, Span
<1> QED
  BY <1>3, <1>4, <1>5 DEF IInv

LEMMA BeginKeeps ==
  ASSUME IInv, NEW p \in plans, NEW k \in IdemKey, NEW granted \in Scope, NEW at \in 1..MaxTime,
         apply_begin(p, k, granted, at)
  PROVE  IInv'
<1>1. /\ work' = [plan |-> p, key |-> k, at |-> at, next |-> 1, working |-> state]
      /\ UNCHANGED <<state, ledger, log, plans>>
      /\ ledger[k] = Nothing /\ p.base = state.revision
  BY DEF apply_begin
<1>2. FleetTypeOK'
  <2>1. work' \in [plan: plans' \cup {Nothing}, key: IdemKey \cup {Nothing}, at: 0..MaxTime, next: Nat \ {0},
                   working: DesiredState]
    BY <1>1, FleetAssumption DEF IInv, FleetTypeOK
  <2> QED
    BY <1>1, <2>1 DEF IInv, FleetTypeOK
<1>3. NoOvercommit' /\ DrainsMatchHosts'
  BY <1>1 DEF IInv, NoOvercommit, DrainsMatchHosts
<1>4. LogInv' /\ LedgerInv'
  BY <1>1 DEF IInv, LogInv, LedgerInv, Span
<1>5. WorkInv'
  BY <1>1 DEF WorkInv
<1> QED
  BY <1>2, <1>3, <1>4, <1>5 DEF IInv

LEMMA ChangeKeeps ==
  ASSUME IInv, apply_change
  PROVE  IInv'
<1> DEFINE w == work.working
           c == NextChange
           t == simulate(w, c, work.at)
<1>1. /\ work.plan # Nothing /\ work.next <= Len(work.plan.changes) /\ Possible(w, c, work.at)
      /\ work' = [work EXCEPT !.next = @ + 1, !.working = t]
      /\ UNCHANGED <<state, ledger, log, plans>>
  BY DEF apply_change
<1>2. /\ w \in DesiredState /\ work.at \in Nat /\ work.next \in Nat \ {0}
      /\ work.plan \in Plan
  BY <1>1, FleetAssumption DEF IInv, FleetTypeOK
<1>3. c \in Change
  <2>1. work.plan.changes \in Seq(Change)
    BY <1>2 DEF Plan
  <2> QED
    BY <1>1, <1>2, <2>1 DEF NextChange
<1>4. WithinSlots(w) /\ DrainsAgree(w)
  BY DEF IInv, NoOvercommit, DrainsMatchHosts
<1> HIDE DEF w, c
<1>5. t \in DesiredState /\ WithinSlots(t) /\ DrainsAgree(t)
  BY <1>1, <1>2, <1>3, <1>4, SimulateType, SlotsKeptByChange, DrainsKeptByChange
<1> HIDE DEF t
<1>6. /\ work' \in [plan: plans \cup {Nothing}, key: IdemKey \cup {Nothing}, at: 0..MaxTime, next: Nat \ {0},
                    working: DesiredState]
      /\ work'.plan = work.plan /\ work'.key = work.key /\ work'.at = work.at /\ work'.working = t
  <2> DEFINE v == [work EXCEPT !.next = @ + 1]
             W == [plan: plans \cup {Nothing}, key: IdemKey \cup {Nothing}, at: 0..MaxTime, next: Nat \ {0},
                   working: DesiredState]
  <2>1. v \in W /\ v.plan = work.plan /\ v.key = work.key /\ v.at = work.at
    BY DEF IInv, FleetTypeOK
  <2>2. work' = [v EXCEPT !.working = t]
    BY <1>1, Zenon
  <2> HIDE DEF v
  <2> QED
    BY <1>5, <2>1, <2>2
<1>7. FleetTypeOK'
  BY <1>1, <1>6 DEF IInv, FleetTypeOK
<1>8. NoOvercommit' /\ DrainsMatchHosts'
  BY <1>1, <1>5, <1>6 DEF IInv, NoOvercommit, DrainsMatchHosts
<1>9. LogInv' /\ LedgerInv'
  BY <1>1 DEF IInv, LogInv, LedgerInv, Span
<1>10. WorkInv'
  BY <1>1, <1>6 DEF IInv, WorkInv
<1> QED
  BY <1>7, <1>8, <1>9, <1>10 DEF IInv

LEMMA IdleKeeps ==
  ASSUME work' = Idle
  PROVE  /\ work' \in [plan: plans' \cup {Nothing}, key: IdemKey \cup {Nothing}, at: 0..MaxTime, next: Nat \ {0},
                       working: DesiredState]
         /\ WorkInv' /\ WithinSlots(work'.working) /\ DrainsAgree(work'.working)
  BY FirstStateGood, FleetAssumption DEF Idle, WorkInv

LEMMA RefusedKeeps ==
  ASSUME IInv, apply_refused
  PROVE  IInv'
<1>1. work.at \in 0..MaxTime
  BY DEF IInv, FleetTypeOK
<1>2. log' = [log EXCEPT !.at = work.at] /\ work' = Idle /\ UNCHANGED <<state, ledger, plans>>
  BY DEF apply_refused
<1>3. log' \in [applied: Seq(Entry), at: 0..MaxTime] /\ log'.applied = log.applied
  BY <1>1, <1>2, LoggedType DEF IInv
<1>4. FleetTypeOK'
  BY <1>2, <1>3, IdleKeeps DEF IInv, FleetTypeOK
<1>5. NoOvercommit' /\ DrainsMatchHosts' /\ WorkInv'
  BY <1>2, IdleKeeps DEF IInv, NoOvercommit, DrainsMatchHosts
<1>6. LogInv' /\ LedgerInv'
  BY <1>2, <1>3 DEF IInv, LogInv, LedgerInv, Span
<1> QED
  BY <1>4, <1>5, <1>6 DEF IInv

\* The entries of a plan extend the log by one for each change.
LEMMA EntriesType ==
  ASSUME NEW p \in Plan, NEW k \in IdemKey, NEW at \in 1..MaxTime
  PROVE  LET e == Entries(p, k, at) IN
         /\ e \in Seq(Entry) /\ Len(e) = Len(p.changes)
         /\ \A n \in 1..Len(p.changes) : e[n].key = k /\ e[n].change = p.changes[n]
<1> DEFINE e == Entries(p, k, at)
           s == p.changes
<1>1. s \in Seq(Change)
  BY DEF Plan
<1>2. e = [n \in DOMAIN s |-> [change |-> s[n], key |-> k, at |-> at]]
  BY DEF Entries
<1> HIDE DEF e, s
<1>3. DOMAIN s = 1..Len(s) /\ Len(s) \in Nat
  BY <1>1
<1>4. \A n \in 1..Len(s) : [change |-> s[n], key |-> k, at |-> at] \in Entry
  BY <1>1 DEF Entry
<1>5. e \in Seq(Entry) /\ Len(e) = Len(s)
  BY <1>2, <1>3, <1>4
<1>6. \A n \in 1..Len(s) : e[n].key = k /\ e[n].change = s[n]
  BY <1>2, <1>3
<1> QED
  BY <1>5, <1>6 DEF e, s

LEMMA Extended ==
  ASSUME NEW a \in Seq(Entry), NEW b \in Seq(Entry), NEW t, t = a \o b
  PROVE  /\ t \in Seq(Entry) /\ Len(t) = Len(a) + Len(b)
         /\ \A i \in 1..(Len(a) + Len(b)) : t[i] = IF i <= Len(a) THEN a[i] ELSE b[i - Len(a)]
  BY ConcatProperties

LEMMA CommitKeeps ==
  ASSUME IInv, apply_commit
  PROVE  IInv'
<1> DEFINE p == work.plan
           k == work.key
           rev == work.working.revision
           e == Entries(p, k, work.at)
           old == log.applied
           new == log'.applied
<1>1. p # Nothing /\ work' = Idle /\ plans' = plans
  BY DEF apply_commit
<1>2. /\ p \in plans /\ p \in Plan /\ k \in IdemKey /\ ledger[k] = Nothing /\ work.at \in 1..MaxTime
      /\ p.base = state.revision
  BY <1>1 DEF IInv, FleetTypeOK, WorkInv
<1>3. CASE rev # p.base + Len(p.changes)
  <2>1. UNCHANGED <<state, ledger, log>>
    BY <1>3 DEF apply_commit
  <2>2. FleetTypeOK'
    BY <1>1, <2>1, IdleKeeps DEF IInv, FleetTypeOK
  <2>3. NoOvercommit' /\ DrainsMatchHosts' /\ WorkInv'
    BY <1>1, <2>1, IdleKeeps DEF IInv, NoOvercommit, DrainsMatchHosts
  <2>4. LogInv' /\ LedgerInv'
    BY <1>1, <2>1 DEF IInv, LogInv, LedgerInv, Span
  <2> QED
    BY <2>2, <2>3, <2>4 DEF IInv
<1>4. CASE rev = p.base + Len(p.changes)
  <2>1. /\ state' = work.working
        /\ ledger' = [ledger EXCEPT ![k] = [plan |-> p, revision |-> rev]]
        /\ log' = [applied |-> old \o e, at |-> work.at]
    BY <1>4 DEF apply_commit
  <2>2. /\ state' \in DesiredState /\ rev \in Nat /\ state'.revision = rev
        /\ WithinSlots(state') /\ DrainsAgree(state')
    BY <2>1 DEF IInv, FleetTypeOK, NoOvercommit, DrainsMatchHosts, DesiredState
  <2>3. /\ old \in Seq(Entry) /\ Len(old) = p.base - 1 /\ p.base \in Nat /\ p.base >= 1
    BY <1>2 DEF IInv, FleetTypeOK, LogInv, Plan
  <2>4. /\ e \in Seq(Entry) /\ Len(e) = Len(p.changes)
        /\ \A n \in 1..Len(p.changes) : e[n].key = k /\ e[n].change = p.changes[n]
    BY <1>2, EntriesType
  <2>5. Len(p.changes) \in Nat
    BY <1>2 DEF Plan
  <2>6. /\ new \in Seq(Entry) /\ Len(new) = rev - 1
        /\ \A n \in 1..(rev - 1) : new[n] = IF n < p.base THEN old[n] ELSE e[n - p.base + 1]
    <3>1. new = old \o e
      BY <2>1
    <3> HIDE DEF old, e, new
    <3>2. /\ new \in Seq(Entry)
          /\ Len(new) = Len(old) + Len(e)
          /\ \A i \in 1..(Len(old) + Len(e)) : new[i] = IF i <= Len(old) THEN old[i] ELSE e[i - Len(old)]
      <4>1. old \in Seq(Entry) /\ e \in Seq(Entry)
        BY <2>3, <2>4
      <4>2. new \in Seq(Entry)
        BY <4>1, <3>1, Extended
      <4>3. Len(new) = Len(old) + Len(e)
        BY <4>1, <3>1, Extended
      <4>4. \A i \in 1..(Len(old) + Len(e)) : new[i] = IF i <= Len(old) THEN old[i] ELSE e[i - Len(old)]
        BY <4>1, <3>1
      <4> QED
        BY <4>2, <4>3, <4>4
    <3> HIDE DEF p, rev
    <3>3. Len(old) = p.base - 1 /\ Len(old) + Len(e) = rev - 1
      <4>1. Len(old) = p.base - 1 /\ p.base \in Nat
        BY <2>3
      <4>2. Len(e) = Len(p.changes) /\ Len(p.changes) \in Nat
        BY <2>4, <2>5
      <4> QED
        BY <1>4, <4>1, <4>2
    <3>4. ASSUME NEW n \in 1..(rev - 1)
          PROVE  new[n] = IF n < p.base THEN old[n] ELSE e[n - p.base + 1]
      <4>1. new[n] = IF n <= Len(old) THEN old[n] ELSE e[n - Len(old)]
        BY <3>2, <3>3
      <4>2. n \in Int /\ p.base \in Int /\ (n <= Len(old) <=> n < p.base) /\ n - Len(old) = n - p.base + 1
        BY <2>3, <3>3
      <4> QED
        BY <4>1, <4>2
    <3> QED
      BY <3>2, <3>3, <3>4
  <2>7. /\ DOMAIN new = 1..(rev - 1) /\ DOMAIN old = 1..(p.base - 1)
        /\ p.base <= rev
    BY <1>4, <2>3, <2>5, <2>6
  <2>8. /\ ledger'[k] = [plan |-> p, revision |-> rev] /\ ledger'[k] # Nothing
        /\ ledger'[k].plan = p /\ ledger'[k].revision = rev
        /\ \A j \in IdemKey : j # k => ledger'[j] = ledger[j]
    <3>1. [plan |-> p, revision |-> rev] \in [plan: Plan, revision: Nat]
      BY <1>2, <2>2
    <3>2. [plan |-> p, revision |-> rev] # Nothing
      BY <3>1, FleetAssumption
    <3> QED
      BY <1>2, <2>1, <3>2 DEF IInv, FleetTypeOK
  <2>9. \A n \in 1..(rev - 1) : n >= p.base => new[n].key = k /\ new[n].change = p.changes[n - p.base + 1]
    <3> SUFFICES ASSUME NEW n \in 1..(rev - 1), n >= p.base
                 PROVE  new[n].key = k /\ new[n].change = p.changes[n - p.base + 1]
      OBVIOUS
    <3> DEFINE m == n - p.base + 1
    <3>1. m \in 1..Len(p.changes)
      BY <1>4, <2>3, <2>5, <2>2, SMTT(30)
    <3>2. new[n] = e[m]
      <4>1. ~(n < p.base)
        BY <2>3, <2>2
      <4> HIDE DEF new, old, e, p, rev
      <4> QED
        BY <2>6, <4>1
    <3> HIDE DEF m
    <3>3. e[m].key = k /\ e[m].change = p.changes[m]
      BY <3>1, <2>4
    <3> QED
      BY <3>2, <3>3 DEF m
  <2>10. \A n \in DOMAIN old : new[n] = old[n] /\ old[n].key \in IdemKey /\ old[n].key # k
    <3> SUFFICES ASSUME NEW n \in DOMAIN old
                 PROVE  new[n] = old[n] /\ old[n].key \in IdemKey /\ old[n].key # k
      OBVIOUS
    <3>1. n \in 1..(rev - 1) /\ n < p.base
      BY <2>2, <2>3, <2>7
    <3>2. new[n] = old[n]
      BY <2>6, <3>1
    <3>3. old[n] \in Entry
      BY <2>3
    <3>4. ledger[old[n].key] # Nothing
      BY DEF IInv, LogInv
    <3> QED
      BY <1>2, <3>2, <3>3, <3>4 DEF Entry
  <2>11. FleetTypeOK'
    <3>1. ledger' \in [IdemKey -> {Nothing} \cup [plan: plans, revision: Nat]]
      BY <1>2, <2>1, <2>2 DEF IInv, FleetTypeOK
    <3>2. log' \in [applied: Seq(Entry), at: 0..MaxTime]
      <4>1. log' = [applied |-> new, at |-> work.at]
        BY <2>1
      <4> HIDE DEF new
      <4> QED
        BY <1>2, <2>6, <4>1
    <3> QED
      BY <1>1, <2>2, <3>1, <3>2, IdleKeeps DEF IInv, FleetTypeOK
  <2>12. NoOvercommit' /\ DrainsMatchHosts' /\ WorkInv'
    BY <1>1, <2>2, IdleKeeps DEF NoOvercommit, DrainsMatchHosts
  <2>13. LogInv'
    <3>1. ASSUME NEW n \in DOMAIN new PROVE ledger'[new[n].key] # Nothing
      <4>1. CASE n >= p.base
        BY <2>7, <2>8, <2>9, <4>1
      <4>2. CASE n < p.base
        <5>1. n \in DOMAIN old
          BY <2>3, <2>7, <4>2
        <5>2. ledger[old[n].key] # Nothing
          BY <5>1 DEF IInv, LogInv
        <5> QED
          BY <2>8, <2>10, <5>1, <5>2
      <4> QED
        BY <2>2, <2>3, <2>7, <4>1, <4>2
    <3>2. \A q \in plans' : q.base >= 1
      BY <1>1 DEF IInv, LogInv
    <3> QED
      BY <2>2, <2>6, <3>1, <3>2 DEF LogInv
  <2>14. LedgerInv'
    <3> SUFFICES ASSUME NEW j \in IdemKey, ledger'[j] # Nothing
                 PROVE  /\ ledger'[j].revision = ledger'[j].plan.base + Len(ledger'[j].plan.changes)
                        /\ ledger'[j].revision <= state'.revision
                        /\ \A n \in Span(j)' : /\ new[n].key = j
                                               /\ new[n].change = ledger'[j].plan.changes[n - ledger'[j].plan.base + 1]
                        /\ \A n \in DOMAIN new : new[n].key = j => n \in Span(j)'
      BY DEF LedgerInv
    <3>1. CASE j = k
      <4>1. Span(j)' = p.base..(rev - 1)
        BY <2>8, <3>1 DEF Span
      <4>2. \A n \in p.base..(rev - 1) : new[n].key = k /\ new[n].change = p.changes[n - p.base + 1]
        BY <2>2, <2>3, <2>9
      <4>3. \A n \in DOMAIN new : new[n].key = k => n \in p.base..(rev - 1)
        <5> SUFFICES ASSUME NEW n \in DOMAIN new, new[n].key = k PROVE n \in p.base..(rev - 1)
          OBVIOUS
        <5>1. n \notin DOMAIN old
          BY <2>10
        <5> QED
          BY <2>2, <2>3, <2>7, <5>1
      <4>4. ledger'[j].plan = p /\ ledger'[j].revision = rev
        BY <2>8, <3>1
      <4> HIDE DEF p, rev, new, k
      <4> QED
        BY <1>4, <2>2, <3>1, <4>1, <4>2, <4>3, <4>4
    <3>2. CASE j # k
      <4>1. ledger'[j] = ledger[j] /\ ledger[j] # Nothing
        BY <2>8, <3>2
      <4> DEFINE b == ledger[j].plan.base
                 r == ledger[j].revision
      <4>2. /\ r = b + Len(ledger[j].plan.changes)
            /\ r <= state.revision
            /\ \A n \in b..(r - 1) : old[n].key = j /\ old[n].change = ledger[j].plan.changes[n - b + 1]
            /\ \A n \in DOMAIN old : old[n].key = j => n \in b..(r - 1)
        BY <4>1 DEF IInv, LedgerInv, Span
      <4>3. b \in Nat /\ b >= 1 /\ r \in Nat
        BY <4>1 DEF IInv, FleetTypeOK, LogInv, Plan
      <4>4. b..(r - 1) \subseteq DOMAIN old
        BY <1>2, <2>3, <2>7, <4>2, <4>3
      <4>5. Span(j)' = b..(r - 1)
        BY <4>1 DEF Span
      <4>6. \A n \in DOMAIN new : new[n].key = j => n \in DOMAIN old
        <5> SUFFICES ASSUME NEW n \in DOMAIN new, new[n].key = j PROVE n \in DOMAIN old
          OBVIOUS
        <5>1. ~(n >= p.base)
          BY <2>7, <2>9, <3>2
        <5> QED
          BY <2>2, <2>3, <2>7, <5>1
      <4>7. \A n \in b..(r - 1) : new[n].key = j /\ new[n].change = ledger[j].plan.changes[n - b + 1]
        BY <2>10, <4>2, <4>4
      <4>8. \A n \in DOMAIN new : new[n].key = j => n \in b..(r - 1)
        BY <2>10, <4>2, <4>6
      <4>9. r <= rev
        BY <1>2, <2>2, <2>3, <2>7, <4>2, <4>3
      <4> HIDE DEF new, old, p, rev
      <4> QED
        BY <2>2, <4>1, <4>2, <4>5, <4>7, <4>8, <4>9
    <3> QED
      BY <3>1, <3>2
  <2> QED
    BY <2>11, <2>12, <2>13, <2>14 DEF IInv
<1> QED
  BY <1>3, <1>4

-----------------------------------------------------------------------------
(* Theorems *)

\* The inductive invariant holds in every state of the manager.
THEOREM FleetInvariant == FleetSpec => []IInv
<1>1. FleetInit => IInv
  BY InitGood
<1>2. IInv /\ [FleetNext]_fleetVars => IInv'
  <2> SUFFICES ASSUME IInv, [FleetNext]_fleetVars PROVE IInv'
    OBVIOUS
  <2>1. CASE UNCHANGED fleetVars
    BY <2>1 DEF fleetVars, IInv, FleetTypeOK, NoOvercommit, DrainsMatchHosts, LogInv, LedgerInv, Span, WorkInv
  <2>2. ASSUME NEW changes \in ChangeLists, build_plan(changes) PROVE IInv'
    BY <2>2, BuildKeeps
  <2>3. ASSUME NEW p \in plans, NEW k \in IdemKey, NEW granted \in Scope, NEW at \in 1..MaxTime,
               apply_plan(p, k, granted, at)
        PROVE  IInv'
    BY <2>3, BeginKeeps, WithoutEffectKeeps DEF apply_plan
  <2>4. CASE Manager
    BY <2>4, ChangeKeeps, RefusedKeeps, CommitKeeps DEF Manager
  <2> QED
    BY <2>1, <2>2, <2>3, <2>4 DEF FleetNext, Operators
<1> QED
  BY <1>1, <1>2, PTL DEF FleetSpec

\* The state, ledger, log and plans of the manager have their types.
THEOREM FleetTypes == FleetSpec => []FleetTypeOK
<1>1. IInv => FleetTypeOK
  BY DEF IInv
<1> QED
  BY <1>1, FleetInvariant, PTL

\* No mixture of plans, replays and refusals promises a host more than its
\* slots, on the committed state and on apply_plan's working copy.
THEOREM SlotsNeverOvercommitted == FleetSpec => []NoOvercommit
<1>1. IInv => NoOvercommit
  BY DEF IInv
<1> QED
  BY <1>1, FleetInvariant, PTL

\* A host's state and the history of its drains agree, and a drained host has
\* no assignment, however drains, completions and returns interleave.
THEOREM DrainsAgreeWithHosts == FleetSpec => []DrainsMatchHosts
<1>1. IInv => DrainsMatchHosts
  BY DEF IInv
<1> QED
  BY <1>1, FleetInvariant, PTL

\* Slots and drains together: the picture of the capacity that the next plan is
\* judged against is right (Capacity, with_drain, with_host_returned).
THEOREM CapacityHolds == FleetSpec => []CapacityIsKept
<1>1. NoOvercommit /\ DrainsMatchHosts => CapacityIsKept
  BY DEF CapacityIsKept
<1> QED
  BY <1>1, SlotsNeverOvercommitted, DrainsAgreeWithHosts, PTL

\* An idempotency key applied one plan, once and as a whole (apply_plan,
\* IdempotencyLedger).
THEOREM KeysApplyOncePerPlan == FleetSpec => []KeysApplyOnce
<1>1. IInv => KeysApplyOnce
  <2> SUFFICES ASSUME IInv PROVE KeysApplyOnce
    OBVIOUS
  <2>1. \A n \in DOMAIN log.applied : ledger[log.applied[n].key] # Nothing
    BY DEF IInv, LogInv
  <2>2. ASSUME NEW k \in IdemKey, ledger[k] # Nothing, NEW n \in DOMAIN log.applied
        PROVE  log.applied[n].key = k <=>
                 /\ n \in ledger[k].plan.base..(ledger[k].revision - 1)
                 /\ log.applied[n].change = ledger[k].plan.changes[n - ledger[k].plan.base + 1]
    BY <2>2 DEF IInv, LedgerInv, Span
  <2> QED
    BY <2>1, <2>2 DEF KeysApplyOnce
<1> QED
  BY <1>1, FleetInvariant, PTL

-----------------------------------------------------------------------------
(* Functions defined along a list *)

\* Induction over the naturals, from the order on them being well-founded.
LEMMA Induction ==
  ASSUME NEW S \in SUBSET Nat, 0 \in S, \A n \in Nat : n \in S => n + 1 \in S
  PROVE  S = Nat
<1> SUFFICES ASSUME S # Nat PROVE FALSE
  OBVIOUS
<1> DEFINE T == Nat \ S
<1>1. PICK n \in T : \A m \in T : ~(m < n)
  <2>1. T \in SUBSET Nat /\ T # {}
    OBVIOUS
  <2> HIDE DEF T
  <2>2. \E x \in T : \A y \in T : ~(<<y, x>> \in OpToRel(<, Nat))
    BY <2>1, NatLessThanWellFounded, WFMin
  <2> QED
    BY <2>1, <2>2 DEF OpToRel
<1>2. n # 0 /\ n - 1 \in Nat /\ n - 1 < n /\ (n - 1) + 1 = n
  OBVIOUS
<1>3. n - 1 \in S
  BY <1>1, <1>2
<1> QED
  BY <1>2, <1>3

-----------------------------------------------------------------------------
(* The log replayed *)

\* f is what the entries of a log make of the first state, one after the other.
Replay(f, L) ==
  /\ f = [n \in 0..Len(L) |-> f[n]]
  /\ f[0] = FirstState
  /\ \A n \in 1..Len(L) : f[n] = simulate(f[n - 1], L[n].change, L[n].at)

Replays(L, s) == \E f : Replay(f, L) /\ f[Len(L)] = s

LEMMA ReplaysOnce ==
  ASSUME NEW L, Len(L) \in Nat, NEW f, NEW g, Replay(f, L), Replay(g, L)
  PROVE  f[Len(L)] = g[Len(L)]
<1> DEFINE N == Len(L)
           S == {k \in Nat : k <= N => f[k] = g[k]}
<1>1. 0 \in S
  BY DEF Replay
<1>2. ASSUME NEW k \in Nat, k \in S PROVE k + 1 \in S
  <2> SUFFICES ASSUME k + 1 <= N PROVE f[k + 1] = g[k + 1]
    OBVIOUS
  <2>1. k + 1 \in 1..N /\ (k + 1) - 1 = k /\ f[k] = g[k]
    BY <1>2
  <2> QED
    BY <2>1 DEF Replay
<1>3. S = Nat
  <2>1. S \in SUBSET Nat
    OBVIOUS
  <2> HIDE DEF S
  <2> QED
    BY <1>1, <1>2, <2>1, Induction
<1> QED
  BY <1>3

LEMMA ReplayIsState ==
  ASSUME Len(log.applied) \in Nat, Replays(log.applied, state)
  PROVE  AuditReplaysToState
<1> DEFINE L == log.applied
           N == Len(L)
           Is(g) == g = [n \in 0..N |-> IF n = 0 THEN FirstState
                                        ELSE simulate(g[n - 1], L[n].change, L[n].at)]
           after == CHOOSE g : Is(g)
<1>1. PICK f : Replay(f, L) /\ f[N] = state
  BY DEF Replays
<1>2. Is(f)
  <2>1. 0 \in 0..N /\ \A n \in 0..N : n # 0 => n \in 1..N
    OBVIOUS
  <2>2. \A n \in 0..N : f[n] = IF n = 0 THEN FirstState ELSE simulate(f[n - 1], L[n].change, L[n].at)
    BY <1>1, <2>1 DEF Replay
  <2>3. f = [n \in 0..N |-> f[n]]
    BY <1>1 DEF Replay
  <2> HIDE DEF N, L
  <2>4. [n \in 0..N |-> f[n]] = [n \in 0..N |-> IF n = 0 THEN FirstState ELSE simulate(f[n - 1], L[n].change, L[n].at)]
    BY <2>2
  <2> QED
    BY <2>3, <2>4
<1>3. Is(after)
  <2> HIDE DEF Is
  <2> QED
    BY <1>2
<1>4. Replay(after, L)
  <2> HIDE DEF after
  <2>1. 0 \in 0..N /\ \A n \in 1..N : n # 0 /\ n \in 0..N
    OBVIOUS
  <2> HIDE DEF N, L
  <2>2. DOMAIN after = 0..N /\ after = [n \in DOMAIN after |-> after[n]]
    BY <1>3
  <2>3. \A n \in 0..N : after[n] = IF n = 0 THEN FirstState ELSE simulate(after[n - 1], L[n].change, L[n].at)
    BY <1>3
  <2> QED
    BY <2>1, <2>2, <2>3 DEF Replay, N
<1>5. after[N] = state
  <2> HIDE DEF after, L
  <2> QED
    BY <1>1, <1>4, ReplaysOnce DEF L
<1> QED
  BY <1>5 DEF AuditReplaysToState

LEMMA ReplaysNext ==
  ASSUME NEW L \in Seq(Entry), NEW s, Replays(L, s), NEW e \in Entry
  PROVE  Replays(Append(L, e), simulate(s, e.change, e.at))
<1> DEFINE N == Len(L)
           M == Append(L, e)
           t == simulate(s, e.change, e.at)
<1>1. PICK f : Replay(f, L) /\ f[N] = s
  BY DEF Replays
<1> DEFINE g == [n \in 0..(N + 1) |-> IF n = N + 1 THEN t ELSE f[n]]
<1>2. N \in Nat /\ Len(M) = N + 1 /\ M[N + 1] = e /\ \A n \in 1..N : M[n] = L[n]
  OBVIOUS
<1> HIDE DEF M, N, t
<1>3. /\ g = [n \in 0..(N + 1) |-> g[n]] /\ g[N + 1] = t
      /\ \A n \in 0..N : g[n] = f[n]
  BY <1>2
<1> HIDE DEF g
<1>4. g[0] = FirstState
  <2>1. 0 \in 0..N /\ f[0] = FirstState
    BY <1>1, <1>2 DEF Replay
  <2> QED
    BY <1>3, <2>1
<1>5. ASSUME NEW n \in 1..(N + 1) PROVE g[n] = simulate(g[n - 1], M[n].change, M[n].at)
  <2>1. n - 1 \in 0..N /\ g[n - 1] = f[n - 1]
    <3> DEFINE m == n - 1
    <3>1. m \in 0..N
      BY <1>2
    <3> HIDE DEF m
    <3> QED
      BY <1>3, <3>1 DEF m
  <2>2. CASE n = N + 1
    <3>1. g[n - 1] = s /\ M[n] = e /\ g[n] = t
      BY <1>1, <1>2, <1>3, <2>1, <2>2
    <3> QED
      BY <3>1 DEF t
  <2>3. CASE n # N + 1
    <3>1. n \in 1..N /\ n \in 0..N
      BY <1>2, <2>3
    <3>2. f[n] = simulate(f[n - 1], L[n].change, L[n].at)
      BY <1>1, <3>1 DEF Replay, N
    <3> QED
      BY <1>2, <1>3, <2>1, <3>1, <3>2
  <2> QED
    BY <2>2, <2>3
<1>6. Replay(g, M)
  BY <1>2, <1>3, <1>4, <1>5 DEF Replay
<1> QED
  BY <1>2, <1>3, <1>6 DEF Replays, M, t

\* The entries of the changes an apply in progress has made on its copy.
Done == [n \in 1..(work.next - 1) |-> [change |-> work.plan.changes[n], key |-> work.key, at |-> work.at]]

ReplayInv ==
  /\ Replays(log.applied, state)
  /\ work.plan # Nothing =>
       /\ work.next <= Len(work.plan.changes) + 1
       /\ Replays(log.applied \o Done, work.working)

LEMMA ReplayStarts == FleetInit => ReplayInv
<1> SUFFICES ASSUME FleetInit PROVE ReplayInv
  OBVIOUS
<1>1. Replay([n \in 0..0 |-> FirstState], <<>>)
  BY DEF Replay
<1>2. Replays(<<>>, FirstState)
  BY <1>1 DEF Replays
<1> QED
  BY <1>2 DEF FleetInit, Idle, ReplayInv

LEMMA ReplayKeptByChange ==
  ASSUME IInv, ReplayInv, apply_change
  PROVE  ReplayInv'
<1> DEFINE c == NextChange
           e == [change |-> c, key |-> work.key, at |-> work.at]
           L == log.applied
           s == work.working
           t == simulate(s, c, work.at)
           m == work.next
<1>1. /\ work.plan # Nothing /\ m <= Len(work.plan.changes)
      /\ work' = [work EXCEPT !.next = @ + 1, !.working = t]
      /\ UNCHANGED <<state, ledger, log, plans>>
  BY DEF apply_change
<1>2. /\ work.at \in 1..MaxTime /\ work.key \in IdemKey /\ m \in Nat \ {0}
      /\ work.plan.changes \in Seq(Change) /\ L \in Seq(Entry)
  BY <1>1 DEF IInv, FleetTypeOK, WorkInv, Plan
<1>3. c = work.plan.changes[m] /\ c \in Change
  BY <1>1, <1>2 DEF NextChange
<1>4. e \in Entry
  BY <1>2, <1>3 DEF Entry
<1>5. Replays(L \o Done, s)
  BY <1>1 DEF ReplayInv
<1>6. /\ work'.plan = work.plan /\ work'.key = work.key /\ work'.at = work.at
      /\ work'.next = m + 1 /\ work'.working = t
  <2>1. DOMAIN work = {"plan", "key", "at", "next", "working"}
    BY DEF IInv, FleetTypeOK
  <2> DEFINE v == [work EXCEPT !.next = @ + 1]
  <2>2. v.plan = work.plan /\ v.key = work.key /\ v.at = work.at /\ v.next = m + 1 /\ DOMAIN v = DOMAIN work
    BY <2>1
  <2>3. work' = [v EXCEPT !.working = t]
    BY <1>1, Zenon
  <2> HIDE DEF v, t
  <2> QED
    BY <2>1, <2>2, <2>3
<1>7. Done \in Seq(Entry) /\ Len(Done) = m - 1
  <2>1. \A n \in 1..(m - 1) : [change |-> work.plan.changes[n], key |-> work.key, at |-> work.at] \in Entry
    BY <1>1, <1>2 DEF Entry
  <2> QED
    BY <1>2, <2>1 DEF Done
<1>8. Done' = Append(Done, e)
  <2> DEFINE q == work.plan.changes
             k == work.key
             a == work.at
  <2>1. Done = [n \in 1..(m - 1) |-> [change |-> q[n], key |-> k, at |-> a]]
    BY DEF Done
  <2>2. Done' = [n \in 1..m |-> [change |-> q[n], key |-> k, at |-> a]]
    BY <1>2, <1>6 DEF Done
  <2>3. e = [change |-> q[m], key |-> k, at |-> a]
    BY <1>3
  <2> HIDE DEF q, k, a, m, e
  <2> QED
    BY <1>2, <1>7, <2>1, <2>2, <2>3
<1>9. L' \o Done' = Append(L \o Done, e)
  <2>1. L' = L
    BY <1>1
  <2> HIDE DEF L, e
  <2> QED
    BY <1>2, <1>4, <1>7, <1>8, <2>1
<1>10. Replays(Append(L \o Done, e), simulate(s, e.change, e.at))
  <2>1. L \o Done \in Seq(Entry)
    BY <1>2, <1>7
  <2> HIDE DEF L, s, e
  <2> QED
    BY <1>4, <1>5, <2>1, ReplaysNext
<1>11. simulate(s, e.change, e.at) = t
  OBVIOUS
<1>12. Replays((log.applied \o Done)', work'.working)
  <2> HIDE DEF t, e
  <2> QED
    BY <1>6, <1>9, <1>10, <1>11
<1> QED
  BY <1>1, <1>2, <1>6, <1>12 DEF ReplayInv

LEMMA ReplayKeptByCommit ==
  ASSUME IInv, ReplayInv, apply_commit
  PROVE  ReplayInv'
<1>1. work' = Idle /\ work.plan # Nothing /\ work.next > Len(work.plan.changes)
  BY DEF apply_commit
<1>2. work'.plan = Nothing
  BY <1>1 DEF Idle
<1>3. CASE UNCHANGED <<state, log>>
  BY <1>2, <1>3 DEF ReplayInv
<1>4. CASE /\ state' = work.working
           /\ log' = [applied |-> log.applied \o Entries(work.plan, work.key, work.at), at |-> work.at]
  <2> DEFINE q == work.plan.changes
  <2>1. q \in Seq(Change) /\ work.next \in Nat /\ work.next <= Len(q) + 1
    BY <1>1 DEF IInv, FleetTypeOK, ReplayInv, Plan
  <2>2. work.next - 1 = Len(q) /\ DOMAIN q = 1..Len(q)
    BY <1>1, <2>1
  <2>3. Entries(work.plan, work.key, work.at) = Done
    BY <2>2 DEF Entries, Done
  <2>4. Replays(log.applied \o Done, work.working)
    BY <1>1 DEF ReplayInv
  <2> QED
    BY <1>2, <1>4, <2>3, <2>4 DEF ReplayInv
<1> QED
  BY <1>3, <1>4 DEF apply_commit

LEMMA ReplayKeptByBegin ==
  ASSUME IInv, ReplayInv, NEW p \in plans, NEW k \in IdemKey, NEW granted \in Scope, NEW at \in 1..MaxTime,
         apply_begin(p, k, granted, at)
  PROVE  ReplayInv'
<1>1. /\ work' = [plan |-> p, key |-> k, at |-> at, next |-> 1, working |-> state]
      /\ UNCHANGED <<state, ledger, log, plans>>
  BY DEF apply_begin
<1>2. p.changes \in Seq(Change) /\ log.applied \in Seq(Entry)
  BY DEF IInv, FleetTypeOK, Plan
<1>3. Done' = <<>>
  BY <1>1 DEF Done
<1>4. (log.applied \o Done)' = log.applied
  BY <1>1, <1>2, <1>3
<1> QED
  BY <1>1, <1>2, <1>4 DEF ReplayInv

\* Replayed from the first state, the audit log gives the state (apply_plan
\* enters each change as it makes it, and publishes both together or neither).
THEOREM LogTellsTheState == FleetSpec => []AuditReplaysToState
<1>1. FleetInit => ReplayInv
  BY ReplayStarts
<1>2. IInv /\ ReplayInv /\ [FleetNext]_fleetVars => ReplayInv'
  <2> SUFFICES ASSUME IInv, ReplayInv, [FleetNext]_fleetVars PROVE ReplayInv'
    OBVIOUS
  <2>1. CASE UNCHANGED fleetVars
    BY <2>1 DEF fleetVars, ReplayInv, Done
  <2>2. ASSUME NEW changes \in ChangeLists, build_plan(changes) PROVE ReplayInv'
    BY <2>2 DEF build_plan, ReplayInv, Done
  <2>3. ASSUME NEW p \in plans, NEW k \in IdemKey, NEW granted \in Scope, NEW at \in 1..MaxTime,
               apply_begin(p, k, granted, at)
        PROVE  ReplayInv'
    BY <2>3, ReplayKeptByBegin
  <2>4. ASSUME NEW p \in plans, NEW k \in IdemKey, NEW granted \in Scope, NEW at \in 1..MaxTime,
               apply_without_effect(p, k, granted, at)
        PROVE  ReplayInv'
    BY <2>4 DEF apply_without_effect, ReplayInv, Done, IInv, FleetTypeOK
  <2>5. CASE apply_refused
    <3>1. work'.plan = Nothing /\ state' = state /\ log'.applied = log.applied
      BY <2>5 DEF apply_refused, Idle, IInv, FleetTypeOK
    <3> QED
      BY <3>1 DEF ReplayInv
  <2> QED
    BY <2>1, <2>2, <2>3, <2>4, <2>5, ReplayKeptByChange, ReplayKeptByCommit
       DEF FleetNext, Operators, Manager, apply_plan
<1>3. IInv /\ ReplayInv => AuditReplaysToState
  <2> SUFFICES ASSUME IInv, ReplayInv PROVE AuditReplaysToState
    OBVIOUS
  <2>1. Len(log.applied) \in Nat
    BY DEF IInv, FleetTypeOK
  <2> QED
    BY <2>1, ReplayIsState DEF ReplayInv
<1> QED
  BY <1>1, <1>2, <1>3, FleetInvariant, PTL DEF FleetSpec

-----------------------------------------------------------------------------
(* A list of changes run twice *)

\* What a change makes of the result of the one before, when there was one.
Made(t, c, at) ==
  LET w == IF at = Nothing THEN t.clock ELSE at IN
  IF t = Nothing THEN Nothing ELSE IF ~Possible(t, c, w) THEN Nothing ELSE simulate(t, c, w)

\* f is what the first k changes make of s, one after the other.
Running(f, k, s, changes, at) ==
  /\ f = [n \in 0..k |-> f[n]]
  /\ f[0] = s
  /\ \A n \in 1..k : f[n] = Made(f[n - 1], changes[n], at)

LEMMA RunningExists ==
  ASSUME NEW s, NEW changes, NEW at, NEW N \in Nat
  PROVE  \E f : Running(f, N, s, changes, at)
<1> DEFINE S == {k \in Nat : \E f : Running(f, k, s, changes, at)}
<1>1. 0 \in S
  <2>1. Running([n \in 0..0 |-> s], 0, s, changes, at)
    BY DEF Running
  <2> QED
    BY <2>1
<1>2. ASSUME NEW k \in Nat, k \in S PROVE k + 1 \in S
  <2>1. PICK f : Running(f, k, s, changes, at)
    BY <1>2
  <2> DEFINE x == Made(f[k], changes[k + 1], at)
             g == [n \in 0..(k + 1) |-> IF n = k + 1 THEN x ELSE f[n]]
  <2> HIDE DEF x
  <2>2. /\ g = [n \in 0..(k + 1) |-> g[n]] /\ g[k + 1] = x
        /\ \A n \in 0..k : g[n] = f[n]
    OBVIOUS
  <2> HIDE DEF g
  <2>3. g[0] = s
    <3>1. 0 \in 0..k /\ f[0] = s
      BY <2>1 DEF Running
    <3> QED
      BY <2>2, <3>1
  <2>4. ASSUME NEW n \in 1..(k + 1) PROVE g[n] = Made(g[n - 1], changes[n], at)
    <3> DEFINE m == n - 1
    <3>1. m \in 0..k
      OBVIOUS
    <3> HIDE DEF m
    <3>2. g[m] = f[m]
      BY <2>2, <3>1
    <3>3. CASE n = k + 1
      BY <2>2, <3>2, <3>3 DEF x, m
    <3>4. CASE n # k + 1
      <4>1. n \in 1..k /\ n \in 0..k
        BY <3>4
      <4>2. f[n] = Made(f[n - 1], changes[n], at)
        BY <2>1, <4>1 DEF Running
      <4> QED
        BY <2>2, <3>2, <4>1, <4>2 DEF m
    <3> QED
      BY <3>3, <3>4
  <2>5. Running(g, k + 1, s, changes, at)
    BY <2>2, <2>3, <2>4 DEF Running
  <2> QED
    BY <2>5
<1>3. S = Nat
  <2>1. S \in SUBSET Nat
    OBVIOUS
  <2> HIDE DEF S
  <2> QED
    BY <1>1, <1>2, <2>1, Induction
<1> QED
  BY <1>3

\* Run gives the last place of such a function.
LEMMA RunIsRunning ==
  ASSUME NEW s, NEW changes, Len(changes) \in Nat, NEW at
  PROVE  \E f : Running(f, Len(changes), s, changes, at) /\ Run(s, changes, at) = f[Len(changes)]
<1> DEFINE N == Len(changes)
           When(t) == IF at = Nothing THEN t.clock ELSE at
           Is(g) == g = [n \in 0..N |->
             IF n = 0 THEN s
             ELSE IF g[n - 1] = Nothing THEN Nothing
             ELSE IF ~Possible(g[n - 1], changes[n], When(g[n - 1])) THEN Nothing
             ELSE simulate(g[n - 1], changes[n], When(g[n - 1]))]
           after == CHOOSE g : Is(g)
<1>1. PICK f : Running(f, N, s, changes, at)
  BY RunningExists
<1>2. 0 \in 0..N /\ \A n \in 0..N : n # 0 <=> n \in 1..N
  OBVIOUS
<1>3. Is(f)
  <2>1. \A n \in 0..N : f[n] = IF n = 0 THEN s
             ELSE IF f[n - 1] = Nothing THEN Nothing
             ELSE IF ~Possible(f[n - 1], changes[n], When(f[n - 1])) THEN Nothing
             ELSE simulate(f[n - 1], changes[n], When(f[n - 1]))
    <3> SUFFICES ASSUME NEW n \in 0..N
                 PROVE  f[n] = IF n = 0 THEN s
             ELSE IF f[n - 1] = Nothing THEN Nothing
             ELSE IF ~Possible(f[n - 1], changes[n], When(f[n - 1])) THEN Nothing
             ELSE simulate(f[n - 1], changes[n], When(f[n - 1]))
      OBVIOUS
    <3>1. CASE n = 0
      BY <1>1, <3>1 DEF Running
    <3>2. CASE n # 0
      <4>1. f[n] = Made(f[n - 1], changes[n], at)
        BY <1>1, <1>2, <3>2 DEF Running
      <4> HIDE DEF N
      <4> QED
        BY <3>2, <4>1 DEF Made
    <3> QED
      BY <3>1, <3>2
  <2>2. f = [n \in 0..N |-> f[n]]
    BY <1>1 DEF Running
  <2> HIDE DEF N, When
  <2> QED
    BY <2>1, <2>2
<1>4. Is(after)
  <2> HIDE DEF Is
  <2> QED
    BY <1>3
<1>5. Running(after, N, s, changes, at)
  <2> HIDE DEF after
  <2>1. DOMAIN after = 0..N /\ after = [n \in DOMAIN after |-> after[n]]
    BY <1>4
  <2>2. \A n \in 0..N : after[n] = IF n = 0 THEN s
             ELSE IF after[n - 1] = Nothing THEN Nothing
             ELSE IF ~Possible(after[n - 1], changes[n], When(after[n - 1])) THEN Nothing
             ELSE simulate(after[n - 1], changes[n], When(after[n - 1]))
    BY <1>4
  <2>3. ASSUME NEW n \in 1..N PROVE after[n] = Made(after[n - 1], changes[n], at)
    <3>1. n # 0 /\ n \in 0..N
      OBVIOUS
    <3> HIDE DEF N
    <3> QED
      BY <2>2, <3>1 DEF Made
  <2>4. after[0] = s
    BY <1>2, <2>2
  <2> QED
    BY <2>1, <2>3, <2>4 DEF Running
<1>6. Run(s, changes, at) = after[N]
  BY DEF Run
<1> HIDE DEF after, N
<1> QED
  BY <1>5, <1>6 DEF N

\* Two states that differ only in instants: u was reached at the one instant
\* `at`, t each time at its own clock.
Twin(t, u, at) ==
  /\ t \in DesiredState /\ u \in DesiredState /\ t.clock <= at
  /\ t.revision = u.revision /\ t.hosts = u.hosts /\ t.rollouts = u.rollouts
  /\ \A p \in Pool : t.images[p].image = u.images[p].image
  /\ \A a \in AssignmentId :
       /\ t.assignments[a].status = u.assignments[a].status /\ t.assignments[a].host = u.assignments[a].host
       /\ u.assignments[a].issued \in {t.assignments[a].issued, at}

LEMMA TwinsAreFree ==
  ASSUME NEW t, NEW u, NEW at, Twin(t, u, at), NEW h
  PROVE  InUse(t, h) = InUse(u, h) /\ Free(t, h) = Free(u, h)
<1>1. AssignedTo(t, h) = AssignedTo(u, h)
  BY DEF AssignedTo, Twin
<1> QED
  BY <1>1 DEF InUse, Free

LEMMA TwinsMayAlike ==
  ASSUME NEW t, NEW u, NEW at \in Nat, Twin(t, u, at), NEW c \in Change, Possible(t, c, t.clock)
  PROVE  Possible(u, c, at)
<1>1. CASE c.kind = "assign"
  <2>1. Assignable(t, c) /\ c.host \in Host /\ c.id \in AssignmentId
    BY <1>1, FleetAssumption DEF Possible, Change
  <2>2. Free(t, c.host) = Free(u, c.host)
    BY TwinsAreFree
  <2>3. Assignable(u, c)
    BY <2>1, <2>2 DEF Assignable, Twin
  <2> QED
    BY <1>1, <2>3 DEF Possible
<1>2. CASE c.kind = "release"
  <2>1. Releasable(t, c, t.clock) /\ c.id \in AssignmentId
    BY <1>2, FleetAssumption DEF Possible, Change
  <2>2. /\ t.assignments[c.id] \in Assignment /\ u.assignments[c.id] \in Assignment
        /\ t.clock \in Nat /\ t.clock <= at
    BY <2>1 DEF Twin, DesiredState
  <2>3. u.assignments[c.id].issued <= at
    BY <2>1, <2>2 DEF Releasable, Twin, Assignment
  <2>4. u.assignments[c.id].status = "assigned"
    BY <2>1 DEF Releasable, Twin
  <2> QED
    BY <1>2, <2>3, <2>4 DEF Possible, Releasable
<1>3. CASE c.kind = "complete_drain"
  <2>1. InUse(t, c.host) = InUse(u, c.host)
    BY TwinsAreFree
  <2> QED
    BY <1>3, <2>1 DEF Possible, Completable, Twin
<1>4. CASE c.kind \in {"drain", "return_to_service"}
  BY <1>4 DEF Possible, Twin
<1>5. CASE c.kind = "rollout"
  <2>1. c.pool \in Pool
    BY <1>5, FleetAssumption DEF Change
  <2> QED
    BY <1>5, <2>1 DEF Possible, Twin
<1> QED
  BY <1>1, <1>2, <1>3, <1>4, <1>5 DEF Change

LEMMA SimulateClock ==
  ASSUME NEW s \in DesiredState, NEW c \in Change, NEW at \in Nat
  PROVE  simulate(s, c, at).clock = Newest(s, at)
<1>1. CASE c.kind = "assign"
  BY <1>1, Assigns DEF simulate
<1>2. CASE c.kind = "release"
  BY <1>2, Releases DEF simulate
<1>3. CASE c.kind = "drain"
  BY <1>3, Drains DEF simulate
<1>4. CASE c.kind = "complete_drain"
  BY <1>4, Completes DEF simulate
<1>5. CASE c.kind = "return_to_service"
  BY <1>5, Returns DEF simulate
<1>6. CASE c.kind = "rollout"
  BY <1>6, RollsOut DEF simulate
<1> QED
  BY <1>1, <1>2, <1>3, <1>4, <1>5, <1>6 DEF Change

\* Both may make the same change, and stay alike.
LEMMA TwinsStay ==
  ASSUME NEW t, NEW u, NEW at \in Nat, Twin(t, u, at), NEW c \in Change
  PROVE  Twin(simulate(t, c, t.clock), simulate(u, c, at), at)
<1> DEFINE x == simulate(t, c, t.clock)
           y == simulate(u, c, at)
           o == t.clock
<1>1. t \in DesiredState /\ u \in DesiredState /\ o \in Nat /\ o <= at
  BY DEF Twin, DesiredState
<1>2. /\ x \in DesiredState /\ y \in DesiredState
      /\ x.revision = t.revision + 1 /\ y.revision = u.revision + 1
      /\ x.clock <= at
  <2>1. x.clock = Newest(t, o)
    BY <1>1, SimulateClock
  <2>2. Newest(t, o) = o
    BY DEF Newest
  <2> QED
    BY <1>1, <2>1, <2>2, SimulateType
<1>3. x.revision = y.revision
  BY <1>2 DEF Twin
<1>4. SUFFICES /\ x.hosts = y.hosts /\ x.rollouts = y.rollouts
               /\ \A p \in Pool : x.images[p].image = y.images[p].image
               /\ \A a \in AssignmentId :
                    /\ x.assignments[a].status = y.assignments[a].status
                    /\ x.assignments[a].host = y.assignments[a].host
                    /\ y.assignments[a].issued \in {x.assignments[a].issued, at}
  BY <1>2, <1>3 DEF Twin
<1>5. CASE c.kind = "assign"
  <2>1. /\ x = with_assignment(t, c, o) /\ y = with_assignment(u, c, at)
        /\ c.id \in AssignmentId
    BY <1>5, FleetAssumption DEF simulate, Change
  <2> HIDE DEF x, y, o
  <2>2. /\ x.hosts = t.hosts /\ x.rollouts = t.rollouts /\ x.images = t.images
        /\ x.assignments[c.id] = [status |-> "assigned", host |-> c.host, pool |-> c.pool, issued |-> o]
        /\ \A a \in AssignmentId : a # c.id => x.assignments[a] = t.assignments[a]
    BY <1>1, <1>5, <2>1, Assigns
  <2>3. /\ y.hosts = u.hosts /\ y.rollouts = u.rollouts /\ y.images = u.images
        /\ y.assignments[c.id] = [status |-> "assigned", host |-> c.host, pool |-> c.pool, issued |-> at]
        /\ \A a \in AssignmentId : a # c.id => y.assignments[a] = u.assignments[a]
    BY <1>1, <1>5, <2>1, Assigns
  <2> QED
    BY <2>2, <2>3 DEF Twin
<1>6. CASE c.kind = "release"
  <2>1. /\ x = with_release(t, c, o) /\ y = with_release(u, c, at)
        /\ c.id \in AssignmentId
    BY <1>6, FleetAssumption DEF simulate, Change
  <2> DEFINE i == c.id
             a1 == t.assignments[i]
             a2 == u.assignments[i]
  <2> HIDE DEF x, y, o
  <2>2. /\ x.hosts = t.hosts /\ x.rollouts = t.rollouts /\ x.images = t.images
        /\ x.assignments[i] = [a1 EXCEPT !.status = "released"]
        /\ \A a \in AssignmentId : a # i => x.assignments[a] = t.assignments[a]
    BY <1>1, <1>6, <2>1, Releases
  <2>3. /\ y.hosts = u.hosts /\ y.rollouts = u.rollouts /\ y.images = u.images
        /\ y.assignments[i] = [a2 EXCEPT !.status = "released"]
        /\ \A a \in AssignmentId : a # i => y.assignments[a] = u.assignments[a]
    BY <1>1, <1>6, <2>1, Releases
  <2>4. a1 \in Assignment /\ a2 \in Assignment /\ a1.host = a2.host /\ a2.issued \in {a1.issued, at}
    BY <1>1, <2>1 DEF DesiredState, Twin
  <2> HIDE DEF a1, a2, i
  <2>5. /\ x.assignments[i].status = "released" /\ x.assignments[i].host = a1.host
        /\ x.assignments[i].issued = a1.issued
        /\ y.assignments[i].status = "released" /\ y.assignments[i].host = a2.host
        /\ y.assignments[i].issued = a2.issued
    BY <2>2, <2>3, <2>4 DEF Assignment
  <2>6. ASSUME NEW a \in AssignmentId
        PROVE  /\ x.assignments[a].status = y.assignments[a].status
               /\ x.assignments[a].host = y.assignments[a].host
               /\ y.assignments[a].issued \in {x.assignments[a].issued, at}
    <3>1. CASE a = i
      BY <2>4, <2>5, <3>1
    <3>2. CASE a # i
      <4>1. x.assignments[a] = t.assignments[a] /\ y.assignments[a] = u.assignments[a]
        BY <2>2, <2>3, <3>2
      <4> QED
        BY <4>1 DEF Twin
    <3> QED
      BY <3>1, <3>2
  <2> QED
    BY <2>2, <2>3, <2>6 DEF Twin
<1>7. CASE c.kind \in {"drain", "complete_drain", "return_to_service"}
  <2>1. c.host \in Host
    BY <1>7, FleetAssumption DEF Change
  <2>2. PICK v : /\ x.hosts[c.host] = v /\ \A g \in Host : g # c.host => x.hosts[g] = t.hosts[g]
                 /\ x.rollouts = t.rollouts /\ x.images = t.images /\ x.assignments = t.assignments
                 /\ y.hosts[c.host] = v /\ \A g \in Host : g # c.host => y.hosts[g] = u.hosts[g]
                 /\ y.rollouts = u.rollouts /\ y.images = u.images /\ y.assignments = u.assignments
    <3>1. CASE c.kind = "drain"
      BY <1>1, <3>1, Drains, SMTT(30) DEF simulate
    <3>2. CASE c.kind = "complete_drain"
      BY <1>1, <3>2, Completes, SMTT(30) DEF simulate
    <3>3. CASE c.kind = "return_to_service"
      BY <1>1, <3>3, Returns, SMTT(30) DEF simulate
    <3> QED
      BY <1>7, <3>1, <3>2, <3>3
  <2> HIDE DEF x, y
  <2>3. x.hosts = y.hosts
    BY <1>2, <2>2 DEF Twin, DesiredState, HostStates
  <2> QED
    BY <2>2, <2>3 DEF Twin
<1>8. CASE c.kind = "rollout"
  <2>1. /\ x = with_rollout(t, c, o) /\ y = with_rollout(u, c, at)
        /\ c.pool \in Pool
    BY <1>8, FleetAssumption DEF simulate, Change
  <2> HIDE DEF x, y, o
  <2>2. /\ x.hosts = t.hosts /\ x.rollouts = t.rollouts \cup {c.id} /\ x.assignments = t.assignments
        /\ x.images = [t.images EXCEPT ![c.pool] =
             [image |-> c.image, rollback |-> t.images[c.pool].image, revision |-> t.images[c.pool].revision + 1]]
    BY <1>1, <1>8, <2>1, RollsOut
  <2>3. /\ y.hosts = u.hosts /\ y.rollouts = u.rollouts \cup {c.id} /\ y.assignments = u.assignments
        /\ y.images = [u.images EXCEPT ![c.pool] =
             [image |-> c.image, rollback |-> u.images[c.pool].image, revision |-> u.images[c.pool].revision + 1]]
    BY <1>1, <1>8, <2>1, RollsOut
  <2>4. t.images \in [Pool -> PoolImage] /\ u.images \in [Pool -> PoolImage]
    BY <1>1 DEF DesiredState
  <2>5. \A p \in Pool : x.images[p].image = y.images[p].image
    BY <2>1, <2>2, <2>3, <2>4 DEF Twin
  <2> QED
    BY <2>2, <2>3, <2>5 DEF Twin
<1> QED
  BY <1>5, <1>6, <1>7, <1>8 DEF Change

\* Run at its own clocks without a refusal, a list of changes runs at any
\* instant the state does not come after, to a twin of the same result, one
\* revision on for each change.
LEMMA TwinRuns ==
  ASSUME NEW s \in DesiredState, NEW changes \in Seq(Change), NEW at \in Nat, s.clock <= at,
         Run(s, changes, Nothing) # Nothing
  PROVE  LET end == Run(s, changes, at) IN
         /\ Twin(Run(s, changes, Nothing), end, at)
         /\ end \in DesiredState /\ end.revision = s.revision + Len(changes)
<1> DEFINE N == Len(changes)
<1>1. N \in Nat /\ \A n \in 1..N : changes[n] \in Change
  OBVIOUS
<1>2. PICK f : Running(f, N, s, changes, Nothing) /\ Run(s, changes, Nothing) = f[N]
  BY <1>1, RunIsRunning
<1>3. PICK g : Running(g, N, s, changes, at) /\ Run(s, changes, at) = g[N]
  BY <1>1, RunIsRunning
<1> HIDE DEF N
<1> DEFINE S == {k \in Nat : k <= N => \/ f[k] = Nothing
                                       \/ Twin(f[k], g[k], at) /\ g[k].revision = s.revision + k}
<1>4. 0 \in S
  <2>1. f[0] = s /\ g[0] = s
    BY <1>2, <1>3 DEF Running
  <2>2. Twin(s, s, at) /\ s.revision = s.revision + 0
    BY DEF Twin, DesiredState
  <2> QED
    BY <2>1, <2>2
<1>5. ASSUME NEW k \in Nat, k \in S PROVE k + 1 \in S
  <2> SUFFICES ASSUME k + 1 <= N, f[k + 1] # Nothing
               PROVE  Twin(f[k + 1], g[k + 1], at) /\ g[k + 1].revision = s.revision + (k + 1)
    OBVIOUS
  <2> DEFINE t == f[k]
             u == g[k]
             c == changes[k + 1]
  <2>1. k + 1 \in 1..N /\ (k + 1) - 1 = k /\ k <= N
    BY <1>1
  <2>2. f[k + 1] = Made(t, c, Nothing) /\ g[k + 1] = Made(u, c, at)
    <3>1. /\ f[k + 1] = Made(f[(k + 1) - 1], changes[k + 1], Nothing)
          /\ g[k + 1] = Made(g[(k + 1) - 1], changes[k + 1], at)
      BY <1>2, <1>3, <2>1 DEF Running
    <3> QED
      BY <2>1, <3>1
  <2>3. c \in Change
    BY <1>1, <2>1
  <2> HIDE DEF t, u, c
  <2>4. t # Nothing /\ Possible(t, c, t.clock) /\ f[k + 1] = simulate(t, c, t.clock)
    BY <2>2 DEF Made
  <2>5. Twin(t, u, at) /\ u.revision = s.revision + k
    BY <1>5, <2>1, <2>4 DEF t, u
  <2>6. Possible(u, c, at)
    BY <2>3, <2>4, <2>5, TwinsMayAlike
  <2>7. u # Nothing /\ at # Nothing /\ u \in DesiredState
    BY <2>5, FleetAssumption DEF Twin
  <2>8. g[k + 1] = simulate(u, c, at)
    BY <2>2, <2>6, <2>7 DEF Made
  <2>9. Twin(f[k + 1], g[k + 1], at)
    BY <2>3, <2>4, <2>5, <2>8, TwinsStay
  <2>10. g[k + 1].revision = u.revision + 1
    BY <2>3, <2>7, <2>8, SimulateType
  <2>11. s.revision \in Nat
    BY DEF DesiredState
  <2> QED
    BY <2>5, <2>9, <2>10, <2>11
<1>6. S = Nat
  <2>1. S \in SUBSET Nat
    OBVIOUS
  <2> HIDE DEF S
  <2> QED
    BY <1>4, <1>5, <2>1, Induction
<1>7. N \in S
  BY <1>1, <1>6
<1>8. Twin(f[N], g[N], at) /\ g[N].revision = s.revision + N
  BY <1>1, <1>2, <1>7
<1> QED
  BY <1>2, <1>3, <1>8 DEF Twin, N

-----------------------------------------------------------------------------
(* What a plan promises *)

\* A plan is of a revision that has been; while it is of this one, its changes
\* run, and leave the slots free that were reviewed.
PlanInv ==
  \A p \in plans :
    /\ p.base <= state.revision /\ p.changes # <<>>
    /\ p.base = state.revision =>
         /\ Run(state, p.changes, Nothing) # Nothing
         /\ \A h \in Host : p.free[h] = Free(Run(state, p.changes, Nothing), h)

LEMMA PlansStart == FleetInit => PlanInv
  BY DEF FleetInit, PlanInv

LEMMA PlansKeptByBuild ==
  ASSUME IInv, PlanInv, NEW changes \in ChangeLists, build_plan(changes)
  PROVE  PlanInv'
<1> DEFINE end == Run(state, changes, Nothing)
           free == [h \in Host |-> Free(end, h)]
           q == [base |-> state.revision, changes |-> changes, free |-> free]
<1>1. plans' = plans \cup {q} /\ state' = state /\ changes # <<>> /\ end # Nothing
  BY DEF build_plan
<1>2. state.revision \in Nat
  BY DEF IInv, FleetTypeOK, DesiredState
<1>3. \A h \in Host : free[h] = Free(end, h)
  OBVIOUS
<1>4. ASSUME NEW p \in plans'
      PROVE  /\ p.base <= state'.revision /\ p.changes # <<>>
             /\ p.base = state'.revision =>
                  /\ Run(state', p.changes, Nothing) # Nothing
                  /\ \A h \in Host : p.free[h] = Free(Run(state', p.changes, Nothing), h)
  <2>1. CASE p \in plans
    BY <1>1, <2>1 DEF PlanInv
  <2>2. CASE p = q
    <3>1. q.base = state.revision /\ q.changes = changes /\ q.free = free
      OBVIOUS
    <3> HIDE DEF q, free
    <3> QED
      BY <1>1, <1>2, <1>3, <2>2, <3>1
  <2> QED
    BY <1>1, <2>1, <2>2
<1> QED
  BY <1>4 DEF PlanInv

\* What is applied is a new revision: every plan built before is stale.
LEMMA PlansKeptByCommit ==
  ASSUME IInv, PlanInv, apply_commit
  PROVE  PlanInv'
<1> DEFINE p == work.plan
<1>1. p # Nothing /\ plans' = plans
  BY DEF apply_commit
<1>2. p \in plans /\ p \in Plan /\ p.base = state.revision /\ p.changes # <<>>
  BY <1>1 DEF IInv, FleetTypeOK, WorkInv, PlanInv
<1>3. CASE state' = state
  BY <1>1, <1>3 DEF PlanInv
<1>4. CASE state' = work.working /\ work.working.revision = p.base + Len(p.changes)
  <2>1. Len(p.changes) \in Nat /\ Len(p.changes) > 0 /\ state.revision \in Nat
    BY <1>2 DEF Plan, IInv, FleetTypeOK, DesiredState
  <2>2. state'.revision = state.revision + Len(p.changes)
    BY <1>2, <1>4
  <2>3. \A r \in plans : r.base \in Nat /\ r.base <= state.revision /\ r.changes # <<>>
    BY DEF PlanInv, IInv, FleetTypeOK, Plan
  <2> HIDE DEF p
  <2>4. \A r \in plans : r.base <= state'.revision /\ r.base # state'.revision
    BY <2>1, <2>2, <2>3
  <2> QED
    BY <1>1, <2>3, <2>4 DEF PlanInv
<1> QED
  BY <1>3, <1>4 DEF apply_commit

\* A plan keeps its word at every instant it may be applied: it runs, gives the
\* revision it declared and leaves the free slots that were reviewed
\* (build_plan against apply_plan).
THEOREM ReviewedPlansHold == FleetSpec => []PlansKeepTheirWord
<1>1. FleetInit => PlanInv
  BY PlansStart
<1>2. IInv /\ PlanInv /\ [FleetNext]_fleetVars => PlanInv'
  <2> SUFFICES ASSUME IInv, PlanInv, [FleetNext]_fleetVars PROVE PlanInv'
    OBVIOUS
  <2>1. ASSUME NEW changes \in ChangeLists, build_plan(changes) PROVE PlanInv'
    BY <2>1, PlansKeptByBuild
  <2>2. CASE apply_commit
    BY <2>2, PlansKeptByCommit
  <2>3. CASE UNCHANGED <<state, plans>>
    BY <2>3 DEF PlanInv
  <2>4. \/ \E changes \in ChangeLists : build_plan(changes)
        \/ apply_commit
        \/ UNCHANGED <<state, plans>>
    BY DEF FleetNext, Operators, Manager, apply_plan, apply_begin, apply_without_effect, apply_change,
           apply_refused, fleetVars
  <2> QED
    BY <2>1, <2>2, <2>3, <2>4
<1>3. IInv /\ PlanInv => PlansKeepTheirWord
  <2> SUFFICES ASSUME IInv, PlanInv, NEW p \in plans, p.base = state.revision,
                      NEW at \in log.at..MaxTime, at >= state.clock
               PROVE  LET end == Run(state, p.changes, at) IN
                      /\ end # Nothing
                      /\ end.revision = p.base + Len(p.changes)
                      /\ \A h \in Host : Free(end, h) = p.free[h]
    BY DEF PlansKeepTheirWord
  <2>1. /\ state \in DesiredState /\ state.clock \in Nat /\ at \in Nat /\ state.clock <= at
        /\ p.changes \in Seq(Change)
    BY FleetAssumption DEF IInv, FleetTypeOK, DesiredState, Plan
  <2>2. /\ Run(state, p.changes, Nothing) # Nothing
        /\ \A h \in Host : p.free[h] = Free(Run(state, p.changes, Nothing), h)
    BY DEF PlanInv
  <2> DEFINE end == Run(state, p.changes, at)
             dry == Run(state, p.changes, Nothing)
  <2>3. Twin(dry, end, at) /\ end \in DesiredState /\ end.revision = state.revision + Len(p.changes)
    <3>1. PICK s \in DesiredState : s = state
      BY <2>1
    <3>2. PICK r : r = p.changes
      OBVIOUS
    <3>3. Run(s, r, Nothing) # Nothing /\ r \in Seq(Change) /\ s.clock <= at
      BY <2>1, <2>2, <3>1, <3>2
    <3>4. /\ Twin(Run(s, r, Nothing), Run(s, r, at), at)
          /\ Run(s, r, at) \in DesiredState /\ Run(s, r, at).revision = s.revision + Len(r)
      BY <2>1, <3>3, TwinRuns
    <3> QED
      BY <3>1, <3>2, <3>4
  <2> HIDE DEF end, dry
  <2>4. \A h \in Host : Free(end, h) = Free(dry, h)
    BY <2>3, TwinsAreFree
  <2>5. end # Nothing
    BY <2>3, FleetAssumption
  <2> QED
    BY <2>2, <2>3, <2>4, <2>5 DEF end, dry
<1> QED
  BY <1>1, <1>2, <1>3, FleetInvariant, PTL DEF FleetSpec

-----------------------------------------------------------------------------
(* The folds of the reconciler *)

\* What the three folds make of one item more.
Stepped(fold, s, stop, sofar, x) ==
  CASE fold = "bound"  -> Decided(s, stop, sofar, x)
    [] fold = "assign" -> Placed(s, sofar, x)
    [] fold = "want"   -> Wants(s, sofar, x)

\* f is what the first k items make of what there was first.
Folded(f, k, fold, s, stop, first, list) ==
  /\ f = [n \in 0..k |-> f[n]]
  /\ f[0] = first
  /\ \A n \in 1..k : f[n] = Stepped(fold, s, stop, f[n - 1], list[n])

LEMMA FoldedExists ==
  ASSUME NEW fold, NEW s, NEW stop, NEW first, NEW list, NEW N \in Nat
  PROVE  \E f : Folded(f, N, fold, s, stop, first, list)
<1> DEFINE S == {k \in Nat : \E f : Folded(f, k, fold, s, stop, first, list)}
<1>1. 0 \in S
  <2>1. Folded([n \in 0..0 |-> first], 0, fold, s, stop, first, list)
    BY DEF Folded
  <2> QED
    BY <2>1
<1>2. ASSUME NEW k \in Nat, k \in S PROVE k + 1 \in S
  <2>1. PICK f : Folded(f, k, fold, s, stop, first, list)
    BY <1>2
  <2> DEFINE x == Stepped(fold, s, stop, f[k], list[k + 1])
             g == [n \in 0..(k + 1) |-> IF n = k + 1 THEN x ELSE f[n]]
  <2> HIDE DEF x
  <2>2. /\ g = [n \in 0..(k + 1) |-> g[n]] /\ g[k + 1] = x
        /\ \A n \in 0..k : g[n] = f[n]
    OBVIOUS
  <2> HIDE DEF g
  <2>3. g[0] = first
    <3>1. 0 \in 0..k /\ f[0] = first
      BY <2>1 DEF Folded
    <3> QED
      BY <2>2, <3>1
  <2>4. ASSUME NEW n \in 1..(k + 1) PROVE g[n] = Stepped(fold, s, stop, g[n - 1], list[n])
    <3> DEFINE m == n - 1
    <3>1. m \in 0..k
      OBVIOUS
    <3> HIDE DEF m
    <3>2. g[m] = f[m]
      BY <2>2, <3>1
    <3>3. CASE n = k + 1
      BY <2>2, <3>2, <3>3 DEF x, m
    <3>4. CASE n # k + 1
      <4>1. n \in 1..k /\ n \in 0..k
        BY <3>4
      <4>2. f[n] = Stepped(fold, s, stop, f[n - 1], list[n])
        BY <2>1, <4>1 DEF Folded
      <4> QED
        BY <2>2, <3>2, <4>1, <4>2 DEF m
    <3> QED
      BY <3>3, <3>4
  <2>5. Folded(g, k + 1, fold, s, stop, first, list)
    BY <2>2, <2>3, <2>4 DEF Folded
  <2> QED
    BY <2>5
<1>3. S = Nat
  <2>1. S \in SUBSET Nat
    OBVIOUS
  <2> HIDE DEF S
  <2> QED
    BY <1>1, <1>2, <2>1, Induction
<1> QED
  BY <1>3


\* The form a fold is chosen by.
Recursive(g, N, fold, s, stop, first, list) ==
  g = [n \in 0..N |-> IF n = 0 THEN first ELSE Stepped(fold, s, stop, g[n - 1], list[n])]

LEMMA FoldedForm ==
  ASSUME NEW fold, NEW s, NEW stop, NEW first, NEW list, NEW N \in Nat, NEW g
  PROVE  Folded(g, N, fold, s, stop, first, list) <=> Recursive(g, N, fold, s, stop, first, list)
<1> USE DEF Recursive
<1>1. 0 \in 0..N /\ \A n \in 0..N : n # 0 <=> n \in 1..N
  OBVIOUS
<1>2. ASSUME Folded(g, N, fold, s, stop, first, list)
      PROVE  g = [n \in 0..N |-> IF n = 0 THEN first ELSE Stepped(fold, s, stop, g[n - 1], list[n])]
  <2>1. \A n \in 0..N : g[n] = IF n = 0 THEN first ELSE Stepped(fold, s, stop, g[n - 1], list[n])
    BY <1>1, <1>2 DEF Folded
  <2>2. g = [n \in 0..N |-> g[n]]
    BY <1>2 DEF Folded
  <2> QED
    BY <2>1, <2>2
<1>3. ASSUME g = [n \in 0..N |-> IF n = 0 THEN first ELSE Stepped(fold, s, stop, g[n - 1], list[n])]
      PROVE  Folded(g, N, fold, s, stop, first, list)
  <2>1. DOMAIN g = 0..N /\ g = [n \in DOMAIN g |-> g[n]]
    BY <1>3
  <2>2. \A n \in 0..N : g[n] = IF n = 0 THEN first ELSE Stepped(fold, s, stop, g[n - 1], list[n])
    BY <1>3
  <2> QED
    BY <1>1, <2>1, <2>2 DEF Folded
<1> QED
  BY <1>2, <1>3

LEMMA OnlyOne ==
  ASSUME NEW d
  PROVE  (CHOOSE r \in {d} : TRUE) = d
  OBVIOUS

LEMMA ShortfallFolds ==
  ASSUME NEW s, NEW list, list = PoolOrder, NEW N \in Nat, N = Len(list)
  PROVE  \E f : Folded(f, N, "want", s, FALSE, <<>>, list) /\ Shortfall(s) = f[N]
<1> DEFINE Step(v, x) == CHOOSE r \in {Wants(s, w, x) : w \in {v}} : TRUE
           Is(g, l) == g = [n \in 0..Len(l) |-> IF n = 0 THEN <<>> ELSE Step(g[n - 1], l[n])]
           After(l) == (CHOOSE g : Is(g, l))[Len(l)]
           after == CHOOSE g : Is(g, list)
<1>1. Shortfall(s) = CHOOSE r \in {After(l) : l \in {list}} : TRUE
  BY DEF Shortfall, Fold, Once
<1>2. Shortfall(s) = after[N]
  <2>1. {After(l) : l \in {list}} = {After(list)}
    OBVIOUS
  <2> HIDE DEF After
  <2>2. Shortfall(s) = After(list)
    BY <1>1, <2>1, OnlyOne
  <2> QED
    BY <2>2 DEF After
<1>3. \A v, x : Step(v, x) = Stepped("want", s, FALSE, v, x)
  <2> TAKE v, x
  <2>1. {Wants(s, w, x) : w \in {v}} = {Wants(s, v, x)}
    OBVIOUS
  <2> QED
    BY <2>1, OnlyOne DEF Stepped
<1>4. \A g : Is(g, list) <=> Folded(g, N, "want", s, FALSE, <<>>, list)
  <2> TAKE g
  <2> HIDE DEF Step
  <2>1. [n \in 0..N |-> IF n = 0 THEN <<>> ELSE Step(g[n - 1], list[n])]
          = [n \in 0..N |-> IF n = 0 THEN <<>> ELSE Stepped("want", s, FALSE, g[n - 1], list[n])]
    BY <1>3
  <2>2. Recursive(g, N, "want", s, FALSE, <<>>, list)
          <=> g = [n \in 0..N |-> IF n = 0 THEN <<>> ELSE Stepped("want", s, FALSE, g[n - 1], list[n])]
    BY DEF Recursive
  <2>3. Is(g, list) <=> g = [n \in 0..N |-> IF n = 0 THEN <<>> ELSE Step(g[n - 1], list[n])]
    OBVIOUS
  <2> HIDE DEF Is
  <2> QED
    BY <2>1, <2>2, <2>3, FoldedForm
<1>5. PICK f : Is(f, list)
  <2>1. \E f : Folded(f, N, "want", s, FALSE, <<>>, list)
    BY FoldedExists
  <2> HIDE DEF Is
  <2> QED
    BY <1>4, <2>1
<1>6. Is(after, list)
  <2> HIDE DEF Is
  <2> QED
    BY <1>5
<1> QED
  BY <1>2, <1>4, <1>6
Unplanned(s) == [working |-> s, candidates |-> {}]

LEMMA AssignmentsFold ==
  ASSUME NEW s, NEW list, list = Shortfall(s), NEW N \in Nat, N = Len(list)
  PROVE  \E f : Folded(f, N, "assign", s, FALSE, Unplanned(s), list) /\ f[N].candidates = Assignments(s)
<1> DEFINE Step(v, x) == CHOOSE r \in {Placed(s, w, x) : w \in {v}} : TRUE
           Is(g, l) == g = [n \in 0..Len(l) |-> IF n = 0 THEN Unplanned(s) ELSE Step(g[n - 1], l[n])]
           After(l) == (CHOOSE g : Is(g, l))[Len(l)]
           after == CHOOSE g : Is(g, list)
<1>1. Assignments(s) = (CHOOSE r \in {After(l) : l \in {list}} : TRUE).candidates
  BY DEF Assignments, Fold, Once, Unplanned
<1>2. Assignments(s) = after[N].candidates
  <2>1. {After(l) : l \in {list}} = {After(list)}
    OBVIOUS
  <2> HIDE DEF After
  <2>2. Assignments(s) = After(list).candidates
    BY <1>1, <2>1, OnlyOne
  <2> QED
    BY <2>2 DEF After
<1>3. \A v, x : Step(v, x) = Stepped("assign", s, FALSE, v, x)
  <2> TAKE v, x
  <2>1. {Placed(s, w, x) : w \in {v}} = {Placed(s, v, x)}
    OBVIOUS
  <2> QED
    BY <2>1, OnlyOne DEF Stepped
<1>4. \A g : Is(g, list) <=> Folded(g, N, "assign", s, FALSE, Unplanned(s), list)
  <2> TAKE g
  <2> HIDE DEF Step
  <2>1. [n \in 0..N |-> IF n = 0 THEN Unplanned(s) ELSE Step(g[n - 1], list[n])]
          = [n \in 0..N |-> IF n = 0 THEN Unplanned(s) ELSE Stepped("assign", s, FALSE, g[n - 1], list[n])]
    BY <1>3
  <2>2. Recursive(g, N, "assign", s, FALSE, Unplanned(s), list)
          <=> g = [n \in 0..N |-> IF n = 0 THEN Unplanned(s) ELSE Stepped("assign", s, FALSE, g[n - 1], list[n])]
    BY DEF Recursive
  <2>3. Is(g, list) <=> g = [n \in 0..N |-> IF n = 0 THEN Unplanned(s) ELSE Step(g[n - 1], list[n])]
    OBVIOUS
  <2> HIDE DEF Is
  <2> QED
    BY <2>1, <2>2, <2>3, FoldedForm
<1>5. PICK f : Is(f, list)
  <2>1. \E f : Folded(f, N, "assign", s, FALSE, Unplanned(s), list)
    BY FoldedExists
  <2> HIDE DEF Is
  <2> QED
    BY <1>4, <2>1
<1>6. Is(after, list)
  <2> HIDE DEF Is
  <2> QED
    BY <1>5
<1> QED
  BY <1>2, <1>4, <1>6
LEMMA BoundingFolds ==
  ASSUME NEW s, NEW candidates, NEW stop, NEW list, list = _validated_candidates(candidates),
         NEW N \in Nat, N = Len(list), NEW first, first = [changes |-> <<>>, deferred |-> {}, used |-> Unused]
  PROVE  \E f : Folded(f, N, "bound", s, stop, first, list) /\ bound_candidates(s, candidates, stop) = f[N]
<1> DEFINE Step(v, x) == CHOOSE r \in {Decided(s, stop, w, x) : w \in {v}} : TRUE
           Is(g, l) == g = [n \in 0..Len(l) |-> IF n = 0 THEN first ELSE Step(g[n - 1], l[n])]
           After(l) == (CHOOSE g : Is(g, l))[Len(l)]
           after == CHOOSE g : Is(g, list)
<1>1. bound_candidates(s, candidates, stop) = CHOOSE r \in {After(l) : l \in {list}} : TRUE
  BY DEF bound_candidates, Fold, Once
<1>2. bound_candidates(s, candidates, stop) = after[N]
  <2>1. {After(l) : l \in {list}} = {After(list)}
    OBVIOUS
  <2> HIDE DEF After
  <2>2. bound_candidates(s, candidates, stop) = After(list)
    BY <1>1, <2>1, OnlyOne
  <2> QED
    BY <2>2 DEF After
<1>3. \A v, x : Step(v, x) = Stepped("bound", s, stop, v, x)
  <2> TAKE v, x
  <2>1. {Decided(s, stop, w, x) : w \in {v}} = {Decided(s, stop, v, x)}
    OBVIOUS
  <2> QED
    BY <2>1, OnlyOne DEF Stepped
<1>4. \A g : Is(g, list) <=> Folded(g, N, "bound", s, stop, first, list)
  <2> TAKE g
  <2> HIDE DEF Step
  <2>1. [n \in 0..N |-> IF n = 0 THEN first ELSE Step(g[n - 1], list[n])]
          = [n \in 0..N |-> IF n = 0 THEN first ELSE Stepped("bound", s, stop, g[n - 1], list[n])]
    BY <1>3
  <2>2. Recursive(g, N, "bound", s, stop, first, list)
          <=> g = [n \in 0..N |-> IF n = 0 THEN first ELSE Stepped("bound", s, stop, g[n - 1], list[n])]
    BY DEF Recursive
  <2>3. Is(g, list) <=> g = [n \in 0..N |-> IF n = 0 THEN first ELSE Step(g[n - 1], list[n])]
    OBVIOUS
  <2> HIDE DEF Is
  <2> QED
    BY <2>1, <2>2, <2>3, FoldedForm
<1>5. PICK f : Is(f, list)
  <2>1. \E f : Folded(f, N, "bound", s, stop, first, list)
    BY FoldedExists
  <2> HIDE DEF Is
  <2> QED
    BY <1>4, <2>1
<1>6. Is(after, list)
  <2> HIDE DEF Is
  <2> QED
    BY <1>5
<1> QED
  BY <1>2, <1>4, <1>6

-----------------------------------------------------------------------------
(* The candidates in order *)

LEMMA PositionType ==
  ASSUME NEW x \in Identifier
  PROVE  Position[x] \in Nat /\ Order[Position[x]] = x
<1>1. \E n \in DOMAIN Order : Order[n] = x
  BY LoopAssumption
<1>2. Position[x] \in DOMAIN Order /\ Order[Position[x]] = x
  BY <1>1 DEF Position
<1>3. DOMAIN Order \subseteq Nat
  <2>1. Order \in Seq(Identifier)
    BY LoopAssumption
  <2> QED
    BY <2>1
<1> QED
  BY <1>2, <1>3

LEMMA ChangeNames ==
  ASSUME NEW c \in Change
  PROVE  /\ c.id \in Identifier /\ c.host \in Identifier /\ c.pool \in Identifier /\ c.image \in Identifier
         /\ Subject(c) \in Identifier /\ _CANDIDATE_ORDER(c.kind) \in Nat
         /\ c = [kind |-> c.kind, id |-> c.id, host |-> c.host, pool |-> c.pool, image |-> c.image]
         /\ c.kind \in {"assign", "release", "drain", "complete_drain", "return_to_service", "rollout"}
<1>1. CASE c.kind = "assign"
  BY <1>1 DEF Change, Identifier, Subject, _CANDIDATE_ORDER
<1>2. CASE c.kind = "release"
  BY <1>2 DEF Change, Identifier, Subject, _CANDIDATE_ORDER
<1>3. CASE c.kind \in {"drain", "complete_drain", "return_to_service"}
  BY <1>3 DEF Change, Identifier, Subject, _CANDIDATE_ORDER
<1>4. CASE c.kind = "rollout"
  BY <1>4 DEF Change, Identifier, Subject, _CANDIDATE_ORDER
<1> QED
  BY <1>1, <1>2, <1>3, <1>4 DEF Change

Key(k) == \A i \in 1..6 : k[i] \in Nat

LEMMA KeyType ==
  ASSUME NEW c \in Change
  PROVE  Key(_candidate_key(c))
<1> DEFINE k == _candidate_key(c)
<1>1. /\ k[1] = _CANDIDATE_ORDER(c.kind) /\ k[2] = Position[Subject(c)] /\ k[3] = Position[c.id]
      /\ k[4] = Position[c.host] /\ k[5] = Position[c.pool] /\ k[6] = Position[c.image]
  BY DEF _candidate_key
<1>2. k[1] \in Nat /\ k[2] \in Nat /\ k[3] \in Nat /\ k[4] \in Nat /\ k[5] \in Nat /\ k[6] \in Nat
  BY <1>1, ChangeNames, PositionType
<1> HIDE DEF k
<1>3. \A i \in 1..6 : i = 1 \/ i = 2 \/ i = 3 \/ i = 4 \/ i = 5 \/ i = 6
  OBVIOUS
<1> QED
  BY <1>2, <1>3 DEF Key, k

LEMMA KeyNames ==
  ASSUME NEW c \in Change, NEW d \in Change,
         \A i \in 1..6 : _candidate_key(c)[i] = _candidate_key(d)[i]
  PROVE  c = d
<1> DEFINE k == _candidate_key(c)
           m == _candidate_key(d)
<1>1. /\ k[1] = _CANDIDATE_ORDER(c.kind) /\ k[3] = Position[c.id]
      /\ k[4] = Position[c.host] /\ k[5] = Position[c.pool] /\ k[6] = Position[c.image]
  BY DEF _candidate_key
<1>2. /\ m[1] = _CANDIDATE_ORDER(d.kind) /\ m[3] = Position[d.id]
      /\ m[4] = Position[d.host] /\ m[5] = Position[d.pool] /\ m[6] = Position[d.image]
  BY DEF _candidate_key
<1>3. k[1] = m[1] /\ k[3] = m[3] /\ k[4] = m[4] /\ k[5] = m[5] /\ k[6] = m[6]
  OBVIOUS
<1> HIDE DEF k, m
<1>4. c.id = d.id /\ c.host = d.host /\ c.pool = d.pool /\ c.image = d.image
  <2>1. \A x, y \in Identifier : Position[x] = Position[y] => x = y
    BY PositionType
  <2>2. /\ c.id \in Identifier /\ c.host \in Identifier /\ c.pool \in Identifier /\ c.image \in Identifier
        /\ d.id \in Identifier /\ d.host \in Identifier /\ d.pool \in Identifier /\ d.image \in Identifier
    BY ChangeNames
  <2>3. /\ Position[c.id] = Position[d.id] /\ Position[c.host] = Position[d.host]
        /\ Position[c.pool] = Position[d.pool] /\ Position[c.image] = Position[d.image]
    BY <1>1, <1>2, <1>3
  <2> QED
    BY <2>1, <2>2, <2>3
<1>5. c.kind = d.kind
  <2>1. _CANDIDATE_ORDER(c.kind) = _CANDIDATE_ORDER(d.kind)
    BY <1>1, <1>2, <1>3
  <2> QED
    BY <2>1, ChangeNames DEF _CANDIDATE_ORDER
<1> QED
  BY <1>4, <1>5, ChangeNames

LEMMA KeysOrdered ==
  ASSUME NEW k, NEW m, NEW q, Key(k), Key(m), Key(q)
  PROVE  /\ ~Before(k, k)
         /\ Before(k, m) /\ Before(m, q) => Before(k, q)
         /\ Before(k, m) \/ Before(m, k) \/ \A i \in 1..6 : k[i] = m[i]
<1>1. ~Before(k, k)
  BY DEF Before, Key
<1>2. ASSUME Before(k, m), Before(m, q) PROVE Before(k, q)
  <2>1. PICK i \in 1..6 : k[i] < m[i] /\ \A j \in 1..(i - 1) : k[j] = m[j]
    BY <1>2 DEF Before
  <2>2. PICK n \in 1..6 : m[n] < q[n] /\ \A j \in 1..(n - 1) : m[j] = q[j]
    BY <1>2 DEF Before
  <2>3. CASE i < n
    <3>1. i \in 1..(n - 1) /\ \A j \in 1..(i - 1) : j \in 1..(n - 1)
      BY <2>3
    <3>2. k[i] < q[i] /\ \A j \in 1..(i - 1) : k[j] = q[j]
      BY <2>1, <2>2, <3>1
    <3> QED
      BY <3>2 DEF Before
  <2>4. CASE i = n
    <3>1. k[i] < q[i]
      BY <2>1, <2>2, <2>4 DEF Key
    <3>2. \A j \in 1..(i - 1) : k[j] = q[j]
      BY <2>1, <2>2, <2>4
    <3> QED
      BY <3>1, <3>2 DEF Before
  <2>5. CASE n < i
    <3>1. n \in 1..(i - 1) /\ \A j \in 1..(n - 1) : j \in 1..(i - 1)
      BY <2>5
    <3>2. k[n] < q[n] /\ \A j \in 1..(n - 1) : k[j] = q[j]
      BY <2>1, <2>2, <3>1
    <3> QED
      BY <3>2 DEF Before
  <2> QED
    BY <2>3, <2>4, <2>5
<1>3. ASSUME NEW n \in 1..6, k[n] # m[n] PROVE Before(k, m) \/ Before(m, k)
  <2>1. PICK i \in 1..6 : k[i] # m[i] /\ \A j \in 1..(i - 1) : k[j] = m[j]
    <3>1. \/ k[1] # m[1]
          \/ k[1] = m[1] /\ k[2] # m[2]
          \/ k[1] = m[1] /\ k[2] = m[2] /\ k[3] # m[3]
          \/ k[1] = m[1] /\ k[2] = m[2] /\ k[3] = m[3] /\ k[4] # m[4]
          \/ k[1] = m[1] /\ k[2] = m[2] /\ k[3] = m[3] /\ k[4] = m[4] /\ k[5] # m[5]
          \/ k[1] = m[1] /\ k[2] = m[2] /\ k[3] = m[3] /\ k[4] = m[4] /\ k[5] = m[5] /\ k[6] # m[6]
      BY <1>3
    <3> QED
      BY <3>1
  <2>2. k[i] \in Nat /\ m[i] \in Nat
    BY DEF Key
  <2>3. k[i] < m[i] \/ m[i] < k[i]
    BY <2>1, <2>2
  <2> QED
    BY <2>1, <2>3 DEF Before
<1> QED
  BY <1>1, <1>2, <1>3

\* The order of the candidates is a strict order of all changes.
LEMMA ChangesOrdered ==
  ASSUME NEW c \in Change, NEW d \in Change, NEW e \in Change
  PROVE  /\ c \notin Preceding[c]
         /\ e \in Preceding[d] /\ d \in Preceding[c] => e \in Preceding[c]
         /\ c # d => c \in Preceding[d] \/ d \in Preceding[c]
<1>1. \A x, y \in Change : y \in Preceding[x] <=> Before(_candidate_key(y), _candidate_key(x))
  BY DEF Preceding
<1>2. \A x \in Change : Key(_candidate_key(x))
  BY KeyType
<1>3. ~Before(_candidate_key(c), _candidate_key(c))
  BY <1>2, KeysOrdered
<1>4. Before(_candidate_key(e), _candidate_key(d)) /\ Before(_candidate_key(d), _candidate_key(c))
        => Before(_candidate_key(e), _candidate_key(c))
  BY <1>2, KeysOrdered
<1>5. c # d => Before(_candidate_key(c), _candidate_key(d)) \/ Before(_candidate_key(d), _candidate_key(c))
  BY <1>2, KeysOrdered, KeyNames
<1> QED
  BY <1>1, <1>3, <1>4, <1>5

\* Sorted lists each candidate once.
LEMMA SortedLists ==
  ASSUME NEW C \in SUBSET Change, IsFiniteSet(C), NEW N, N = Cardinality(C)
  PROVE  /\ N \in Nat
         /\ Sorted(C) \in [1..N -> C]
         /\ \A i, j \in 1..N : Sorted(C)[i] = Sorted(C)[j] => i = j
<1> DEFINE rank == [c \in C |-> Cardinality(C \cap Preceding[c])]
<1>1. N \in Nat
  BY FS_CardinalityType
<1>2. ASSUME NEW c \in C
      PROVE  /\ IsFiniteSet(C \cap Preceding[c]) /\ rank[c] \in Nat /\ rank[c] < N
  <2>1. C \cap Preceding[c] \in SUBSET (C \ {c})
    BY ChangesOrdered
  <2>2. IsFiniteSet(C \ {c}) /\ Cardinality(C \ {c}) = N - 1
    BY FS_RemoveElement
  <2>3. IsFiniteSet(C \cap Preceding[c]) /\ Cardinality(C \cap Preceding[c]) <= N - 1
    BY <2>1, <2>2, FS_Subset
  <2>4. Cardinality(C \cap Preceding[c]) \in Nat
    BY <2>3, FS_CardinalityType
  <2> QED
    BY <1>1, <2>3, <2>4
<1>3. ASSUME NEW c \in C, NEW d \in C, c \in Preceding[d]
      PROVE  rank[c] < rank[d]
  <2> DEFINE P == C \cap Preceding[c]
             Q == C \cap Preceding[d]
  <2>1. P \in SUBSET (Q \ {c}) /\ c \in Q
    BY <1>3, ChangesOrdered
  <2>2. IsFiniteSet(Q) /\ rank[c] = Cardinality(P) /\ rank[d] = Cardinality(Q)
    BY <1>2
  <2> HIDE DEF P, Q
  <2>3. IsFiniteSet(Q \ {c}) /\ Cardinality(Q \ {c}) = Cardinality(Q) - 1
    BY <2>1, <2>2, FS_RemoveElement
  <2>4. Cardinality(P) <= Cardinality(Q) - 1
    BY <2>1, <2>3, FS_Subset
  <2>5. rank[c] \in Nat /\ rank[d] \in Nat
    BY <1>2
  <2> HIDE DEF rank
  <2> QED
    BY <2>2, <2>4, <2>5
<1>4. \A c, d \in C : rank[c] = rank[d] => c = d
  <2> SUFFICES ASSUME NEW c \in C, NEW d \in C, rank[c] = rank[d], c # d PROVE FALSE
    OBVIOUS
  <2>1. c \in Preceding[d] \/ d \in Preceding[c]
    BY ChangesOrdered
  <2>2. rank[c] < rank[d] \/ rank[d] < rank[c]
    BY <1>3, <2>1
  <2>3. rank[c] \in Nat /\ rank[d] \in Nat
    BY <1>2
  <2> HIDE DEF rank
  <2> QED
    BY <2>2, <2>3
<1>5. \A n \in 0..(N - 1) : \E c \in C : rank[c] = n
  <2>1. rank \in [C -> 0..(N - 1)]
    <3>1. rank = [c \in C |-> rank[c]]
      OBVIOUS
    <3> HIDE DEF rank
    <3>2. \A c \in C : rank[c] \in 0..(N - 1)
      <4> TAKE c \in C
      <4>1. rank[c] \in Nat /\ rank[c] < N
        BY <1>2
      <4> QED
        BY ONLY <1>1, <4>1
    <3> QED
      BY <3>1, <3>2
  <2> HIDE DEF rank
  <2>2. rank \in Injection(C, 0..(N - 1))
    BY <1>4, <2>1 DEF Injection, IsInjective
  <2>3. IsFiniteSet(0..(N - 1)) /\ Cardinality(0..(N - 1)) = N
    <3>1. N - 1 \in Int /\ (0 > N - 1 <=> N = 0) /\ (N - 1) - 0 + 1 = N
      BY ONLY <1>1
    <3> QED
      BY ONLY <3>1, FS_Interval
  <2>4. rank \in Surjection(C, 0..(N - 1))
    BY <2>2, <2>3, FS_Injection
  <2> QED
    BY <2>4 DEF Surjection
<1>6. ASSUME NEW n \in 1..N
      PROVE  Sorted(C)[n] \in C /\ rank[Sorted(C)[n]] = n - 1
  <2>1. \E c \in C : rank[c] = n - 1
    <3>1. n - 1 \in 0..(N - 1)
      BY ONLY <1>1, n \in 1..N
    <3> QED
      BY <1>5, <3>1
  <2>2. Sorted(C)[n] = CHOOSE c \in C : Cardinality(C \cap Preceding[c]) = n - 1
    BY DEF Sorted
  <2> QED
    BY <2>1, <2>2
<1>7. Sorted(C) = [n \in 1..N |-> Sorted(C)[n]]
  <2> DEFINE At(n) == CHOOSE c \in C : Cardinality(C \cap Preceding[c]) = n - 1
  <2>1. Sorted(C) = [n \in 1..N |-> At(n)]
    BY DEF Sorted
  <2> HIDE DEF At
  <2> QED
    BY <2>1
<1> HIDE DEF rank
<1>8. Sorted(C) \in [1..N -> C]
  BY <1>6, <1>7
<1>9. \A i, j \in 1..N : Sorted(C)[i] = Sorted(C)[j] => i = j
  BY <1>1, <1>6
<1> QED
  BY <1>1, <1>8, <1>9

LEMMA CandidatesListed ==
  ASSUME NEW C
  PROVE  _validated_candidates(C) = Sorted(C)
<1>1. {Sorted(v) : v \in {C}} = {Sorted(C)}
  OBVIOUS
<1> QED
  BY <1>1, OnlyOne DEF _validated_candidates, Once

-----------------------------------------------------------------------------
(* What the limits let through *)

\* The places of the changes that disturb a pool.
Touching(s, changes, p) ==
  {n \in DOMAIN changes : changes[n].kind \in DESTRUCTIVE /\ p \in _disrupted_pools(s, changes[n])}

Charges == [drains: Nat, replacements: Nat, host_mutations: Nat, pools: [Pool -> Nat]]

\* What is submitted was charged, stays within the budgets, and is there once.
Submitted(s, C, r) ==
  /\ r \in [changes: Seq(C), deferred: SUBSET C, used: Charges]
  /\ \A p \in Pool : Cardinality(Touching(s, r.changes, p)) = r.used.pools[p] /\ r.used.pools[p] <= MaxParallel[p]
  /\ \A i, j \in DOMAIN r.changes : r.changes[i] = r.changes[j] => i = j

LEMMA OneType ==
  ASSUME NEW condition
  PROVE  /\ One(condition) \in Nat /\ One(condition) <= 1
         /\ condition => One(condition) = 1
         /\ ~condition => One(condition) = 0
  BY DEF One

LEMMA ChargeType ==
  ASSUME NEW s, NEW c, NEW used \in Charges
  PROVE  /\ _charge(s, c, used) \in Charges
         /\ \A p \in Pool : _charge(s, c, used).pools[p]
              = used.pools[p] + One(c.kind \in DESTRUCTIVE /\ p \in _disrupted_pools(s, c))
<1> DEFINE d == used.drains + One(IsDrain(c))
           r == used.replacements + One(c.kind = "rollout")
           m == used.host_mutations + One(_host_of(c) # Nothing)
           q == [p \in Pool |-> used.pools[p] + One(c.kind \in DESTRUCTIVE /\ p \in _disrupted_pools(s, c))]
<1>1. d \in Nat /\ r \in Nat /\ m \in Nat
  BY OneType DEF Charges
<1>2. \A p \in Pool : q[p] \in Nat
  BY OneType DEF Charges
<1>3. q \in [Pool -> Nat]
  BY <1>2
<1>4. _charge(s, c, used) = [drains |-> d, replacements |-> r, host_mutations |-> m, pools |-> q]
  BY DEF _charge
<1>5. \A p \in Pool : q[p] = used.pools[p] + One(c.kind \in DESTRUCTIVE /\ p \in _disrupted_pools(s, c))
  OBVIOUS
<1> HIDE DEF d, r, m, q
<1> QED
  BY <1>1, <1>3, <1>4, <1>5 DEF Charges

LEMMA TouchingNext ==
  ASSUME NEW s, NEW C, NEW changes \in Seq(C), NEW c \in C, NEW p,
         IsFiniteSet(Touching(s, changes, p))
  PROVE  /\ IsFiniteSet(Touching(s, Append(changes, c), p))
         /\ Cardinality(Touching(s, Append(changes, c), p))
              = Cardinality(Touching(s, changes, p)) + One(c.kind \in DESTRUCTIVE /\ p \in _disrupted_pools(s, c))
<1> DEFINE N == Len(changes)
           more == Append(changes, c)
           T == Touching(s, changes, p)
<1>1. /\ N \in Nat /\ DOMAIN changes = 1..N /\ DOMAIN more = 1..(N + 1)
      /\ \A n \in 1..N : more[n] = changes[n]
      /\ more[N + 1] = c
  OBVIOUS
<1>2. N + 1 \notin T /\ Cardinality(T) \in Nat
  BY <1>1, FS_CardinalityType DEF Touching
<1> HIDE DEF N, more
<1>3. CASE c.kind \in DESTRUCTIVE /\ p \in _disrupted_pools(s, c)
  <2>1. Touching(s, more, p) = T \cup {N + 1}
    BY <1>1, <1>3 DEF Touching
  <2>2. Cardinality(T \cup {N + 1}) = Cardinality(T) + 1 /\ IsFiniteSet(T \cup {N + 1})
    BY <1>2, FS_AddElement
  <2> QED
    BY <1>3, <2>1, <2>2 DEF One, more
<1>4. CASE ~(c.kind \in DESTRUCTIVE /\ p \in _disrupted_pools(s, c))
  <2>1. Touching(s, more, p) = T
    BY <1>1, <1>4 DEF Touching
  <2> QED
    BY <1>2, <1>4, <2>1 DEF One, more
<1> QED
  BY <1>3, <1>4

LEMMA TouchingFinite ==
  ASSUME NEW s, NEW changes, Len(changes) \in Nat, DOMAIN changes = 1..Len(changes), NEW p
  PROVE  IsFiniteSet(Touching(s, changes, p))
<1>1. IsFiniteSet(1..Len(changes))
  BY FS_Interval
<1>2. Touching(s, changes, p) \in SUBSET (1..Len(changes))
  BY DEF Touching
<1> QED
  BY <1>1, <1>2, FS_Subset

\* What t submits, r did, or it is c.
Extends(t, r, c) ==
  \A i \in DOMAIN t.changes : t.changes[i] = c \/ \E j \in DOMAIN r.changes : t.changes[i] = r.changes[j]

LEMMA DecidedKeeps ==
  ASSUME NEW s, NEW stop, NEW C, NEW r, Submitted(s, C, r), NEW c \in C,
         \A i \in DOMAIN r.changes : r.changes[i] # c
  PROVE  Submitted(s, C, Decided(s, stop, r, c)) /\ Extends(Decided(s, stop, r, c), r, c)
<1> DEFINE t == Decided(s, stop, r, c)
<1>1. CASE _exhausted(s, c, r.used, stop)
  <2>1. t = [r EXCEPT !.deferred = @ \cup {c}]
    BY <1>1 DEF Decided
  <2>2. t.changes = r.changes /\ t.used = r.used /\ t \in [changes: Seq(C), deferred: SUBSET C, used: Charges]
    BY <2>1 DEF Submitted
  <2> HIDE DEF t
  <2> QED
    BY <2>2 DEF Submitted, Extends, t
<1>2. CASE ~_exhausted(s, c, r.used, stop)
  <2> DEFINE more == Append(r.changes, c)
             paid == _charge(s, c, r.used)
  <2>1. t = [changes |-> more, deferred |-> r.deferred, used |-> paid]
    BY <1>2 DEF Decided, Submitted
  <2>2. more \in Seq(C) /\ paid \in Charges
    BY ChargeType DEF Submitted
  <2>3. ASSUME NEW p \in Pool
        PROVE  Cardinality(Touching(s, more, p)) = paid.pools[p] /\ paid.pools[p] <= MaxParallel[p]
    <3> DEFINE one == One(c.kind \in DESTRUCTIVE /\ p \in _disrupted_pools(s, c))
               T == Touching(s, r.changes, p)
    <3>1. r.changes \in Seq(C) /\ Cardinality(T) = r.used.pools[p] /\ r.used.pools[p] <= MaxParallel[p]
          /\ r.used.pools[p] \in Nat
      BY DEF Submitted, Charges
    <3>2. IsFiniteSet(T)
      BY <3>1, TouchingFinite
    <3>3. Cardinality(Touching(s, more, p)) = Cardinality(T) + one
      BY <3>1, <3>2, TouchingNext
    <3>4. paid.pools[p] = r.used.pools[p] + one
      BY ChargeType DEF Submitted
    <3>5. MaxParallel[p] \in Nat
      BY LoopAssumption DEF DisruptionBudget
    <3>6. one \in Nat /\ one <= 1
      BY OneType
    <3>7. one = 0 \/ r.used.pools[p] < MaxParallel[p]
      <4>1. CASE c.kind \in DESTRUCTIVE /\ p \in _disrupted_pools(s, c)
        <5>1. ~(r.used.pools[p] >= MaxParallel[p])
          BY <1>2, <4>1 DEF _exhausted, _budget
        <5> QED
          BY <3>1, <3>5, <5>1
      <4>2. CASE ~(c.kind \in DESTRUCTIVE /\ p \in _disrupted_pools(s, c))
        BY <4>2 DEF One
      <4> QED
        BY <4>1, <4>2
    <3> HIDE DEF one, T, more, paid
    <3> QED
      BY <3>1, <3>3, <3>4, <3>5, <3>6, <3>7
  <2>4. /\ DOMAIN more = 1..(Len(r.changes) + 1) /\ DOMAIN r.changes = 1..Len(r.changes)
        /\ \A i \in 1..Len(r.changes) : more[i] = r.changes[i]
        /\ more[Len(r.changes) + 1] = c /\ Len(r.changes) \in Nat
    BY DEF Submitted
  <2> HIDE DEF more, paid
  <2>5. \A i \in DOMAIN more : i \in DOMAIN r.changes \/ i = Len(r.changes) + 1
    BY <2>4
  <2>6. \A i, j \in DOMAIN more : more[i] = more[j] => i = j
    BY <2>4, <2>5 DEF Submitted
  <2>7. Submitted(s, C, t)
    BY <2>1, <2>2, <2>3, <2>6 DEF Submitted
  <2>8. \A i \in DOMAIN more : more[i] = c \/ \E j \in DOMAIN r.changes : more[i] = r.changes[j]
    BY <2>4, <2>5
  <2> QED
    BY <2>1, <2>7, <2>8 DEF Extends
<1> QED
  BY <1>1, <1>2

\* The result of the limits: a selection of the candidates, within the budgets.
LEMMA WithinLimits ==
  ASSUME NEW s, NEW stop, NEW C \in SUBSET Change, IsFiniteSet(C)
  PROVE  LET batch == bound_candidates(s, C, stop).changes IN
         /\ batch \in Seq(C)
         /\ \A i, j \in DOMAIN batch : batch[i] = batch[j] => i = j
         /\ \A p \in Pool : Cardinality(Touching(s, batch, p)) <= MaxParallel[p]
<1> DEFINE list == _validated_candidates(C)
           N == Cardinality(C)
           first == [changes |-> <<>>, deferred |-> {}, used |-> Unused]
<1>1. /\ N \in Nat /\ list \in [1..N -> C] /\ N = Len(list)
      /\ \A i, j \in 1..N : list[i] = list[j] => i = j
  <2>1. /\ N \in Nat /\ list \in [1..N -> C]
        /\ \A i, j \in 1..N : list[i] = list[j] => i = j
    BY SortedLists, CandidatesListed
  <2> HIDE DEF list, N
  <2> QED
    BY <2>1
<1>2. Submitted(s, C, first) /\ DOMAIN first.changes = {}
  <2>1. Unused \in Charges /\ \A p \in Pool : Unused.pools[p] = 0
    BY DEF Unused, Charges
  <2>2. \A p : Touching(s, <<>>, p) = {}
    BY DEF Touching
  <2>3. \A p \in Pool : MaxParallel[p] \in Nat
    BY LoopAssumption DEF DisruptionBudget
  <2>4. first.changes = <<>> /\ first.used = Unused /\ first \in [changes: Seq(C), deferred: SUBSET C, used: Charges]
    BY <2>1
  <2> HIDE DEF first
  <2>5. DOMAIN first.changes = {}
    BY <2>4
  <2>6. \A p \in Pool : Cardinality(Touching(s, first.changes, p)) = first.used.pools[p] /\ first.used.pools[p] <= MaxParallel[p]
    <3> TAKE p \in Pool
    <3>1. Touching(s, first.changes, p) = {} /\ first.used.pools[p] = 0
      BY <2>1, <2>2, <2>4
    <3> QED
      BY <2>3, <3>1, FS_EmptySet
  <2> QED
    BY <2>4, <2>5, <2>6 DEF Submitted
<1>3. PICK f : Folded(f, N, "bound", s, stop, first, list) /\ bound_candidates(s, C, stop) = f[N]
  <2>1. N \in Nat /\ N = Len(list) /\ list = _validated_candidates(C)
        /\ first = [changes |-> <<>>, deferred |-> {}, used |-> Unused]
    BY <1>1
  <2> HIDE DEF list, N, first
  <2> QED
    BY <2>1, BoundingFolds
<1> HIDE DEF list, N, first
<1> DEFINE Holds(k) == /\ Submitted(s, C, f[k])
                       /\ \A i \in DOMAIN f[k].changes : \E m \in 1..k : f[k].changes[i] = list[m]
           S == {k \in Nat : k <= N => Holds(k)}
<1>4. 0 \in S
  <2>1. f[0] = first
    BY <1>3 DEF Folded
  <2> QED
    BY <1>2, <2>1
<1>5. ASSUME NEW k \in Nat, k \in S PROVE k + 1 \in S
  <2> SUFFICES ASSUME k + 1 <= N PROVE Holds(k + 1)
    OBVIOUS
  <2>1. k <= N /\ k + 1 \in 1..N /\ (k + 1) - 1 = k
    BY <1>1
  <2> DEFINE r == f[k]
             c == list[k + 1]
  <2>2. Holds(k)
    BY <1>5, <2>1
  <2>3. f[k + 1] = Decided(s, stop, r, c) /\ c \in C
    BY <1>1, <1>3, <2>1 DEF Folded, Stepped
  <2>4. \A i \in DOMAIN r.changes : r.changes[i] # c
    <3> SUFFICES ASSUME NEW i \in DOMAIN r.changes, r.changes[i] = c PROVE FALSE
      OBVIOUS
    <3>1. PICK m \in 1..k : c = list[m]
      BY <2>2
    <3>2. m \in 1..N /\ m # k + 1
      BY <1>1, <2>1
    <3> QED
      BY <1>1, <2>1, <3>1, <3>2
  <2>5. \A m \in 1..k : m \in 1..(k + 1)
    OBVIOUS
  <2>6. k + 1 \in 1..(k + 1)
    OBVIOUS
  <2> HIDE DEF c
  <2>7. Submitted(s, C, r)
    BY <2>2
  <2> HIDE DEF r
  <2>8. Submitted(s, C, f[k + 1]) /\ Extends(f[k + 1], r, c)
    BY <2>3, <2>4, <2>7, DecidedKeeps
  <2>9. ASSUME NEW i \in DOMAIN f[k + 1].changes
        PROVE  \E m \in 1..(k + 1) : f[k + 1].changes[i] = list[m]
    <3>1. CASE f[k + 1].changes[i] = c
      BY <2>6, <3>1 DEF c
    <3>2. CASE \E j \in DOMAIN r.changes : f[k + 1].changes[i] = r.changes[j]
      BY <2>2, <2>5, <3>2 DEF r
    <3> QED
      BY <2>8, <3>1, <3>2 DEF Extends
  <2> QED
    BY <2>8, <2>9
<1>6. S = Nat
  <2>1. S \in SUBSET Nat
    OBVIOUS
  <2> HIDE DEF S
  <2> QED
    BY <1>4, <1>5, <2>1, Induction
<1>7. Submitted(s, C, f[N])
  BY <1>1, <1>6
<1>8. \A p \in Pool : f[N].used.pools[p] \in Nat
  BY <1>7 DEF Submitted, Charges
<1> QED
  BY <1>3, <1>7, <1>8 DEF Submitted

-----------------------------------------------------------------------------
(* What is finite *)

LEMMA NamesFinite ==
  /\ IsFiniteSet(Identifier)
  /\ IsFiniteSet(Host) /\ IsFiniteSet(Pool) /\ IsFiniteSet(AssignmentId)
  /\ IsFiniteSet(RolloutId) /\ IsFiniteSet(Image)
<1>1. Order \in Seq(Identifier) /\ \A x \in Identifier : \E n \in DOMAIN Order : Order[n] = x
  BY LoopAssumption
<1>2. Len(Order) \in Nat /\ DOMAIN Order = 1..Len(Order) /\ Order \in [1..Len(Order) -> Identifier]
  BY <1>1
<1>3. Order \in Surjection(1..Len(Order), Identifier)
  BY <1>1, <1>2 DEF Surjection
<1>4. IsFiniteSet(1..Len(Order))
  BY <1>2, FS_Interval
<1>5. IsFiniteSet(Identifier)
  BY <1>3, <1>4, FS_Surjection
<1> QED
  BY <1>5, FS_Subset DEF Identifier

\* The runners a host may have been asked for.
Numbers == UNION {1..Slots[h] : h \in Host}

LEMMA NumbersFinite ==
  IsFiniteSet(Numbers) /\ \A h \in Host : 1..Slots[h] \subseteq Numbers
<1> DEFINE f == [h \in Host |-> 1..Slots[h]]
           S == {1..Slots[h] : h \in Host}
<1>1. f \in Surjection(Host, S)
  BY DEF Surjection
<1>2. IsFiniteSet(S)
  BY <1>1, NamesFinite, FS_Surjection
<1>3. \A T \in S : IsFiniteSet(T)
  <2> TAKE T \in S
  <2>1. PICK h \in Host : T = 1..Slots[h]
    OBVIOUS
  <2>2. Slots[h] \in Int /\ 1 \in Int
    BY FleetAssumption
  <2> QED
    BY <2>1, <2>2, FS_Interval
<1> HIDE DEF f, S
<1>4. IsFiniteSet(UNION S)
  BY <1>2, <1>3, FS_UNION
<1> QED
  BY <1>4 DEF Numbers, S

Runs == SUBSET (Pool \X Numbers)

LEMMA RunsFinite ==
  IsFiniteSet(Pool \X Numbers) /\ \A w \in Runs : IsFiniteSet(w)
<1>1. IsFiniteSet(Pool \X Numbers)
  BY NamesFinite, NumbersFinite, FS_Product
<1> QED
  BY <1>1, FS_Subset DEF Runs

LEMMA WantedType ==
  ASSUME NEW s, NEW h \in Host
  PROVE  Wanted(s, h) \in Runs
<1>1. \A r \in Pool \X (1..Slots[h]) : r \in Pool \X Numbers
  BY NumbersFinite
<1> QED
  BY <1>1 DEF Wanted, Runs

-----------------------------------------------------------------------------
(* The assignments a reconciliation proposes *)

Reported == reports \in [Host -> {Nothing} \cup Runs]

LEMMA MissingType ==
  ASSUME Reported, NEW s, NEW p \in Pool
  PROVE  Missing(s, p) \in Int
<1> DEFINE U == UNION {{h} \X Observed(h, p) : h \in Active(s)}
<1>1. \A h \in Host : Observed(h, p) \in Runs
  BY DEF Observed, Runners, Reporting, Reported, Runs
<1>2. U \in SUBSET (Host \X (Pool \X Numbers))
  BY <1>1 DEF Active, Runs
<1>3. IsFiniteSet(Host \X (Pool \X Numbers))
  BY NamesFinite, RunsFinite, FS_Product
<1> HIDE DEF U
<1>4. Cardinality(U) \in Nat
  BY <1>2, <1>3, FS_Subset, FS_CardinalityType
<1>5. WarmMin[p] \in Nat
  BY LoopAssumption
<1> QED
  BY <1>4, <1>5 DEF Missing, U

LEMMA WantsType ==
  ASSUME Reported, NEW s, NEW p \in Pool, NEW wants \in Seq(Pool)
  PROVE  Wants(s, wants, p) \in Seq(Pool)
<1> DEFINE m == IF Missing(s, p) > 0 THEN Missing(s, p) ELSE 0
<1>1. m \in Nat
  BY MissingType
<1> HIDE DEF m
<1>2. [n \in 1..m |-> p] \in Seq(Pool)
  BY <1>1
<1>3. wants \o [n \in 1..m |-> p] \in Seq(Pool)
  BY <1>2, ConcatProperties
<1> QED
  BY <1>3 DEF Wants, m

LEMMA ShortfallType ==
  ASSUME Reported, NEW s
  PROVE  Shortfall(s) \in Seq(Pool)
<1>1. PICK list : list = PoolOrder
  OBVIOUS
<1>2. PICK N \in Nat : N = Len(list) /\ \A n \in 1..N : list[n] \in Pool
  BY <1>1, LoopAssumption
<1>3. PICK f : Folded(f, N, "want", s, FALSE, <<>>, list) /\ Shortfall(s) = f[N]
  BY <1>1, <1>2, ShortfallFolds
<1> DEFINE S == {k \in Nat : k <= N => f[k] \in Seq(Pool)}
<1>4. 0 \in S
  BY <1>3 DEF Folded
<1>5. ASSUME NEW k \in Nat, k \in S PROVE k + 1 \in S
  <2> SUFFICES ASSUME k + 1 <= N PROVE f[k + 1] \in Seq(Pool)
    OBVIOUS
  <2>1. k <= N /\ k + 1 \in 1..N /\ (k + 1) - 1 = k
    OBVIOUS
  <2>2. f[k + 1] = Wants(s, f[k], list[k + 1])
    BY <1>3, <2>1 DEF Folded, Stepped
  <2>3. f[k] \in Seq(Pool) /\ list[k + 1] \in Pool
    BY <1>2, <1>5, <2>1
  <2> QED
    BY <2>2, <2>3, WantsType
<1>6. S = Nat
  <2>1. S \in SUBSET Nat
    OBVIOUS
  <2> HIDE DEF S
  <2> QED
    BY <1>4, <1>5, <2>1, Induction
<1> QED
  BY <1>3, <1>6

LEMMA AssignsOne ==
  ASSUME NEW s \in DesiredState, NEW c \in Change, c.kind = "assign", NEW at \in Nat,
         s.assignments[c.id].status # "assigned", NEW h \in Host
  PROVE  InUse(with_assignment(s, c, at), h) = InUse(s, h) + One(h = c.host)
<1> DEFINE t == with_assignment(s, c, at)
<1>1. c.id \in AssignmentId /\ c.host \in Host
  BY FleetAssumption DEF Change
<1>2. /\ t.assignments[c.id].status = "assigned" /\ t.assignments[c.id].host = c.host
      /\ \A a \in AssignmentId : a # c.id => t.assignments[a] = s.assignments[a]
  <2>1. /\ t.assignments[c.id] = [status |-> "assigned", host |-> c.host, pool |-> c.pool, issued |-> at]
        /\ \A a \in AssignmentId : a # c.id => t.assignments[a] = s.assignments[a]
    BY Assigns
  <2> HIDE DEF t
  <2> QED
    BY <2>1
<1> HIDE DEF t
<1>3. c.id \notin AssignedTo(s, h) /\ IsFiniteSet(AssignedTo(s, h)) /\ InUse(s, h) \in Nat
  BY InUseType DEF AssignedTo
<1>4. CASE h = c.host
  <2>1. AssignedTo(t, h) = AssignedTo(s, h) \cup {c.id}
    BY <1>1, <1>2, <1>4 DEF AssignedTo
  <2>2. Cardinality(AssignedTo(s, h) \cup {c.id}) = Cardinality(AssignedTo(s, h)) + 1
    BY <1>3, FS_AddElement
  <2> QED
    BY <1>4, <2>1, <2>2 DEF InUse, One, t
<1>5. CASE h # c.host
  <2>1. AssignedTo(t, h) = AssignedTo(s, h)
    BY <1>1, <1>2, <1>3, <1>5 DEF AssignedTo
  <2> QED
    BY <1>3, <1>5, <2>1 DEF InUse, One, t
<1> QED
  BY <1>4, <1>5

\* The candidates that are assigned to a host.
Given(C, h) == {c \in C : c.kind = "assign" /\ c.host = h}

\* An assignment that can be made in s.
Fitting(s, c) ==
  /\ c \in Change /\ c.kind = "assign"
  /\ s.hosts[c.host] = "active" /\ <<c.host, c.pool>> \in Fits
  /\ s.assignments[c.id].status = "none"

\* The working copy has the assignments proposed, within the slots.
Planned(s, r) ==
  /\ r.working \in DesiredState /\ IsFiniteSet(r.candidates)
  /\ \A c \in r.candidates : Fitting(s, c) /\ r.working.assignments[c.id].status = "assigned"
  /\ \A c, d \in r.candidates : c.id = d.id => c = d
  /\ \A a \in AssignmentId : r.working.assignments[a].status = "none" => s.assignments[a].status = "none"
  /\ \A h \in Host :
       /\ InUse(r.working, h) = InUse(s, h) + Cardinality(Given(r.candidates, h))
       /\ Given(r.candidates, h) # {} => InUse(r.working, h) <= Slots[h]

LEMMA GivenNext ==
  ASSUME NEW C, IsFiniteSet(C), NEW c, c \notin C, c.kind = "assign", NEW h
  PROVE  /\ IsFiniteSet(Given(C, h)) /\ Cardinality(Given(C, h)) \in Nat
         /\ Cardinality(Given(C \cup {c}, h)) = Cardinality(Given(C, h)) + One(h = c.host)
         /\ h # c.host => Given(C \cup {c}, h) = Given(C, h)
<1>1. IsFiniteSet(Given(C, h)) /\ Cardinality(Given(C, h)) \in Nat
  BY FS_Subset, FS_CardinalityType DEF Given
<1>2. c \notin Given(C, h)
  BY DEF Given
<1>3. CASE h = c.host
  <2>1. Given(C \cup {c}, h) = Given(C, h) \cup {c}
    BY <1>3 DEF Given
  <2> QED
    BY <1>1, <1>2, <1>3, <2>1, FS_AddElement DEF One
<1>4. CASE h # c.host
  <2>1. Given(C \cup {c}, h) = Given(C, h)
    BY <1>4 DEF Given
  <2> QED
    BY <1>1, <1>4, <2>1 DEF One
<1> QED
  BY <1>1, <1>3, <1>4

LEMMA PlannedNext ==
  ASSUME NEW s \in DesiredState, NEW p \in Pool, NEW r, Planned(s, r)
  PROVE  Planned(s, Placed(s, r, p))
<1>1. CASE Placements(s, r, p) = {}
  BY <1>1 DEF Placed
<1>2. CASE Placements(s, r, p) # {}
  <2> DEFINE c == CHOOSE c \in Placements(s, r, p) : TRUE
             w == r.working
             t == with_assignment(w, c, s.clock)
             C == r.candidates \cup {c}
  <2>1. Placed(s, r, p) = [working |-> t, candidates |-> C]
    BY <1>2 DEF Placed
  <2>2. c \in Placements(s, r, p)
    BY <1>2
  <2> HIDE DEF c
  <2>3. PICK h \in _placement_host(w, s, p), a \in _free_assignment_id(p, w) :
               c = [kind |-> "assign", id |-> a, host |-> h, pool |-> p, image |-> Nothing]
    BY <2>2 DEF Placements
  <2>4. h \in Host /\ s.hosts[h] = "active" /\ <<h, p>> \in Fits /\ Free(w, h) > 0
    BY <2>3 DEF _placement_host, Active, refusal_for
  <2>5. a \in AssignmentId /\ w.assignments[a].status = "none"
    <3>1. PICK n \in DOMAIN RecIds[p] : a = RecIds[p][n] /\ w.assignments[RecIds[p][n]].status = "none"
      BY <2>3 DEF _free_assignment_id
    <3>2. RecIds[p] \in Seq(AssignmentId)
      BY LoopAssumption
    <3> QED
      BY <3>1, <3>2
  <2>6. /\ c \in Change /\ c.kind = "assign" /\ c.host = h /\ c.id = a /\ c.pool = p
    BY <2>3, <2>4, <2>5 DEF Change
  <2>7. w \in DesiredState /\ s.clock \in Nat /\ s.assignments[a].status = "none"
    BY <2>5 DEF Planned, DesiredState
  <2>8. Fitting(s, c)
    BY <2>4, <2>6, <2>7 DEF Fitting
  <2>9. c \notin r.candidates /\ \A d \in r.candidates : d.id # c.id
    BY <2>5, <2>6 DEF Planned
  <2>10. /\ t \in DesiredState /\ t.assignments[a].status = "assigned"
         /\ \A b \in AssignmentId : b # a => t.assignments[b] = w.assignments[b]
    <3> HIDE DEF w
    <3>1. /\ t \in DesiredState
          /\ t.assignments[c.id] = [status |-> "assigned", host |-> c.host, pool |-> c.pool, issued |-> s.clock]
          /\ \A b \in AssignmentId : b # c.id => t.assignments[b] = w.assignments[b]
      BY <2>6, <2>7, Assigns
    <3> HIDE DEF t
    <3> QED
      BY <2>6, <3>1
  <2>11. ASSUME NEW g \in Host
         PROVE  /\ InUse(t, g) = InUse(s, g) + Cardinality(Given(C, g))
                /\ Given(C, g) # {} => InUse(t, g) <= Slots[g]
    <3>1. InUse(t, g) = InUse(w, g) + One(g = h)
      <4>1. w.assignments[c.id].status # "assigned"
        BY <2>5, <2>6
      <4> QED
        BY <2>6, <2>7, <4>1, AssignsOne
    <3>2. /\ InUse(w, g) = InUse(s, g) + Cardinality(Given(r.candidates, g))
          /\ Given(r.candidates, g) # {} => InUse(w, g) <= Slots[g]
      BY DEF Planned
    <3>3. /\ Cardinality(Given(C, g)) = Cardinality(Given(r.candidates, g)) + One(g = h)
          /\ Cardinality(Given(r.candidates, g)) \in Nat
          /\ g # h => Given(C, g) = Given(r.candidates, g)
      BY <2>6, <2>9, GivenNext DEF Planned
    <3>4. InUse(w, g) \in Nat /\ InUse(s, g) \in Nat /\ InUse(w, h) \in Nat
      BY InUseType
    <3>5. Slots[h] \in Nat /\ Slots[g] \in Nat /\ InUse(w, h) < Slots[h]
      BY <2>4, <3>4, FleetAssumption DEF Free
    <3> HIDE DEF t, C, w
    <3>6. CASE g = h
      BY <3>1, <3>2, <3>3, <3>4, <3>5, <3>6 DEF One
    <3>7. CASE g # h
      BY <3>1, <3>2, <3>3, <3>4, <3>7 DEF One
    <3> QED
      BY <3>6, <3>7
  <2>12. IsFiniteSet(C)
    BY FS_AddElement DEF Planned
  <2>13. \A d \in C : Fitting(s, d) /\ t.assignments[d.id].status = "assigned"
    <3> TAKE d \in C
    <3>1. CASE d = c
      BY <2>6, <2>8, <2>10, <3>1
    <3>2. CASE d \in r.candidates
      <4>1. Fitting(s, d) /\ w.assignments[d.id].status = "assigned"
        BY <3>2 DEF Planned
      <4>2. d.id \in AssignmentId /\ d.id # a
        BY <2>6, <2>9, <3>2, <4>1, FleetAssumption DEF Fitting, Change
      <4> QED
        BY <2>10, <4>1, <4>2
    <3> QED
      BY <3>1, <3>2
  <2>14. \A d, e \in C : d.id = e.id => d = e
    BY <2>9 DEF Planned
  <2>15. \A b \in AssignmentId : t.assignments[b].status = "none" => s.assignments[b].status = "none"
    BY <2>7, <2>10 DEF Planned
  <2> HIDE DEF t, C
  <2> QED
    BY <2>1, <2>10, <2>11, <2>12, <2>13, <2>14, <2>15 DEF Planned
<1> QED
  BY <1>1, <1>2

LEMMA AssignmentsPlanned ==
  ASSUME Reported, NEW s \in DesiredState
  PROVE  \E r : Planned(s, r) /\ Assignments(s) = r.candidates
<1>1. PICK list : list = Shortfall(s)
  OBVIOUS
<1>2. PICK N \in Nat : N = Len(list) /\ \A n \in 1..N : list[n] \in Pool
  BY <1>1, ShortfallType
<1>4. PICK f : Folded(f, N, "assign", s, FALSE, Unplanned(s), list) /\ f[N].candidates = Assignments(s)
  <2>1. N = Len(list)
    BY <1>2
  <2>2. \E f : Folded(f, N, "assign", s, FALSE, Unplanned(s), list) /\ f[N].candidates = Assignments(s)
    BY <1>1, <2>1, AssignmentsFold
  <2> QED
    BY <2>2
<1> DEFINE S == {k \in Nat : k <= N => Planned(s, f[k])}
<1>5. 0 \in S
  <2>1. f[0].working = s /\ f[0].candidates = {}
    BY <1>4 DEF Folded, Unplanned
  <2>2. \A h : Given({}, h) = {}
    BY DEF Given
  <2>3. \A h \in Host : InUse(s, h) \in Nat
    BY InUseType
  <2>4. Cardinality({}) = 0 /\ IsFiniteSet({})
    BY FS_EmptySet
  <2>5. Planned(s, f[0])
    BY <2>1, <2>2, <2>3, <2>4 DEF Planned
  <2> QED
    BY <2>5
<1>6. ASSUME NEW k \in Nat, k \in S PROVE k + 1 \in S
  <2> SUFFICES ASSUME k + 1 <= N PROVE Planned(s, f[k + 1])
    OBVIOUS
  <2>1. k <= N /\ k + 1 \in 1..N /\ (k + 1) - 1 = k
    OBVIOUS
  <2>2. f[k + 1] = Placed(s, f[k], list[k + 1])
    BY <1>4, <2>1 DEF Folded, Stepped
  <2>3. Planned(s, f[k]) /\ list[k + 1] \in Pool
    BY <1>2, <1>6, <2>1
  <2> QED
    BY <2>2, <2>3, PlannedNext
<1>7. S = Nat
  <2>1. S \in SUBSET Nat
    OBVIOUS
  <2> HIDE DEF S
  <2> QED
    BY <1>5, <1>6, <2>1, Induction
<1> QED
  BY <1>4, <1>7

-----------------------------------------------------------------------------
(* What is proposed runs *)

\* A drain that can be completed in s.
Completing(s, c) ==
  /\ c \in Change /\ c.kind = "complete_drain"
  /\ s.hosts[c.host] = "draining" /\ InUse(s, c.host) = 0

\* Candidates any selection of which can be made in s, in any order.
Runnable(s, C) ==
  /\ IsFiniteSet(C)
  /\ \A c \in C : Fitting(s, c) \/ Completing(s, c)
  /\ \A c, d \in C : c.kind = "assign" /\ d.kind = "assign" /\ c.id = d.id => c = d
  /\ \A h \in Host : Given(C, h) # {} => InUse(s, h) + Cardinality(Given(C, h)) <= Slots[h]

LEMMA DrainingHosts ==
  ASSUME NEW s \in DesiredState, DrainsAgree(s), NEW h \in Draining(s)
  PROVE  h \in Host /\ s.hosts[h] = "draining"
<1>1. PICK n \in DOMAIN s.drains[h] : h \in Host /\ s.drains[h][n] = "draining"
  BY DEF Draining
<1>2. s.drains[h] \in Seq({"draining", "drained", "ended"})
  BY <1>1 DEF DesiredState, DrainHistory
<1>3. n \in 1..Len(s.drains[h]) /\ Len(s.drains[h]) \in Nat
  BY <1>1, <1>2
<1>4. /\ s.hosts[h] = "active" => s.drains[h][n] = "ended"
      /\ s.hosts[h] # "active" => /\ s.drains[h][Len(s.drains[h])] = s.hosts[h]
                                  /\ n < Len(s.drains[h]) => s.drains[h][n] = "ended"
  BY <1>1 DEF DrainsAgree
<1>5. n = Len(s.drains[h]) \/ n < Len(s.drains[h])
  BY <1>3
<1> QED
  BY <1>1, <1>4, <1>5

LEMMA CandidatesRunnable ==
  ASSUME Reported, NEW s \in DesiredState, DrainsAgree(s)
  PROVE  Runnable(s, Candidates(s)) /\ Candidates(s) \subseteq Change
<1>1. PICK r : Planned(s, r) /\ Assignments(s) = r.candidates
  BY AssignmentsPlanned
<1> DEFINE A == Assignments(s)
           B == Completions(s)
           C == Candidates(s)
<1>2. C = A \cup B
  BY DEF Candidates
<1>3. \A c \in A : Fitting(s, c)
  BY <1>1 DEF Planned
<1>4. ASSUME NEW c \in B
      PROVE  Completing(s, c)
  <2>1. PICK h \in Draining(s) : /\ DrainCompletable(s, h)
                                 /\ c = [kind |-> "complete_drain", id |-> Nothing, host |-> h,
                                         pool |-> Nothing, image |-> Nothing]
    BY DEF Completions
  <2>2. h \in Host /\ s.hosts[h] = "draining"
    BY DrainingHosts
  <2>3. c \in Change /\ c.kind = "complete_drain" /\ c.host = h
    BY <2>1, <2>2 DEF Change
  <2> QED
    BY <2>1, <2>2, <2>3 DEF Completing, DrainCompletable
<1>5. IsFiniteSet(B)
  <2> DEFINE f == [h \in Host |-> [kind |-> "complete_drain", id |-> Nothing, host |-> h, pool |-> Nothing, image |-> Nothing]]
             I == {f[h] : h \in Host}
  <2>1. f \in Surjection(Host, I)
    BY DEF Surjection
  <2>2. IsFiniteSet(I)
    BY <2>1, NamesFinite, FS_Surjection
  <2>3. B \in SUBSET I
    BY DEF Completions, Draining
  <2> QED
    BY <2>2, <2>3, FS_Subset
<1> HIDE DEF A, B, C
<1>6. IsFiniteSet(C)
  BY <1>1, <1>2, <1>5, FS_Union DEF Planned, A
<1>7. \A c \in B : c.kind # "assign"
  BY <1>4 DEF Completing
<1>8. ASSUME NEW h \in Host, Given(C, h) # {}
      PROVE  InUse(s, h) + Cardinality(Given(C, h)) <= Slots[h]
  <2>1. Given(C, h) = Given(A, h)
    BY <1>2, <1>7 DEF Given
  <2> QED
    BY <1>1, <1>8, <2>1 DEF Planned, A
<1>9. \A c, d \in C : c.kind = "assign" /\ d.kind = "assign" /\ c.id = d.id => c = d
  BY <1>1, <1>2, <1>7 DEF Planned, A
<1>10. \A c \in C : Fitting(s, c) \/ Completing(s, c)
  BY <1>2, <1>3, <1>4
<1>11. C \subseteq Change
  BY <1>10 DEF Fitting, Completing
<1> QED
  BY <1>6, <1>8, <1>9, <1>10, <1>11 DEF Runnable, C

\* t is what the candidates of D, made in some order, left of s.
Reached(s, D, t) ==
  /\ t \in DesiredState
  /\ \A a \in AssignmentId : \/ t.assignments[a].status = s.assignments[a].status
                             \/ \E d \in D : d.kind = "assign" /\ d.id = a
  /\ \A h \in Host : t.hosts[h] = s.hosts[h] \/ \E d \in D : d.kind = "complete_drain" /\ d.host = h
  /\ \A h \in Host : InUse(t, h) = InUse(s, h) + Cardinality(Given(D, h))

LEMMA ReachedNext ==
  ASSUME NEW s \in DesiredState, NEW C, Runnable(s, C), NEW D \in SUBSET C, NEW t, Reached(s, D, t),
         NEW c \in C, c \notin D
  PROVE  Possible(t, c, t.clock) /\ Reached(s, D \cup {c}, simulate(t, c, t.clock))
<1>1. t \in DesiredState /\ t.clock \in Nat /\ c \in Change
  BY DEF Reached, DesiredState, Runnable, Fitting, Completing
<1>2. IsFiniteSet(C)
  BY DEF Runnable
<1>3. IsFiniteSet(D)
  BY <1>2, FS_Subset
<1>4. ASSUME NEW h
      PROVE  /\ IsFiniteSet(Given(C, h)) /\ IsFiniteSet(Given(D, h))
             /\ Cardinality(Given(C, h)) \in Nat /\ Cardinality(Given(D, h)) \in Nat
  <2>1. Given(C, h) \in SUBSET C /\ Given(D, h) \in SUBSET D
    BY DEF Given
  <2>2. IsFiniteSet(Given(C, h)) /\ IsFiniteSet(Given(D, h))
    BY <1>2, <1>3, <2>1, FS_Subset
  <2> QED
    BY <2>2, FS_CardinalityType
<1>5. \A h \in Host : InUse(t, h) \in Nat /\ InUse(s, h) \in Nat
  BY InUseType
<1>6. CASE c.kind = "assign"
  <2> DEFINE h == c.host
             u == with_assignment(t, c, t.clock)
  <2>1. Fitting(s, c)
    BY <1>6 DEF Runnable, Completing
  <2>2. c.id \in AssignmentId /\ h \in Host
    BY <1>1, <1>6, FleetAssumption DEF Change
  <2>3. t.assignments[c.id].status = "none"
    BY <1>6, <2>1, <2>2 DEF Reached, Runnable, Fitting
  <2>4. t.hosts[h] = "active"
    <3> SUFFICES ASSUME NEW d \in D, d.kind = "complete_drain", d.host = h PROVE FALSE
      BY <2>1, <2>2 DEF Reached, Fitting
    <3>1. Completing(s, d)
      BY DEF Runnable, Fitting
    <3> QED
      BY <2>1, <3>1 DEF Completing, Fitting
  <2>5. Free(t, h) > 0
    <3>1. c \in Given(C, h) /\ Given(D, h) \in SUBSET (Given(C, h) \ {c})
      BY <1>6 DEF Given
    <3>2. IsFiniteSet(Given(C, h) \ {c}) /\ Cardinality(Given(C, h) \ {c}) = Cardinality(Given(C, h)) - 1
      BY <1>4, <3>1, FS_RemoveElement
    <3>3. Cardinality(Given(D, h)) <= Cardinality(Given(C, h)) - 1
      BY <3>1, <3>2, FS_Subset
    <3>4. Cardinality(Given(C, h)) \in Nat
      BY <1>4
    <3>5. InUse(s, h) + Cardinality(Given(C, h)) <= Slots[h]
      BY <2>2, <3>1 DEF Runnable
    <3>6. InUse(t, h) = InUse(s, h) + Cardinality(Given(D, h))
      BY <2>2 DEF Reached
    <3>7. InUse(t, h) \in Nat /\ InUse(s, h) \in Nat /\ Cardinality(Given(D, h)) \in Nat /\ Slots[h] \in Nat
      BY <1>5, <1>4, <2>2, FleetAssumption
    <3>8. InUse(t, h) < Slots[h]
      BY ONLY <3>3, <3>4, <3>5, <3>6, <3>7
    <3> QED
      BY ONLY <3>7, <3>8 DEF Free
  <2>6. Possible(t, c, t.clock)
    BY <1>6, <2>1, <2>3, <2>4, <2>5 DEF Possible, Assignable, Fitting
  <2>7. simulate(t, c, t.clock) = u
    BY <1>6 DEF simulate
  <2>8. /\ u \in DesiredState /\ u.hosts = t.hosts
        /\ \A a \in AssignmentId : a # c.id => u.assignments[a] = t.assignments[a]
    <3>1. u = with_assignment(t, c, t.clock)
      OBVIOUS
    <3> HIDE DEF h, u
    <3> DEFINE x == [status |-> "assigned", host |-> c.host, pool |-> c.pool, issued |-> t.clock]
    <3>2. /\ u \in DesiredState /\ u.hosts = t.hosts /\ u.assignments[c.id] = x
          /\ \A a \in AssignmentId : a # c.id => u.assignments[a] = t.assignments[a]
      BY <1>1, <1>6, <3>1, Assigns
    <3> QED
      BY <3>2
  <2>9. ASSUME NEW g \in Host
        PROVE  InUse(u, g) = InUse(s, g) + Cardinality(Given(D \cup {c}, g))
    <3>1. InUse(u, g) = InUse(t, g) + One(g = c.host)
      BY <1>1, <1>6, <2>3, AssignsOne
    <3>2. Cardinality(Given(D \cup {c}, g)) = Cardinality(Given(D, g)) + One(g = c.host)
      BY <1>6, <1>3, GivenNext
    <3>3. InUse(t, g) = InUse(s, g) + Cardinality(Given(D, g))
      BY DEF Reached
    <3>4. InUse(s, g) \in Nat /\ Cardinality(Given(D, g)) \in Nat /\ One(g = c.host) \in Nat
      BY <1>5, <1>4, OneType
    <3> QED
      BY ONLY <3>1, <3>2, <3>3, <3>4
  <2> HIDE DEF u
  <2>10. ASSUME NEW a \in AssignmentId
         PROVE  \/ u.assignments[a].status = s.assignments[a].status
                \/ \E d \in D \cup {c} : d.kind = "assign" /\ d.id = a
    <3>1. CASE a = c.id
      BY <1>6, <3>1
    <3>2. CASE a # c.id
      BY <2>8, <3>2 DEF Reached
    <3> QED
      BY <3>1, <3>2
  <2>11. \A g \in Host : u.hosts[g] = s.hosts[g] \/ \E d \in D \cup {c} : d.kind = "complete_drain" /\ d.host = g
    BY <2>8 DEF Reached
  <2>12. Reached(s, D \cup {c}, u)
    BY <2>8, <2>9, <2>10, <2>11 DEF Reached
  <2> QED
    BY <2>6, <2>7, <2>12
<1>7. CASE c.kind = "complete_drain"
  <2> DEFINE h == c.host
             u == with_drain_complete(t, c, t.clock)
  <2>1. Completing(s, c) /\ h \in Host
    BY <1>7, FleetAssumption DEF Runnable, Fitting, Completing, Change
  <2>2. t.hosts[h] = "draining"
    <3> SUFFICES ASSUME NEW d \in D, d.kind = "complete_drain", d.host = h PROVE FALSE
      BY <2>1 DEF Reached, Completing
    <3>1. d \in Change
      BY DEF Runnable, Fitting, Completing
    <3>2. d = c
      BY <1>1, <1>7, <3>1 DEF Change
    <3> QED
      BY <3>2
  <2>3. Given(D, h) = {}
    BY <2>1 DEF Given, Runnable, Fitting, Completing
  <2>4. InUse(t, h) = 0
    <3>1. InUse(t, h) = InUse(s, h) + Cardinality(Given(D, h)) /\ InUse(s, h) = 0
      BY <2>1 DEF Reached, Completing
    <3>2. Cardinality(Given(D, h)) = 0
      BY <2>3, FS_EmptySet
    <3> QED
      BY ONLY <3>1, <3>2
  <2>5. Possible(t, c, t.clock)
    BY <1>7, <2>2, <2>4 DEF Possible, Completable
  <2>6. simulate(t, c, t.clock) = u
    BY <1>7 DEF simulate
  <2>7. /\ u \in DesiredState /\ u.assignments = t.assignments
        /\ \A g \in Host : g # c.host => u.hosts[g] = t.hosts[g]
    BY <1>1, <1>7, Completes
  <2>8. \A g : Given(D \cup {c}, g) = Given(D, g)
    BY <1>7 DEF Given
  <2>9. \A g \in Host : InUse(u, g) = InUse(t, g)
    BY <2>7 DEF InUse, AssignedTo
  <2> HIDE DEF u
  <2>10. /\ \A g \in Host : u.hosts[g] = s.hosts[g]
                                \/ \E d \in D \cup {c} : d.kind = "complete_drain" /\ d.host = g
         /\ \A a \in AssignmentId : u.assignments[a].status = s.assignments[a].status
                                       \/ \E d \in D \cup {c} : d.kind = "assign" /\ d.id = a
    BY <1>7, <2>7 DEF Reached
  <2>11. \A g \in Host : InUse(u, g) = InUse(s, g) + Cardinality(Given(D \cup {c}, g))
    BY <2>8, <2>9 DEF Reached
  <2>12. Reached(s, D \cup {c}, u)
    BY <2>7, <2>10, <2>11 DEF Reached
  <2> QED
    BY <2>5, <2>6, <2>12
<1> QED
  BY <1>6, <1>7 DEF Runnable, Fitting, Completing

\* The changes at the first k places.
FirstOf(batch, k) == {batch[n] : n \in 1..k}

\* Any selection of what is runnable runs, in any order.
LEMMA RunFits ==
  ASSUME NEW s \in DesiredState, NEW C, Runnable(s, C), NEW batch \in Seq(C),
         \A i, j \in DOMAIN batch : batch[i] = batch[j] => i = j
  PROVE  Run(s, batch, Nothing) # Nothing
<1> DEFINE N == Len(batch)
<1>1. N \in Nat /\ DOMAIN batch = 1..N /\ \A n \in 1..N : batch[n] \in C
  OBVIOUS
<1>2. PICK f : Running(f, N, s, batch, Nothing) /\ Run(s, batch, Nothing) = f[N]
  BY <1>1, RunIsRunning
<1>3. Nothing \notin DesiredState
  BY FleetAssumption
<1> HIDE DEF N
<1> DEFINE D(k) == FirstOf(batch, k)
           S == {k \in Nat : k <= N => Reached(s, D(k), f[k])}
<1>4. 0 \in S
  <2>1. f[0] = s /\ D(0) = {}
    BY <1>2 DEF Running, FirstOf
  <2>2. \A h : Given({}, h) = {}
    BY DEF Given
  <2>3. \A h \in Host : InUse(s, h) \in Nat
    BY InUseType
  <2>4. \A h \in Host : InUse(s, h) = InUse(s, h) + Cardinality(Given({}, h))
    <3> TAKE h \in Host
    <3>1. Cardinality(Given({}, h)) = 0
      BY <2>2, FS_EmptySet
    <3>2. InUse(s, h) \in Nat
      BY <2>3
    <3> QED
      BY ONLY <3>1, <3>2
  <2>5. Reached(s, {}, s)
    BY <2>4 DEF Reached
  <2> QED
    BY <2>1, <2>5
<1>5. ASSUME NEW k \in Nat, k \in S PROVE k + 1 \in S
  <2> SUFFICES ASSUME k + 1 <= N PROVE Reached(s, D(k + 1), f[k + 1])
    OBVIOUS
  <2>1. k <= N /\ k + 1 \in 1..N /\ (k + 1) - 1 = k
    BY <1>1
  <2> DEFINE t == f[k]
             c == batch[k + 1]
  <2>2. Reached(s, D(k), t)
    BY <1>5, <2>1
  <2>3. c \in C
    BY <1>1, <2>1
  <2>4. D(k) \in SUBSET C
    BY <1>1, <2>1 DEF FirstOf
  <2>5. c \notin D(k)
    BY <1>1, <2>1 DEF FirstOf
  <2>6. D(k + 1) = D(k) \cup {c}
    <3>1. \A n : n \in 1..(k + 1) <=> n \in 1..k \/ n = k + 1
      OBVIOUS
    <3> QED
      BY <3>1 DEF FirstOf
  <2>7. f[k + 1] = Made(t, c, Nothing)
    BY <1>2, <2>1 DEF Running
  <2> HIDE DEF t, c, D
  <2>8. Possible(t, c, t.clock) /\ Reached(s, D(k) \cup {c}, simulate(t, c, t.clock))
    BY <2>2, <2>3, <2>4, <2>5, ReachedNext
  <2>9. t # Nothing
    BY <1>3, <2>2 DEF Reached
  <2>10. f[k + 1] = simulate(t, c, t.clock)
    BY <2>7, <2>8, <2>9 DEF Made
  <2> QED
    BY <2>6, <2>8, <2>10
<1>6. S = Nat
  <2>1. S \in SUBSET Nat
    OBVIOUS
  <2> HIDE DEF S
  <2> QED
    BY <1>4, <1>5, <2>1, Induction
<1>7. Reached(s, D(N), f[N])
  BY <1>1, <1>6
<1> QED
  BY <1>2, <1>3, <1>7 DEF Reached

\* What one change makes of a state, if it can be made.
LEMMA MadeGoesForward ==
  ASSUME NEW t, t # Nothing => t \in DesiredState, NEW c \in Change, Made(t, c, Nothing) # Nothing
  PROVE  /\ t \in DesiredState /\ t.clock \in Nat /\ Possible(t, c, t.clock)
         /\ Made(t, c, Nothing) = simulate(t, c, t.clock)
         /\ Made(t, c, Nothing) \in DesiredState /\ Made(t, c, Nothing).revision = t.revision + 1
         /\ DrainsAgree(t) => DrainsAgree(Made(t, c, Nothing))
<1>1. /\ t # Nothing /\ Possible(t, c, t.clock)
      /\ Made(t, c, Nothing) = simulate(t, c, t.clock)
  BY DEF Made
<1>2. t \in DesiredState /\ t.clock \in Nat
  BY <1>1 DEF DesiredState
<1> QED
  BY <1>1, <1>2, SimulateType, DrainsKeptByChange

\* A list of changes that runs goes forward by its length.
LEMMA RunGoesForward ==
  ASSUME NEW s \in DesiredState, DrainsAgree(s), NEW changes \in Seq(Change), Run(s, changes, Nothing) # Nothing
  PROVE  LET t == Run(s, changes, Nothing) IN
         t \in DesiredState /\ DrainsAgree(t) /\ t.revision >= s.revision /\ (t.revision = s.revision => t = s)
<1> DEFINE N == Len(changes)
<1>1. N \in Nat /\ \A n \in 1..N : changes[n] \in Change
  OBVIOUS
<1>2. PICK f : Running(f, N, s, changes, Nothing) /\ Run(s, changes, Nothing) = f[N]
  BY <1>1, RunIsRunning
<1> HIDE DEF N
<1> DEFINE Forward(k) == f[k] \in DesiredState /\ DrainsAgree(f[k]) /\ f[k].revision = s.revision + k
           S == {k \in Nat : k <= N /\ f[k] # Nothing => Forward(k)}
<1>3. 0 \in S
  <2>1. f[0] = s /\ s.revision \in Nat
    BY <1>2 DEF Running, DesiredState
  <2> QED
    BY <2>1
<1>4. ASSUME NEW k \in Nat, k \in S PROVE k + 1 \in S
  <2> SUFFICES ASSUME k + 1 <= N, f[k + 1] # Nothing
               PROVE  Forward(k + 1)
    OBVIOUS
  <2>1. k <= N /\ k + 1 \in 1..N /\ (k + 1) - 1 = k
    BY <1>1
  <2> DEFINE t == f[k]
             c == changes[k + 1]
  <2>2. f[k + 1] = Made(t, c, Nothing) /\ c \in Change
    BY <1>1, <1>2, <2>1 DEF Running
  <2>3. t # Nothing => t \in DesiredState /\ DrainsAgree(t) /\ t.revision = s.revision + k
    BY <1>4, <2>1
  <2> HIDE DEF t, c
  <2>4. /\ t \in DesiredState /\ f[k + 1] \in DesiredState /\ f[k + 1].revision = t.revision + 1
        /\ DrainsAgree(t) => DrainsAgree(f[k + 1])
    BY <2>2, <2>3, MadeGoesForward
  <2>5. t # Nothing /\ s.revision \in Nat
    BY <2>4, FleetAssumption DEF DesiredState
  <2> QED
    BY <2>3, <2>4, <2>5
<1>5. S = Nat
  <2>1. S \in SUBSET Nat
    OBVIOUS
  <2> HIDE DEF S
  <2> QED
    BY <1>3, <1>4, <2>1, Induction
<1>6. Forward(N) /\ s.revision \in Nat
  <2>1. N \in S
    BY <1>1, <1>5
  <2>2. Forward(N)
    BY <1>1, <1>2, <2>1
  <2>3. s.revision \in Nat
    BY DEF DesiredState
  <2> QED
    BY <2>2, <2>3
<1>7. N = 0 => f[N] = s
  BY <1>2 DEF Running
<1> QED
  BY <1>1, <1>2, <1>6, <1>7

LEMMA AppliedGoesForward ==
  ASSUME state \in DesiredState, DrainsAgree(state), NEW batch
  PROVE  /\ Applied(batch) \in DesiredState /\ DrainsAgree(Applied(batch))
         /\ Applied(batch).revision >= state.revision
         /\ Applied(batch).revision = state.revision => Applied(batch) = state
<1>1. PICK s : s = state
  OBVIOUS
<1>2. s.revision \in Nat
  BY <1>1 DEF DesiredState
<1> DEFINE runs == batch.changes \in Seq(Change) /\ Run(s, batch.changes, Nothing) # Nothing
<1>3. CASE runs
  <2> DEFINE t == Run(s, batch.changes, Nothing)
  <2>1. t \in DesiredState /\ DrainsAgree(t) /\ t.revision >= s.revision /\ (t.revision = s.revision => t = s)
    BY <1>1, <1>3, RunGoesForward
  <2>2. Applied(batch) = t \/ Applied(batch) = s
    BY <1>1 DEF Applied
  <2> HIDE DEF t
  <2> QED
    BY <1>1, <1>2, <2>1, <2>2
<1>4. CASE ~runs
  <2>1. Applied(batch) = s
    BY <1>1, <1>4 DEF Applied
  <2> QED
    BY <1>1, <1>2, <2>1
<1> QED
  BY <1>3, <1>4

-----------------------------------------------------------------------------
(* What a run takes from a pool *)

\* What one change touches: a host it takes out of service, an assignment it
\* releases, a pool whose image it replaces.
Leaves(t, c, u) ==
  /\ \A h \in Host : u.hosts[h] \in {t.hosts[h], "active"} \/ (IsDrain(c) /\ c.host = h)
  /\ \A a \in AssignmentId : u.assignments[a].status \in {t.assignments[a].status, "assigned"}
                               \/ (c.kind = "release" /\ c.id = a)
  /\ \A p \in Pool : u.images[p] = t.images[p] \/ (c.kind = "rollout" /\ c.pool = p)

LEMMA ChangeLeaves ==
  ASSUME NEW t \in DesiredState, NEW c \in Change, NEW at \in Nat
  PROVE  Leaves(t, c, simulate(t, c, at))
<1> DEFINE u == simulate(t, c, at)
<1>1. CASE c.kind = "assign"
  <2>1. /\ u.hosts = t.hosts /\ u.images = t.images
        /\ u.assignments[c.id] = [status |-> "assigned", host |-> c.host, pool |-> c.pool, issued |-> at]
        /\ \A a \in AssignmentId : a # c.id => u.assignments[a] = t.assignments[a]
    BY <1>1, Assigns DEF simulate
  <2> HIDE DEF u
  <2> QED
    BY <2>1 DEF Leaves, u
<1>2. CASE c.kind = "release"
  <2>1. /\ u.hosts = t.hosts /\ u.images = t.images
        /\ \A a \in AssignmentId : a # c.id => u.assignments[a] = t.assignments[a]
    <3>1. u = with_release(t, c, at)
      BY <1>2 DEF simulate
    <3> DEFINE x == t.assignments[c.id]
    <3> HIDE DEF u
    <3>2. /\ u.hosts = t.hosts /\ u.images = t.images /\ u.assignments[c.id] = [x EXCEPT !.status = "released"]
          /\ \A a \in AssignmentId : a # c.id => u.assignments[a] = t.assignments[a]
      BY <1>2, <3>1, Releases
    <3> HIDE DEF x
    <3> QED
      BY <3>2
  <2> HIDE DEF u
  <2> QED
    BY <1>2, <2>1 DEF Leaves, u
<1>3. CASE c.kind = "drain"
  <2>1. /\ u.images = t.images /\ u.assignments = t.assignments
        /\ \A g \in Host : g # c.host => u.hosts[g] = t.hosts[g]
    BY <1>3, Drains DEF simulate
  <2> HIDE DEF u
  <2> QED
    BY <1>3, <2>1 DEF Leaves, IsDrain, u
<1>4. CASE c.kind = "complete_drain"
  <2>1. /\ u.images = t.images /\ u.assignments = t.assignments
        /\ \A g \in Host : g # c.host => u.hosts[g] = t.hosts[g]
    BY <1>4, Completes DEF simulate
  <2> HIDE DEF u
  <2> QED
    BY <1>4, <2>1 DEF Leaves, IsDrain, u
<1>5. CASE c.kind = "return_to_service"
  <2>1. /\ u.images = t.images /\ u.assignments = t.assignments
        /\ u.hosts[c.host] = "active"
        /\ \A g \in Host : g # c.host => u.hosts[g] = t.hosts[g]
    BY <1>5, Returns DEF simulate
  <2> HIDE DEF u
  <2> QED
    BY <2>1 DEF Leaves, u
<1>6. CASE c.kind = "rollout"
  <2> DEFINE x == [image |-> c.image, rollback |-> t.images[c.pool].image, revision |-> t.images[c.pool].revision + 1]
  <2>1. /\ u.hosts = t.hosts /\ u.assignments = t.assignments
        /\ u.images = [t.images EXCEPT ![c.pool] = x]
    BY <1>6, RollsOut DEF simulate
  <2>2. t.images \in [Pool -> PoolImage]
    BY DEF DesiredState
  <2> HIDE DEF u, x
  <2> QED
    BY <1>6, <2>1, <2>2 DEF Leaves, u
<1> QED
  BY <1>1, <1>2, <1>3, <1>4, <1>5, <1>6 DEF Change

\* What is disturbed in u but was not in s, one of the first k changes disturbed.
Disturbed(s, changes, k, u) ==
  /\ \A h \in Host : u.hosts[h] \in {s.hosts[h], "active"}
                       \/ \E n \in 1..k : IsDrain(changes[n]) /\ changes[n].host = h
  /\ \A a \in AssignmentId : u.assignments[a].status \in {s.assignments[a].status, "assigned"}
                               \/ \E n \in 1..k : changes[n].kind = "release" /\ changes[n].id = a
  /\ \A p \in Pool : u.images[p] = s.images[p]
                       \/ \E n \in 1..k : changes[n].kind = "rollout" /\ changes[n].pool = p

LEMMA DisturbedNext ==
  ASSUME NEW s, NEW changes, NEW k \in Nat, NEW t, Disturbed(s, changes, k, t), NEW u, Leaves(t, changes[k + 1], u)
  PROVE  Disturbed(s, changes, k + 1, u)
<1> DEFINE c == changes[k + 1]
<1>1. k + 1 \in 1..(k + 1) /\ \A n \in 1..k : n \in 1..(k + 1)
  OBVIOUS
<1>2. \A h \in Host : u.hosts[h] \in {s.hosts[h], "active"}
                        \/ \E n \in 1..(k + 1) : IsDrain(changes[n]) /\ changes[n].host = h
  BY <1>1 DEF Disturbed, Leaves
<1>3. \A a \in AssignmentId : u.assignments[a].status \in {s.assignments[a].status, "assigned"}
                                \/ \E n \in 1..(k + 1) : changes[n].kind = "release" /\ changes[n].id = a
  BY <1>1 DEF Disturbed, Leaves
<1>4. \A p \in Pool : u.images[p] = s.images[p]
                        \/ \E n \in 1..(k + 1) : changes[n].kind = "rollout" /\ changes[n].pool = p
  BY <1>1 DEF Disturbed, Leaves
<1> QED
  BY <1>2, <1>3, <1>4 DEF Disturbed

LEMMA RunDisturbs ==
  ASSUME NEW s \in DesiredState, NEW changes \in Seq(Change), Run(s, changes, Nothing) # Nothing
  PROVE  Disturbed(s, changes, Len(changes), Run(s, changes, Nothing))
<1> DEFINE N == Len(changes)
<1>1. N \in Nat /\ \A n \in 1..N : changes[n] \in Change
  OBVIOUS
<1>2. PICK f : Running(f, N, s, changes, Nothing) /\ Run(s, changes, Nothing) = f[N]
  BY <1>1, RunIsRunning
<1> HIDE DEF N
<1> DEFINE Holds(k) == f[k] \in DesiredState /\ Disturbed(s, changes, k, f[k])
           S == {k \in Nat : k <= N /\ f[k] # Nothing => Holds(k)}
<1>3. 0 \in S
  <2>1. f[0] = s
    BY <1>2 DEF Running
  <2>2. Disturbed(s, changes, 0, s)
    BY DEF Disturbed
  <2> QED
    BY <2>1, <2>2
<1>4. ASSUME NEW k \in Nat, k \in S PROVE k + 1 \in S
  <2> SUFFICES ASSUME k + 1 <= N, f[k + 1] # Nothing
               PROVE  Holds(k + 1)
    OBVIOUS
  <2>1. k <= N /\ k + 1 \in 1..N /\ (k + 1) - 1 = k
    BY <1>1
  <2> DEFINE t == f[k]
             c == changes[k + 1]
  <2>2. f[k + 1] = Made(t, c, Nothing) /\ c \in Change
    BY <1>1, <1>2, <2>1 DEF Running
  <2>3. t # Nothing => t \in DesiredState /\ Disturbed(s, changes, k, t)
    BY <1>4, <2>1
  <2> HIDE DEF t, c
  <2>4. /\ t \in DesiredState /\ t.clock \in Nat /\ f[k + 1] \in DesiredState
        /\ f[k + 1] = simulate(t, c, t.clock)
    BY <2>2, <2>3, MadeGoesForward
  <2>5. t # Nothing
    BY <2>4, FleetAssumption
  <2>6. Leaves(t, c, f[k + 1])
    BY <2>2, <2>4, ChangeLeaves
  <2>7. Disturbed(s, changes, k + 1, f[k + 1])
    BY <2>3, <2>5, <2>6, DisturbedNext DEF c
  <2> QED
    BY <2>4, <2>7
<1>5. S = Nat
  <2>1. S \in SUBSET Nat
    OBVIOUS
  <2> HIDE DEF S
  <2> QED
    BY <1>3, <1>4, <2>1, Induction
<1> QED
  BY <1>1, <1>2, <1>5 DEF N

LEMMA ImageSize ==
  ASSUME NEW S, IsFiniteSet(S), NEW f, NEW T, \A x \in T : \E n \in S : f[n] = x
  PROVE  Cardinality(T) \in Nat /\ Cardinality(T) <= Cardinality(S)
<1> DEFINE g == [n \in S |-> f[n]]
           I == {f[n] : n \in S}
<1>1. g \in Surjection(S, I)
  BY DEF Surjection
<1>2. IsFiniteSet(I) /\ Cardinality(I) <= Cardinality(S)
  BY <1>1, FS_Surjection
<1>3. T \in SUBSET I
  OBVIOUS
<1> HIDE DEF I
<1>4. IsFiniteSet(T) /\ Cardinality(T) <= Cardinality(I)
  BY <1>2, <1>3, FS_Subset
<1>5. Cardinality(T) \in Nat /\ Cardinality(I) \in Nat /\ Cardinality(S) \in Nat
  BY <1>2, <1>4, FS_CardinalityType
<1> QED
  BY <1>2, <1>4, <1>5

LEMMA ThreeParts ==
  ASSUME NEW S, IsFiniteSet(S), NEW A \in SUBSET S, NEW B \in SUBSET S, NEW C \in SUBSET S,
         A \cap B = {}, A \cap C = {}, B \cap C = {}
  PROVE  /\ IsFiniteSet(A) /\ IsFiniteSet(B) /\ IsFiniteSet(C)
         /\ Cardinality(A) \in Nat /\ Cardinality(B) \in Nat /\ Cardinality(C) \in Nat /\ Cardinality(S) \in Nat
         /\ Cardinality(A) + Cardinality(B) + Cardinality(C) <= Cardinality(S)
<1>1. IsFiniteSet(A) /\ IsFiniteSet(B) /\ IsFiniteSet(C)
  BY FS_Subset
<1> DEFINE U == A \cup B
           V == U \cup C
<1>2. IsFiniteSet(U) /\ Cardinality(U) = Cardinality(A) + Cardinality(B) - Cardinality(A \cap B)
  BY <1>1, FS_Union
<1>3. U \cap C = {}
  OBVIOUS
<1>4. V \in SUBSET S
  OBVIOUS
<1> HIDE DEF U
<1>5. IsFiniteSet(V) /\ Cardinality(V) = Cardinality(U) + Cardinality(C) - Cardinality(U \cap C)
  BY <1>1, <1>2, FS_Union
<1> HIDE DEF V
<1>6. Cardinality(V) <= Cardinality(S)
  BY <1>4, FS_Subset
<1>7. Cardinality(A \cap B) = 0 /\ Cardinality(U \cap C) = 0
  BY <1>3, FS_EmptySet
<1>8. Cardinality(A) \in Nat /\ Cardinality(B) \in Nat /\ Cardinality(C) \in Nat /\ Cardinality(S) \in Nat
  BY <1>1, FS_CardinalityType
<1> QED
  BY <1>1, <1>2, <1>5, <1>6, <1>7, <1>8

\* What a pool loses from s to t.
Lost(s, t, p) ==
  Cardinality({h \in Host : p \in AllowedPools[h] /\ t.hosts[h] # s.hosts[h] /\ t.hosts[h] # "active"})
    + Cardinality({a \in AssignmentId : /\ s.assignments[a].status = "assigned"
                                        /\ s.assignments[a].pool = p
                                        /\ t.assignments[a].status = "released"})
    + One(t.images[p] # s.images[p])

LEMMA LostType ==
  ASSUME NEW s, NEW t, NEW p
  PROVE  /\ Lost(s, t, p) \in Nat
         /\ s = t => Lost(s, t, p) = 0
<1> DEFINE H == {h \in Host : p \in AllowedPools[h] /\ t.hosts[h] # s.hosts[h] /\ t.hosts[h] # "active"}
           A == {a \in AssignmentId : /\ s.assignments[a].status = "assigned"
                                      /\ s.assignments[a].pool = p
                                      /\ t.assignments[a].status = "released"}
           one == One(t.images[p] # s.images[p])
<1>1. H \in SUBSET Host /\ A \in SUBSET AssignmentId
  OBVIOUS
<1>2. s = t => H = {} /\ A = {} /\ one = 0
  BY DEF One
<1>3. one \in Nat
  BY OneType
<1>4. Lost(s, t, p) = Cardinality(H) + Cardinality(A) + one
  BY DEF Lost
<1> HIDE DEF H, A, one
<1>5. Cardinality(H) \in Nat /\ Cardinality(A) \in Nat
  BY <1>1, NamesFinite, FS_Subset, FS_CardinalityType
<1>6. Cardinality({}) = 0
  BY FS_EmptySet
<1> QED
  BY <1>2, <1>3, <1>4, <1>5, <1>6

\* What a run takes from a pool, its changes were charged to the pool for.
LEMMA DisruptionCounted ==
  ASSUME NEW s \in DesiredState, NEW changes \in Seq(Change), NEW t, Disturbed(s, changes, Len(changes), t), NEW p \in Pool
  PROVE  Lost(s, t, p) <= Cardinality(Touching(s, changes, p))
<1> DEFINE N == Len(changes)
           T == Touching(s, changes, p)
           D == {n \in T : IsDrain(changes[n])}
           R == {n \in T : changes[n].kind = "release"}
           O == {n \in T : changes[n].kind = "rollout"}
           hosts == {h \in Host : p \in AllowedPools[h] /\ t.hosts[h] # s.hosts[h] /\ t.hosts[h] # "active"}
           released == {a \in AssignmentId : /\ s.assignments[a].status = "assigned"
                                             /\ s.assignments[a].pool = p
                                             /\ t.assignments[a].status = "released"}
           rolled == {x \in {p} : t.images[p] # s.images[p]}
           host == [n \in 1..N |-> changes[n].host]
           id == [n \in 1..N |-> changes[n].id]
           pool == [n \in 1..N |-> changes[n].pool]
<1>1. N \in Nat /\ DOMAIN changes = 1..N /\ \A n \in 1..N : changes[n] \in Change
  OBVIOUS
<1>2. IsFiniteSet(T) /\ T \subseteq 1..N
  BY <1>1, TouchingFinite DEF Touching
<1>3. \A n \in 1..N : host[n] = changes[n].host /\ id[n] = changes[n].id /\ pool[n] = changes[n].pool
  OBVIOUS
<1> HIDE DEF N, host, id, pool
<1>4. \A h \in hosts : \E n \in D : host[n] = h
  <2> TAKE h \in hosts
  <2>1. PICK n \in 1..N : IsDrain(changes[n]) /\ changes[n].host = h
    BY DEF Disturbed, N
  <2>2. changes[n].kind \in DESTRUCTIVE /\ _disrupted_pools(s, changes[n]) = AllowedPools[h]
    BY <2>1 DEF IsDrain, DESTRUCTIVE, _disrupted_pools
  <2>3. n \in D
    BY <1>1, <2>1, <2>2 DEF Touching
  <2> QED
    BY <1>3, <2>1, <2>3
<1>5. \A a \in released : \E n \in R : id[n] = a
  <2> TAKE a \in released
  <2>1. PICK n \in 1..N : changes[n].kind = "release" /\ changes[n].id = a
    BY DEF Disturbed, N
  <2>2. changes[n].kind \in DESTRUCTIVE /\ _disrupted_pools(s, changes[n]) = {s.assignments[a].pool}
    BY <2>1 DEF DESTRUCTIVE, _disrupted_pools
  <2>3. n \in R
    BY <1>1, <2>1, <2>2 DEF Touching
  <2> QED
    BY <1>3, <2>1, <2>3
<1>6. \A x \in rolled : \E n \in O : pool[n] = x
  <2> TAKE x \in rolled
  <2>1. PICK n \in 1..N : changes[n].kind = "rollout" /\ changes[n].pool = p
    BY DEF Disturbed, N
  <2>2. changes[n].kind \in DESTRUCTIVE /\ _disrupted_pools(s, changes[n]) = {p}
    BY <2>1 DEF DESTRUCTIVE, _disrupted_pools
  <2>3. n \in O
    BY <1>1, <2>1, <2>2 DEF Touching
  <2> QED
    BY <1>3, <2>1, <2>3
<1>7. D \in SUBSET T /\ R \in SUBSET T /\ O \in SUBSET T /\ D \cap R = {} /\ D \cap O = {} /\ R \cap O = {}
  BY DEF IsDrain
<1>8. One(t.images[p] # s.images[p]) = Cardinality(rolled)
  <2>1. CASE t.images[p] # s.images[p]
    <3>1. rolled = {p}
      BY <2>1
    <3> QED
      BY <2>1, <3>1, FS_Singleton DEF One
  <2>2. CASE t.images[p] = s.images[p]
    <3>1. rolled = {}
      BY <2>2
    <3> QED
      BY <2>2, <3>1, FS_EmptySet DEF One
  <2> QED
    BY <2>1, <2>2
<1> HIDE DEF T, D, R, O, hosts, released, rolled
<1>9. /\ IsFiniteSet(D) /\ IsFiniteSet(R) /\ IsFiniteSet(O)
      /\ Cardinality(D) \in Nat /\ Cardinality(R) \in Nat /\ Cardinality(O) \in Nat /\ Cardinality(T) \in Nat
      /\ Cardinality(D) + Cardinality(R) + Cardinality(O) <= Cardinality(T)
  BY <1>2, <1>7, ThreeParts
<1>10. Cardinality(hosts) \in Nat /\ Cardinality(hosts) <= Cardinality(D)
  BY <1>4, <1>9, ImageSize
<1>11. Cardinality(released) \in Nat /\ Cardinality(released) <= Cardinality(R)
  BY <1>5, <1>9, ImageSize
<1>12. Cardinality(rolled) \in Nat /\ Cardinality(rolled) <= Cardinality(O)
  BY <1>6, <1>9, ImageSize
<1>13. Cardinality(hosts) + Cardinality(released) + Cardinality(rolled) <= Cardinality(T)
  BY ONLY <1>9, <1>10, <1>11, <1>12
<1> QED
  BY <1>8, <1>13 DEF Lost, hosts, released, T

\* A run within its limits takes no more from a pool than the pool's budget.
LEMMA RunWithinBudget ==
  ASSUME NEW s \in DesiredState, NEW changes \in Seq(Change), Run(s, changes, Nothing) # Nothing,
         NEW p \in Pool, Cardinality(Touching(s, changes, p)) <= MaxParallel[p]
  PROVE  Lost(s, Run(s, changes, Nothing), p) <= MaxParallel[p]
<1> DEFINE t == Run(s, changes, Nothing)
           T == Touching(s, changes, p)
<1>1. Disturbed(s, changes, Len(changes), t)
  BY RunDisturbs
<1> HIDE DEF t
<1>2. Lost(s, t, p) <= Cardinality(T)
  BY <1>1, DisruptionCounted
<1>3. IsFiniteSet(T)
  BY TouchingFinite
<1>4. Cardinality(T) \in Nat /\ MaxParallel[p] \in Nat
  BY <1>3, FS_CardinalityType, LoopAssumption DEF DisruptionBudget
<1>5. Lost(s, t, p) \in Nat
  BY LostType
<1> HIDE DEF T
<1> QED
  BY <1>2, <1>4, <1>5 DEF t, T

-----------------------------------------------------------------------------
(* What is pending fits *)

LEMMA ChangesFinite == IsFiniteSet(Change)
<1> DEFINE K == {"assign", "release", "drain", "complete_drain", "return_to_service", "rollout"}
           I == Identifier
           P == K \X (I \X (I \X (I \X I)))
           g == [x \in P |-> [kind |-> x[1], id |-> x[2][1], host |-> x[2][2][1],
                              pool |-> x[2][2][2][1], image |-> x[2][2][2][2]]]
           R == {g[x] : x \in P}
<1>1. IsFiniteSet(K)
  <2> DEFINE one == {"assign"} \cup {"release"}
             two == {"drain"} \cup {"complete_drain"}
             three == {"return_to_service"} \cup {"rollout"}
  <2>1. IsFiniteSet(one) /\ IsFiniteSet(two) /\ IsFiniteSet(three)
    BY FS_Singleton, FS_Union
  <2>2. K = (one \cup two) \cup three
    OBVIOUS
  <2> HIDE DEF K, one, two, three
  <2> QED
    BY <2>1, <2>2, FS_Union
<1>2. {"assign", "release", "drain", "complete_drain", "return_to_service", "rollout"} \subseteq K
  OBVIOUS
<1> HIDE DEF K, I
<1>3. IsFiniteSet(I)
  BY NamesFinite DEF I
<1>4. IsFiniteSet(I \X I)
  BY <1>3, FS_Product
<1>5. IsFiniteSet(I \X (I \X I))
  BY <1>3, <1>4, FS_Product
<1>6. IsFiniteSet(I \X (I \X (I \X I)))
  BY <1>3, <1>5, FS_Product
<1>7. IsFiniteSet(P)
  BY <1>1, <1>6, FS_Product
<1>8. Change \in SUBSET R
  <2> SUFFICES ASSUME NEW c \in Change PROVE c \in R
    OBVIOUS
  <2> DEFINE x == <<c.kind, <<c.id, <<c.host, <<c.pool, c.image>>>>>>>>
  <2>1. c.id \in I /\ c.host \in I /\ c.pool \in I /\ c.image \in I /\ c.kind \in K
    BY <1>2 DEF Change, Identifier, I
  <2>2. x \in P
    BY <2>1
  <2>3. c = [kind |-> c.kind, id |-> c.id, host |-> c.host, pool |-> c.pool, image |-> c.image]
    BY DEF Change
  <2>4. g[x] = [kind |-> c.kind, id |-> c.id, host |-> c.host, pool |-> c.pool, image |-> c.image]
    BY <2>2
  <2> HIDE DEF x, g, P
  <2> QED
    BY <2>2, <2>3, <2>4
<1>9. g \in Surjection(P, R)
  BY DEF Surjection
<1> HIDE DEF R, g, P
<1>10. IsFiniteSet(R)
  BY <1>7, <1>9, FS_Surjection
<1> QED
  BY <1>8, <1>10, FS_Subset

LEMMA EmptyRuns ==
  ASSUME NEW s \in DesiredState
  PROVE  Run(s, <<>>, Nothing) # Nothing /\ \A p : Touching(s, <<>>, p) = {}
<1>1. Len(<<>>) = 0 /\ DOMAIN <<>> = {}
  OBVIOUS
<1>2. PICK f : Running(f, Len(<<>>), s, <<>>, Nothing) /\ Run(s, <<>>, Nothing) = f[Len(<<>>)]
  BY <1>1, RunIsRunning
<1>3. f[0] = s
  BY <1>2 DEF Running
<1> QED
  BY <1>1, <1>2, <1>3, FleetAssumption DEF Touching

\* A batch that runs from s and stays within the budgets.
FitsIn(s, changes) ==
  /\ Run(s, changes, Nothing) # Nothing
  /\ \A p \in Pool : Cardinality(Touching(s, changes, p)) <= MaxParallel[p]

\* A batch of the state's revision fits in the state.
PendingInv ==
  /\ pending.base \in Nat /\ pending.base <= state.revision
  /\ pending.base = state.revision => FitsIn(state, pending.changes)

LEMMA NoBatchFits ==
  ASSUME NEW s \in DesiredState
  PROVE  NoBatch.base \in Nat /\ NoBatch.base <= s.revision /\ FitsIn(s, NoBatch.changes)
<1>1. NoBatch.base = 0 /\ NoBatch.changes = <<>>
  BY DEF NoBatch
<1>2. \A p \in Pool : Cardinality(Touching(s, <<>>, p)) <= MaxParallel[p]
  <2> TAKE p \in Pool
  <2>1. Touching(s, <<>>, p) = {} /\ MaxParallel[p] \in Nat
    BY EmptyRuns, LoopAssumption DEF DisruptionBudget
  <2>2. Cardinality(Touching(s, <<>>, p)) = 0
    BY <2>1, FS_EmptySet
  <2> QED
    BY ONLY <2>1, <2>2
<1>3. s.revision \in Nat
  BY DEF DesiredState
<1> QED
  BY <1>1, <1>2, <1>3, EmptyRuns DEF FitsIn

\* What a reconciliation submits fits in the state it was made of.
LEMMA ReconciledFits ==
  ASSUME Reported, NEW s \in DesiredState, DrainsAgree(s), NEW stop
  PROVE  FitsIn(s, reconcile(s, stop).changes)
<1> DEFINE C == Candidates(s)
           batch == bound_candidates(s, C, stop).changes
<1>1. reconcile(s, stop).changes = batch
  BY DEF reconcile
<1>2. Runnable(s, C) /\ C \in SUBSET Change
  BY CandidatesRunnable
<1> HIDE DEF C
<1>3. IsFiniteSet(C)
  BY <1>2 DEF Runnable
<1>4. /\ batch \in Seq(C)
      /\ \A i, j \in DOMAIN batch : batch[i] = batch[j] => i = j
      /\ \A p \in Pool : Cardinality(Touching(s, batch, p)) <= MaxParallel[p]
  BY <1>2, <1>3, WithinLimits
<1> HIDE DEF batch
<1>5. Run(s, batch, Nothing) # Nothing
  BY <1>2, <1>4, RunFits
<1> QED
  BY <1>1, <1>4, <1>5 DEF FitsIn

\* No step takes more from a pool than its budget.
Bounded == \A p \in Pool : Lost(state, state', p) <= MaxParallel[p]

LEMMA QuietIsBounded == UNCHANGED state => Bounded
<1> SUFFICES ASSUME UNCHANGED state, NEW p \in Pool PROVE Lost(state, state', p) <= MaxParallel[p]
  BY DEF Bounded
<1>1. MaxParallel[p] \in Nat
  BY LoopAssumption DEF DisruptionBudget
<1>2. PICK s : s = state
  OBVIOUS
<1>3. Lost(s, s, p) = 0
  BY LostType
<1>4. state' = s
  BY <1>2
<1>5. Lost(state, state', p) = Lost(s, s, p)
  BY <1>2, <1>4
<1> QED
  BY <1>1, <1>3, <1>5

LEMMA AppliedIsBounded ==
  ASSUME state \in DesiredState, NEW batch, state' = Applied(batch),
         batch.base = state.revision /\ batch.changes \in Seq(Change) =>
           \A p \in Pool : Cardinality(Touching(state, batch.changes, p)) <= MaxParallel[p]
  PROVE  Bounded
<1>1. PICK s : s = state
  OBVIOUS
<1>2. PICK t : t = state'
  OBVIOUS
<1>3. CASE batch.base = s.revision /\ batch.changes \in Seq(Change) /\ Run(s, batch.changes, Nothing) # Nothing
  <2>1. t = Run(s, batch.changes, Nothing)
    BY <1>1, <1>2, <1>3 DEF Applied
  <2>2. \A p \in Pool : Cardinality(Touching(s, batch.changes, p)) <= MaxParallel[p]
    BY <1>1, <1>3
  <2>3. \A p \in Pool : Lost(s, t, p) <= MaxParallel[p]
    BY <1>1, <1>3, <2>1, <2>2, RunWithinBudget
  <2> QED
    BY <1>1, <1>2, <2>3 DEF Bounded
<1>4. CASE ~(batch.base = s.revision /\ batch.changes \in Seq(Change) /\ Run(s, batch.changes, Nothing) # Nothing)
  <2>1. UNCHANGED state
    BY <1>1, <1>4 DEF Applied
  <2> QED
    BY <2>1, QuietIsBounded
<1> QED
  BY <1>3, <1>4

LEMMA ProposalsBounded ==
  ASSUME state \in DesiredState, NEW candidates \in SUBSET Change, Propose(candidates)
  PROVE  Bounded
<1>1. PICK s : s = state
  OBVIOUS
<1>2. PICK stop : stop = halted
  OBVIOUS
<1> DEFINE changes == bound_candidates(s, candidates, stop).changes
<1>3. PICK b : b = Batch(bound_candidates(s, candidates, stop))
  OBVIOUS
<1>4. b.changes = changes
  BY <1>3 DEF Batch
<1>5. IsFiniteSet(candidates)
  BY ChangesFinite, FS_Subset
<1>6. \A p \in Pool : Cardinality(Touching(s, changes, p)) <= MaxParallel[p]
  BY <1>5, WithinLimits
<1>7. state' = Applied(b)
  BY <1>1, <1>2, <1>3 DEF Propose
<1> HIDE DEF changes
<1>8. \A p \in Pool : Cardinality(Touching(state, b.changes, p)) <= MaxParallel[p]
  BY <1>1, <1>4, <1>6
<1> QED
  BY <1>7, <1>8, AppliedIsBounded

-----------------------------------------------------------------------------
(* The control loop *)

LoopTyped ==
  /\ state \in DesiredState
  /\ sequences \in [Host -> Nat]
  /\ accepted \in [Host -> [revision: Nat, sequence: Nat, wanted: Runs]]
  /\ \A e \in sent : e.audience \in Host /\ e.revision \in Nat /\ e.sequence \in Nat /\ e.wanted \in Runs
  /\ running \in [Host -> Runs]
  /\ Reported

\* Of the envelopes for one host, a later one is of a later state.
IssuedInOrder ==
  \A e \in sent :
    /\ e.sequence <= sequences[e.audience] /\ e.revision <= state.revision
    /\ \A f \in sent : f.audience = e.audience /\ f.sequence > e.sequence => f.revision >= e.revision

\* And so is every one a host has not accepted yet.
AcceptedInOrder ==
  \A h \in Host :
    /\ accepted[h].sequence <= sequences[h] /\ accepted[h].revision <= state.revision
    /\ \A e \in sent : e.audience = h /\ e.sequence > accepted[h].sequence => e.revision >= accepted[h].revision

EnvelopeInv == IssuedInOrder /\ AcceptedInOrder

LoopInv == LoopTyped /\ DrainsAgree(state) /\ PendingInv /\ EnvelopeInv

LEMMA LoopStarts == LoopInit => LoopInv
<1> SUFFICES ASSUME LoopInit PROVE LoopInv
  OBVIOUS
<1>1. state \in DesiredState /\ DrainsAgree(state)
  BY InitGood DEF LoopInit, IInv, FleetTypeOK, DrainsMatchHosts
<1>2. LoopTyped
  BY <1>1 DEF LoopInit, LoopTyped, Reported, NothingAccepted, Runs
<1>3. EnvelopeInv
  BY <1>1 DEF LoopInit, EnvelopeInv, IssuedInOrder, AcceptedInOrder, NothingAccepted, DesiredState
<1>4. PICK s : s = state
  OBVIOUS
<1>5. NoBatch.base \in Nat /\ NoBatch.base <= s.revision /\ FitsIn(s, NoBatch.changes)
  BY <1>1, <1>4, NoBatchFits
<1>6. PendingInv
  BY <1>4, <1>5 DEF LoopInit, PendingInv
<1> QED
  BY <1>1, <1>2, <1>3, <1>6 DEF LoopInv

\* A step of the manager: the state goes forward or stays.
LEMMA LoopKeptByManager ==
  ASSUME LoopInv, state' \in DesiredState, DrainsAgree(state)', state'.revision >= state.revision,
         state'.revision = state.revision => state' = state,
         UNCHANGED <<sequences, sent, accepted, reports, running>>,
         UNCHANGED pending \/ PendingInv'
  PROVE  LoopInv'
<1>1. state.revision \in Nat /\ state'.revision \in Nat
  BY DEF LoopInv, LoopTyped, DesiredState
<1>2. LoopTyped'
  BY DEF LoopInv, LoopTyped, Reported
<1>3. EnvelopeInv'
  BY <1>1 DEF LoopInv, LoopTyped, EnvelopeInv, IssuedInOrder, AcceptedInOrder
<1>4. PendingInv'
  <2> SUFFICES ASSUME UNCHANGED pending PROVE PendingInv'
    OBVIOUS
  <2>1. pending'.base \in Nat /\ pending'.base <= state'.revision
    BY <1>1 DEF LoopInv, PendingInv
  <2>2. ASSUME pending'.base = state'.revision
        PROVE  FitsIn(state', pending'.changes)
    <3>1. pending.base = state'.revision /\ pending.base <= state.revision
      BY <2>2 DEF LoopInv, PendingInv
    <3>2. state'.revision = state.revision
      BY <1>1, <3>1
    <3>3. state' = state /\ pending' = pending
      BY <3>2
    <3>4. FitsIn(state, pending.changes)
      BY <3>1, <3>2 DEF LoopInv, PendingInv
    <3> QED
      BY <3>3, <3>4
  <2> QED
    BY <2>1, <2>2 DEF PendingInv
<1> QED
  BY <1>2, <1>3, <1>4 DEF LoopInv

LEMMA LoopKeptByIssue ==
  ASSUME LoopInv, NEW h \in Host, StateIssuer_issue(h)
  PROVE  LoopInv'
<1> DEFINE new == SignedState(h)
<1>1. /\ new.audience = h /\ new.revision = state.revision /\ new.sequence = sequences[h] + 1
      /\ new.wanted \in Runs
  BY WantedType DEF SignedState
<1>2. /\ sent' \subseteq sent \cup {new}
      /\ state' = state /\ accepted' = accepted /\ pending' = pending
      /\ reports' = reports /\ running' = running
      /\ sequences' \in [Host -> Nat] /\ sequences'[h] = sequences[h] + 1
      /\ \A g \in Host : sequences[g] \in Nat /\ sequences'[g] >= sequences[g]
  BY DEF StateIssuer_issue, Held, fleetVars, LoopInv, LoopTyped
<1>3. state.revision \in Nat
  BY DEF LoopInv, LoopTyped, DesiredState
<1> HIDE DEF new
<1>4. LoopTyped'
  BY <1>1, <1>2, <1>3 DEF LoopInv, LoopTyped, Reported
<1>5. IssuedInOrder'
  BY <1>1, <1>2, <1>3 DEF LoopInv, LoopTyped, EnvelopeInv, IssuedInOrder
<1>6. AcceptedInOrder'
  BY <1>1, <1>2, <1>3 DEF LoopInv, LoopTyped, EnvelopeInv, AcceptedInOrder
<1>7. DrainsAgree(state)' /\ PendingInv'
  BY <1>2 DEF LoopInv, PendingInv
<1> QED
  BY <1>4, <1>5, <1>6, <1>7 DEF LoopInv, EnvelopeInv

LEMMA LoopKeptByAccept ==
  ASSUME LoopInv, NEW h \in Host, NEW e \in sent, accept_state(h, e)
  PROVE  /\ LoopInv'
         /\ \A g \in Host : accepted'[g].revision >= accepted[g].revision
<1>1. /\ e.audience = h /\ e.sequence > accepted[h].sequence
      /\ UNCHANGED <<state, sequences, sent, pending, reports, running>>
      /\ accepted' = [accepted EXCEPT ![h] = [revision |-> e.revision, sequence |-> e.sequence, wanted |-> e.wanted]]
  BY DEF accept_state, Acceptable, fleetVars
<1>2. /\ accepted'[h].revision = e.revision /\ accepted'[h].sequence = e.sequence
      /\ \A g \in Host : g # h => accepted'[g] = accepted[g]
  BY <1>1 DEF LoopInv, LoopTyped
<1>3. LoopTyped'
  BY <1>1 DEF LoopInv, LoopTyped, Reported
<1>4. IssuedInOrder'
  BY <1>1 DEF LoopInv, EnvelopeInv, IssuedInOrder
<1>5. AcceptedInOrder'
  BY <1>1, <1>2 DEF LoopInv, LoopTyped, EnvelopeInv, IssuedInOrder, AcceptedInOrder
<1>6. \A g \in Host : accepted'[g].revision >= accepted[g].revision
  BY <1>1, <1>2 DEF LoopInv, LoopTyped, EnvelopeInv, AcceptedInOrder
<1>7. DrainsAgree(state)' /\ PendingInv'
  BY <1>1 DEF LoopInv, PendingInv
<1> QED
  BY <1>3, <1>4, <1>5, <1>6, <1>7 DEF LoopInv, EnvelopeInv

\* The hosts run what they accepted and report what they run.
LEMMA LoopKeptByHosts ==
  ASSUME LoopInv, NEW h \in Host, Follow(h) \/ Report(h)
  PROVE  LoopInv'
<1>1. UNCHANGED <<state, sequences, sent, pending, accepted>>
  BY DEF Follow, Report, fleetVars
<1>2. running' \in [Host -> Runs] /\ reports' \in [Host -> {Nothing} \cup Runs]
  BY DEF Follow, Report, LoopInv, LoopTyped, Reported
<1>3. LoopTyped'
  BY <1>1, <1>2 DEF LoopInv, LoopTyped, Reported
<1>4. DrainsAgree(state)' /\ PendingInv' /\ EnvelopeInv'
  BY <1>1 DEF LoopInv, PendingInv, EnvelopeInv, IssuedInOrder, AcceptedInOrder
<1> QED
  BY <1>3, <1>4 DEF LoopInv

LEMMA LoopKeptByReconcile ==
  ASSUME LoopInv, Reconcile
  PROVE  LoopInv'
<1>1. PICK s : s = state
  OBVIOUS
<1>2. PICK stop : stop = halted
  OBVIOUS
<1>3. s \in DesiredState /\ s.revision \in Nat /\ DrainsAgree(s) /\ Reported
  BY <1>1 DEF LoopInv, LoopTyped, DesiredState
<1>4. FitsIn(s, reconcile(s, stop).changes)
  BY <1>3, ReconciledFits
<1>5. pending' = [base |-> s.revision, changes |-> reconcile(s, stop).changes]
  BY <1>1, <1>2 DEF Reconcile, Batch
<1>6. UNCHANGED <<state, sequences, sent, accepted, reports, running>>
  BY DEF Reconcile, fleetVars
<1>7. PendingInv'
  BY <1>1, <1>3, <1>4, <1>5, <1>6 DEF PendingInv
<1>8. state' \in DesiredState /\ DrainsAgree(state)' /\ state'.revision >= state.revision
  BY <1>1, <1>3, <1>6
<1> QED
  BY <1>6, <1>7, <1>8, LoopKeptByManager

LEMMA LoopKeptBySubmit ==
  ASSUME LoopInv, Submit
  PROVE  LoopInv' /\ Bounded
<1>1. PICK b : b = pending
  OBVIOUS
<1>2. state' = Applied(b) /\ pending' = NoBatch /\ UNCHANGED <<sequences, sent, accepted, reports, running>>
  BY <1>1 DEF Submit
<1>3. state \in DesiredState /\ DrainsAgree(state)
  BY DEF LoopInv, LoopTyped
<1>4. /\ state' \in DesiredState /\ DrainsAgree(state') /\ state'.revision >= state.revision
      /\ state'.revision = state.revision => state' = state
  BY <1>2, <1>3, AppliedGoesForward
<1>5. PICK t : t = state'
  OBVIOUS
<1>6. NoBatch.base \in Nat /\ NoBatch.base <= t.revision /\ FitsIn(t, NoBatch.changes)
  BY <1>4, <1>5, NoBatchFits
<1>7. PendingInv'
  BY <1>2, <1>5, <1>6 DEF PendingInv
<1>8. DrainsAgree(state)'
  BY <1>4
<1>9. LoopInv'
  BY <1>2, <1>4, <1>7, <1>8, LoopKeptByManager
<1>10. b.base = state.revision => \A p \in Pool : Cardinality(Touching(state, b.changes, p)) <= MaxParallel[p]
  BY <1>1 DEF LoopInv, PendingInv, FitsIn
<1>11. Bounded
  BY <1>2, <1>3, <1>10, AppliedIsBounded
<1> QED
  BY <1>9, <1>11

LEMMA LoopKeptByPropose ==
  ASSUME LoopInv, NEW candidates \in SUBSET Proposals, Propose(candidates)
  PROVE  LoopInv' /\ Bounded
<1>1. PICK b : b = Batch(bound_candidates(state, candidates, halted))
  OBVIOUS
<1>2. state' = Applied(b) /\ UNCHANGED <<sequences, sent, accepted, reports, running, pending>>
  BY <1>1 DEF Propose
<1>3. state \in DesiredState /\ DrainsAgree(state)
  BY DEF LoopInv, LoopTyped
<1>4. /\ state' \in DesiredState /\ DrainsAgree(state') /\ state'.revision >= state.revision
      /\ state'.revision = state.revision => state' = state
  BY <1>2, <1>3, AppliedGoesForward
<1>5. DrainsAgree(state)'
  BY <1>4
<1>6. LoopInv'
  BY <1>2, <1>4, <1>5, LoopKeptByManager
<1>7. candidates \in SUBSET Change
  BY DEF Proposals
<1> QED
  BY <1>3, <1>6, <1>7, ProposalsBounded

LEMMA LoopKeptByStep ==
  ASSUME LoopInv, [LoopNext]_allVars
  PROVE  LoopInv' /\ Bounded /\ \A h \in Host : accepted'[h].revision >= accepted[h].revision
<1>1. \A h \in Host : accepted[h].revision \in Nat
  BY DEF LoopInv, LoopTyped
<1>2. CASE Submit
  <2>1. UNCHANGED accepted
    BY <1>2 DEF Submit
  <2> QED
    BY <1>1, <1>2, <2>1, LoopKeptBySubmit
<1>3. ASSUME NEW candidates \in SUBSET Proposals, Propose(candidates)
      PROVE  LoopInv' /\ Bounded /\ UNCHANGED accepted
  BY <1>3, LoopKeptByPropose DEF Propose
<1>4. ASSUME NEW h \in Host, StateIssuer_issue(h) \/ Follow(h) \/ Report(h)
      PROVE  LoopInv' /\ UNCHANGED <<state, accepted>>
  BY <1>4, LoopKeptByIssue, LoopKeptByHosts DEF StateIssuer_issue, Follow, Report, fleetVars
<1>5. ASSUME NEW h \in Host, NEW e \in sent, accept_state(h, e)
      PROVE  LoopInv' /\ UNCHANGED state /\ \A g \in Host : accepted'[g].revision >= accepted[g].revision
  BY <1>5, LoopKeptByAccept DEF accept_state, fleetVars
<1>6. ASSUME Reconcile
      PROVE  LoopInv' /\ UNCHANGED <<state, accepted>>
  <2>1. LoopInv'
    BY <1>6, LoopKeptByReconcile
  <2> QED
    BY <1>6, <2>1 DEF Reconcile, fleetVars
<1>7. ASSUME Halt \/ Resume \/ Tick \/ UNCHANGED allVars
      PROVE  LoopInv' /\ UNCHANGED <<state, accepted>>
  <2>1. UNCHANGED <<state, sequences, sent, accepted, reports, running, pending>>
    BY <1>7 DEF Halt, Resume, Tick, allVars, loopVars, fleetVars
  <2>2. state' \in DesiredState /\ DrainsAgree(state)' /\ state'.revision >= state.revision
    BY <2>1 DEF LoopInv, LoopTyped, DesiredState
  <2>3. LoopInv'
    BY <2>1, <2>2, LoopKeptByManager
  <2> QED
    BY <2>1, <2>3
<1>8. CASE UNCHANGED <<state, accepted>> /\ LoopInv'
  BY <1>1, <1>8, QuietIsBounded
<1> QED
  BY <1>1, <1>2, <1>3, <1>4, <1>5, <1>6, <1>7, <1>8, QuietIsBounded DEF LoopNext

\* Whatever the operators and the reconciler change, and in whatever order,
\* however late and however often the envelopes reach it, no host goes back to
\* an older state: sequences are taken one by one while the revision only grows,
\* and a host takes a greater sequence only (StateIssuer.issue, accept_state).
THEOREM HostsGoForward == LoopSpec => AcceptedGoesForward
<1>1. LoopInv /\ [LoopNext]_allVars => LoopInv'
  BY LoopKeptByStep
<1>2. LoopInv /\ [LoopNext]_allVars =>
        [\A h \in Host : accepted'[h].revision >= accepted[h].revision]_allVars
  BY LoopKeptByStep
<1> QED
  BY <1>1, <1>2, LoopStarts, PTL DEF LoopSpec, AcceptedGoesForward

\* A batch of the state's revision runs as it stands, whatever the caps left of
\* the candidates: those are for different assignments, within the slots of hosts
\* that are active and of drains that are over, so any part of them runs, in any
\* order (reconcile, _placement_host, bound_candidates).
THEOREM BatchesFit == LoopSpec => []BatchFits
<1>1. LoopInv /\ [LoopNext]_allVars => LoopInv'
  BY LoopKeptByStep
<1>2. LoopInv => BatchFits
  BY DEF LoopInv, PendingInv, FitsIn, BatchFits
<1> QED
  BY <1>1, <1>2, LoopStarts, PTL DEF LoopSpec

\* No step takes more from a pool than its disruption budget: a change that does
\* take something was charged to every pool it takes it from before it was
\* submitted (_exhausted, _charge, _disrupted_pools), and a batch of an older
\* revision changes nothing.
THEOREM BudgetsHold == LoopSpec => DisruptionBounded
<1>1. LoopInv /\ [LoopNext]_allVars => LoopInv'
  BY LoopKeptByStep
<1>2. LoopInv /\ [LoopNext]_allVars => [\A p \in Pool : Disruption(p) <= MaxParallel[p]]_allVars
  <2>1. \A p \in Pool : Disruption(p) = Lost(state, state', p)
    BY DEF Disruption, Lost
  <2> QED
    BY <2>1, LoopKeptByStep DEF Bounded
<1> QED
  BY <1>1, <1>2, LoopStarts, PTL DEF LoopSpec, DisruptionBounded
=============================================================================
