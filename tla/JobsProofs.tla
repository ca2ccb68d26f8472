----------------------------- MODULE JobsProofs -----------------------------
(***************************************************************************)
(* Proofs about operations on runners, for any instances, jobs, images,    *)
(* hosts, keys, adapters and faults: a destroyed instance has no container *)
(* and no container sees a second job, for a caller that consults the gate *)
(* alone as well as for one that asks the lifecycle; and what was replaced *)
(* is clean or in quarantine, for the caller that asks the lifecycle.      *)
(***************************************************************************)
EXTENDS RunnerJobs, TLAPS

Container == [up : BOOLEAN, image : Image \cup {Nothing}, residue : SUBSET {"volume", "network"}]

JobsTypeOK ==
  /\ lives \in [Instance -> JobLifecycle]
  /\ \A i \in Instance : lives[i].state = "none" \/ lives[i].image \in Image
  /\ pool.image \in Image
  /\ issued \in [Key -> Operation \cup {Nothing}]
  /\ receipts \in [Key -> AgentReceipt \cup {Nothing}]
  /\ wire \subseteq AgentReceipt
  /\ box \in [Instance -> Container]

\* The calls that make a container and take it away.
Physical == {"create_runner", "destroy_runner"}

\* Every adapter in use remembers the keys it made or took a container away under.
AdaptersRemember ==
  /\ DOMAIN adapter = Host
  /\ \A h \in Host, call \in Physical : adapter[h] # Nothing => Remembers(h, call)

\* An operation goes to the host of its instance.
HostInv == \A k \in Key : issued[k] # Nothing => issued[k].host = HostOf[issued[k].subject]

\* What is on the wire answers an operation, and its own host only answers
\* what it carried out.  What is recorded was on the wire.
Own(r) == issued[r.key] # Nothing /\ r.host = issued[r.key].host
WireInv ==
  \A r \in wire : issued[r.key] # Nothing /\ (Own(r) => r.key \in performed)
ReceiptInv ==
  \A k \in Key : receipts[k] # Nothing =>
     receipts[k] \in wire /\ receipts[k].key = k /\ Own(receipts[k])

\* Of the keys of one creation or destruction all but one were answered with a
\* failure.
FailedAt(k) == receipts[k] # Nothing /\ receipts[k].outcome # "completed"
OneUnderWay ==
  \A k, l \in Key :
     k # l /\ issued[k] # Nothing /\ issued[k].kind \in Physical /\ issued[k] = issued[l]
       => FailedAt(k) \/ FailedAt(l)

\* Nothing that creates the instance i of this image is still to be carried out.
Settled(i, image) ==
  \A k \in Key : issued[k] = Op("create_runner", i, image) => k \in performed
SettledInv ==
  /\ \A i \in Instance : lives[i].state # "none" => Settled(i, lives[i].image)
  /\ \A k \in Key : issued[k] # Nothing /\ issued[k].kind = "destroy_runner"
       => Settled(issued[k].subject, issued[k].image)

\* A destruction that its own host reported is still in effect.
DestructionHolds ==
  \A r \in wire :
     Own(r) /\ r.outcome = "completed" /\ issued[r.key].kind = "destroy_runner"
       => LET op == issued[r.key] IN ~(box[op.subject].up /\ box[op.subject].image = op.image)

\* What the lifecycle calls destroyed was reported so.
GoneInv ==
  \A i \in Instance : lives[i].state \in Gone => Attested(Op("destroy_runner", i, lives[i].image))

JobsInv == /\ JobsTypeOK /\ AdaptersRemember /\ HostInv /\ WireInv /\ ReceiptInv /\ OneUnderWay
           /\ SettledInv /\ DestructionHolds /\ GoneInv

\* The invariant is what the theorem needs.
LEMMA JobsInvImplies == JobsInv => DestroyedIsGone
<1> SUFFICES ASSUME JobsInv, NEW i \in Instance, lives[i].state \in Gone
             PROVE  ~(box[i].up /\ box[i].image = lives[i].image)
  BY DEF DestroyedIsGone
<1>1. PICK k \in Key : /\ issued[k] = Op("destroy_runner", i, lives[i].image)
                       /\ receipts[k] # Nothing /\ receipts[k].outcome = "completed"
  BY DEF JobsInv, GoneInv, Attested
<1>2. receipts[k] \in wire /\ receipts[k].key = k /\ Own(receipts[k])
  BY <1>1 DEF JobsInv, ReceiptInv
<1> QED BY <1>1, <1>2 DEF JobsInv, DestructionHolds, Op

\* Once a creation is attested, no key of it is still to be carried out.
LEMMA AttestedIsSettled ==
  ASSUME JobsInv, NEW i \in Instance, NEW image \in Image,
         Attested(Op("create_runner", i, image))
  PROVE  Settled(i, image)
<1>1. PICK k \in Key : /\ issued[k] = Op("create_runner", i, image)
                       /\ receipts[k] # Nothing /\ receipts[k].outcome = "completed"
  BY DEF Attested
<1> SUFFICES ASSUME NEW l \in Key, issued[l] = Op("create_runner", i, image)
             PROVE  l \in performed
  BY DEF Settled
<1>2. issued[k] # Nothing /\ issued[k].kind = "create_runner"
  BY <1>1 DEF Op, JobsInv, ReceiptInv, Own
<1>3. receipts[l] # Nothing
  BY <1>1, <1>2 DEF JobsInv, OneUnderWay, FailedAt, Physical
<1> QED BY <1>3 DEF JobsInv, ReceiptInv, WireInv

-----------------------------------------------------------------------------
\* A new key: the work it stands for is nobody's yet.
LEMMA IssueKeeps ==
  ASSUME JobsInv, NEW k \in Key, NEW op \in Operation, issue(k, op),
         op.host = HostOf[op.subject],
         op.kind \in Physical => Untried(op),
         op.kind = "create_runner" =>
           /\ \A i \in Instance : lives[i].state # "none" => op # Op("create_runner", i, lives[i].image)
           /\ \A l \in Key : issued[l] # Nothing /\ issued[l].kind = "destroy_runner"
                => op # Op("create_runner", issued[l].subject, issued[l].image),
         op.kind = "destroy_runner" => Settled(op.subject, op.image)
  PROVE  JobsInv'
<1>1. /\ issued[k] = Nothing /\ issued' = [issued EXCEPT ![k] = op]
      /\ UNCHANGED <<lives, pool, receipts, adapter, box, performed, wire>>
  BY DEF issue, hostVars
<1>2. op # Nothing  BY JobsAssumption
<1>3. /\ issued'[k] = op
      /\ \A l \in Key : l # k => issued'[l] = issued[l]
      /\ \A l \in Key : issued[l] # Nothing => issued'[l] = issued[l]
  BY <1>1 DEF JobsInv, JobsTypeOK
<1>4. JobsTypeOK'  BY <1>1 DEF JobsInv, JobsTypeOK
<1>5. AdaptersRemember' /\ HostInv'
  BY <1>1, <1>3 DEF JobsInv, AdaptersRemember, Remembers, HostInv
<1>6. \A r \in wire : issued[r.key] # Nothing /\ issued'[r.key] = issued[r.key]
  <2> SUFFICES ASSUME NEW r \in wire
               PROVE  issued[r.key] # Nothing /\ issued'[r.key] = issued[r.key]
    OBVIOUS
  <2>1. r.key \in Key  BY DEF JobsInv, JobsTypeOK, AgentReceipt
  <2> QED BY <1>3, <2>1 DEF JobsInv, WireInv
<1>7. WireInv'  BY <1>1, <1>6 DEF JobsInv, WireInv, Own
<1>8. ReceiptInv'  BY <1>1, <1>3 DEF JobsInv, ReceiptInv, Own
<1>9. OneUnderWay'
  <2> SUFFICES ASSUME NEW l \in Key, NEW m \in Key, l # m, issued'[l] # Nothing,
                      issued'[l].kind \in Physical, issued'[l] = issued'[m]
               PROVE  FailedAt(l) \/ FailedAt(m)
    BY <1>1 DEF OneUnderWay, FailedAt
  <2>1. CASE l # k /\ m # k  BY <1>3, <2>1 DEF JobsInv, OneUnderWay
  <2>2. CASE l = k  BY <1>3, <2>2 DEF Untried, FailedAt
  <2>3. CASE m = k  BY <1>3, <2>3 DEF Untried, FailedAt
  <2> QED BY <2>1, <2>2, <2>3
<1>10. SettledInv'
  <2>1. ASSUME NEW i \in Instance, lives[i].state # "none"
        PROVE  Settled(i, lives[i].image)'
    <3>1. op # Op("create_runner", i, lives[i].image)  BY <2>1 DEF Op
    <3> QED BY <1>1, <1>3, <2>1, <3>1 DEF JobsInv, SettledInv, Settled, Op
  <2>2. ASSUME NEW l \in Key, issued'[l] # Nothing, issued'[l].kind = "destroy_runner"
        PROVE  \A m \in Key :
                 issued'[m] = Op("create_runner", issued'[l].subject, issued'[l].image)
                   => m \in performed
    <3>1. CASE l = k  BY <1>3, <2>2, <3>1 DEF Settled, Op
    <3>2. CASE l # k
      <4>1. /\ issued[l] # Nothing /\ issued[l].kind = "destroy_runner"
            /\ issued'[l] = issued[l]
        BY <1>3, <2>2, <3>2
      <4>2. op # Op("create_runner", issued[l].subject, issued[l].image)  BY <4>1 DEF Op
      <4> QED BY <1>3, <4>1, <4>2 DEF JobsInv, SettledInv, Settled, Op
    <3> QED BY <3>1, <3>2
  <2> QED BY <1>1, <2>1, <2>2 DEF SettledInv, Settled, Op
<1>11. DestructionHolds'  BY <1>1, <1>6 DEF JobsInv, DestructionHolds, Own
<1>12. GoneInv'
  BY <1>1, <1>3 DEF JobsInv, GoneInv, Attested, ReceiptInv, Own, Op
<1> QED BY <1>4, <1>5, <1>7, <1>8, <1>9, <1>10, <1>11, <1>12 DEF JobsInv

\* The first receipt of an operation is taken for good.
LEMMA RecordKeeps == ASSUME JobsInv, NEW r \in wire, record(r) PROVE JobsInv'
<1>1. r \in AgentReceipt /\ r.key \in Key  BY DEF JobsInv, JobsTypeOK, AgentReceipt
<1>2. /\ receipts[r.key] = Nothing /\ receipts' = [receipts EXCEPT ![r.key] = r] /\ Own(r)
      /\ UNCHANGED <<lives, pool, issued, adapter, box, performed, wire>>
  BY DEF record, hostVars, Own
<1>3. r # Nothing  BY <1>1, JobsAssumption
<1>4. /\ receipts'[r.key] = r
      /\ \A l \in Key : l # r.key => receipts'[l] = receipts[l]
      /\ \A l \in Key : receipts[l] # Nothing => receipts'[l] = receipts[l]
  BY <1>1, <1>2 DEF JobsInv, JobsTypeOK
<1>5. JobsTypeOK'  BY <1>1, <1>2 DEF JobsInv, JobsTypeOK
<1>6. AdaptersRemember' /\ HostInv'
  BY <1>2 DEF JobsInv, AdaptersRemember, Remembers, HostInv
<1>7. WireInv' /\ DestructionHolds'
  BY <1>2 DEF JobsInv, WireInv, DestructionHolds, Own
<1>8. ReceiptInv'  BY <1>2, <1>3, <1>4 DEF JobsInv, ReceiptInv, Own
<1>9. OneUnderWay'  BY <1>2, <1>4 DEF JobsInv, OneUnderWay, FailedAt
<1>10. SettledInv'  BY <1>2 DEF JobsInv, SettledInv, Settled, Op
<1>11. GoneInv'  BY <1>2, <1>4 DEF JobsInv, GoneInv, Attested, Op
<1> QED BY <1>5, <1>6, <1>7, <1>8, <1>9, <1>10, <1>11 DEF JobsInv

-----------------------------------------------------------------------------
\* Containers keep being up or not; what jobs left in them may change.
SameContainers ==
  /\ box' \in [Instance -> Container]
  /\ \A i \in Instance : box'[i].up = box[i].up /\ box'[i].image = box[i].image

LEMMA SameStay == ASSUME JobsInv, UNCHANGED box PROVE SameContainers
BY DEF SameContainers, JobsInv, JobsTypeOK

\* The manager's own documents change and no operation or container does.
LEMMA LivesKeep ==
  ASSUME JobsInv, UNCHANGED <<issued, receipts, adapter, performed, wire>>, SameContainers,
         pool'.image \in Image, lives' \in [Instance -> JobLifecycle],
         \A i \in Instance :
           /\ lives'[i].state # "none" =>
                lives'[i].image \in Image /\ Settled(i, lives'[i].image)
           /\ lives'[i].state \in Gone => Attested(Op("destroy_runner", i, lives'[i].image))
  PROVE  JobsInv'
<1>1. JobsTypeOK'  BY DEF JobsInv, JobsTypeOK, SameContainers
<1>2. AdaptersRemember' /\ HostInv'  BY DEF JobsInv, AdaptersRemember, Remembers, HostInv
<1>3. WireInv' /\ ReceiptInv'  BY DEF JobsInv, WireInv, ReceiptInv, Own
<1>7. DestructionHolds'
  <2> SUFFICES ASSUME NEW r \in wire, Own(r), r.outcome = "completed",
                      issued[r.key].kind = "destroy_runner"
               PROVE  LET op == issued[r.key]
                      IN  ~(box'[op.subject].up /\ box'[op.subject].image = op.image)
    BY DEF DestructionHolds, Own
  <2>1. issued[r.key].subject \in Instance
    BY DEF JobsInv, JobsTypeOK, AgentReceipt, Operation, Own
  <2> QED BY <2>1 DEF SameContainers, JobsInv, DestructionHolds
<1>4. OneUnderWay'  BY DEF JobsInv, OneUnderWay, FailedAt
<1>5. SettledInv'  BY DEF JobsInv, SettledInv, Settled, Op
<1>6. GoneInv'  BY DEF GoneInv, Attested, Op
<1> QED BY <1>1, <1>2, <1>3, <1>4, <1>5, <1>6, <1>7 DEF JobsInv

\* One instance moves on in the job machine, with the image it has.
LEMMA MoveKeeps ==
  ASSUME JobsInv, UNCHANGED <<issued, receipts, adapter, performed, wire>>, SameContainers,
         pool'.image = pool.image, NEW i \in Instance, NEW rec \in JobLifecycle,
         lives' = [lives EXCEPT ![i] = rec],
         lives[i].state # "none", rec.image = lives[i].image,
         rec.state \in Gone => Attested(Op("destroy_runner", i, lives[i].image))
  PROVE  JobsInv'
<1>1. \A l \in Instance : lives'[l] = IF l = i THEN rec ELSE lives[l]
  BY DEF JobsInv, JobsTypeOK
<1>2. lives' \in [Instance -> JobLifecycle] /\ pool'.image \in Image
  BY DEF JobsInv, JobsTypeOK
<1>3. \A l \in Instance :
        /\ lives'[l].state # "none" =>
             lives'[l].image \in Image /\ Settled(l, lives'[l].image)
        /\ lives'[l].state \in Gone => Attested(Op("destroy_runner", l, lives'[l].image))
  BY <1>1 DEF JobsInv, JobsTypeOK, SettledInv, GoneInv
<1> QED BY <1>2, <1>3, LivesKeep

\* A move of the table leaves from a state it names, and only a destroyed
\* instance moves to where destroyed instances are.
LEMMA TableFacts ==
  ASSUME NEW i \in Instance, NEW to, CanMove(i, to)
  PROVE  /\ lives[i].state # "none" /\ to \in JobState
         /\ to \in {"proven_clean", "quarantined"} => lives[i].state = "destroyed"
         /\ to = "destroyed" => lives[i].state \notin Gone
BY DEF CanMove, next_states, JobState, TERMINAL_JOB_STATES, Gone

LEMMA AdmitKeeps ==
  ASSUME JobsInv, NEW i \in Instance, NEW old \in Instance \cup {Nothing}, Admit(i, old)
  PROVE  JobsInv'
<1> DEFINE rec == [state |-> "prepulled", job |-> Nothing, image |-> pool.image]
<1>1. /\ lives' = [lives EXCEPT ![i] = rec] /\ Attested(Op("create_runner", i, pool.image))
      /\ UNCHANGED <<issued, receipts, adapter, performed, wire>> /\ SameContainers
      /\ pool'.image = pool.image
  <2>1. pool' = admit(pool, i, pool.image)  BY DEF Admit, admit_replacement
  <2>2. pool'.image = pool.image  BY <2>1 DEF admit
  <2> QED BY <2>2 DEF Admit, hostVars, SameContainers, JobsInv, JobsTypeOK
<1>2. pool.image \in Image  BY DEF JobsInv, JobsTypeOK
<1>3. rec \in JobLifecycle  BY <1>2 DEF JobLifecycle, JobState
<1>4. Settled(i, pool.image)  BY <1>1, <1>2, AttestedIsSettled
<1>5. lives' \in [Instance -> JobLifecycle] /\ pool'.image \in Image
  BY <1>1, <1>2, <1>3 DEF JobsInv, JobsTypeOK
<1>6. \A l \in Instance : lives'[l] = IF l = i THEN rec ELSE lives[l]
  BY <1>1 DEF JobsInv, JobsTypeOK
<1>7. \A l \in Instance :
        /\ lives'[l].state # "none" =>
             lives'[l].image \in Image /\ Settled(l, lives'[l].image)
        /\ lives'[l].state \in Gone => Attested(Op("destroy_runner", l, lives'[l].image))
  BY <1>2, <1>4, <1>6 DEF JobsInv, JobsTypeOK, SettledInv, GoneInv, Gone
<1> QED BY <1>1, <1>5, <1>7, LivesKeep

\* offer, start, refuse, finish, destroy, prove, quarantine.
LEMMA JobMovesKeep ==
  ASSUME JobsInv, NEW i \in Instance,
         \/ \E j \in Job : Offer(i, j)
         \/ \E to \in JobState : End(i, to)
         \/ Start(i) \/ Destroyed(i) \/ Quarantine(i)
         \/ \E e \in evidence : Prove(i, e)
  PROVE  JobsInv'
<1> DEFINE moved(s) == [lives[i] EXCEPT !.state = s]
<1>1. ASSUME NEW j \in Job, Offer(i, j) PROVE JobsInv'
  <2> DEFINE rec == [lives[i] EXCEPT !.state = "assigned", !.job = j]
  <2>1. rec \in JobLifecycle /\ rec.image = lives[i].image /\ rec.state \notin Gone
    BY DEF JobsInv, JobsTypeOK, JobLifecycle, JobState, Gone
  <2>2. lives' = [lives EXCEPT ![i] = rec]
    BY <1>1 DEF Offer, JobsInv, JobsTypeOK
  <2>3. lives[i].state # "none"  BY <1>1, TableFacts DEF Offer
  <2>4. /\ UNCHANGED <<issued, receipts, adapter, performed, wire>> /\ SameContainers
        /\ pool'.image = pool.image
    <3>1. pool' = retire(pool, i)  BY <1>1 DEF Offer
    <3>2. pool'.image = pool.image  BY <3>1 DEF retire
    <3>3. UNCHANGED <<issued, receipts, adapter, box, performed, wire>>
      BY <1>1 DEF Offer, hostVars
    <3> QED BY <3>2, <3>3, SameStay
  <2> QED BY <2>1, <2>2, <2>3, <2>4, MoveKeeps
<1>2. ASSUME NEW s, CanMove(i, s), lives' = Moved(i, s),
             UNCHANGED <<pool, issued, receipts, adapter, performed, wire>>, SameContainers,
             s = "destroyed" => Attested(Op("destroy_runner", i, lives[i].image))
      PROVE  JobsInv'
  <2>1. /\ lives[i].state # "none" /\ s \in JobState
        /\ s \in {"proven_clean", "quarantined"} => lives[i].state = "destroyed"
    BY <1>2, TableFacts
  <2>2. moved(s) \in JobLifecycle /\ moved(s).image = lives[i].image /\ moved(s).state = s
    BY <2>1 DEF JobsInv, JobsTypeOK, JobLifecycle
  <2>3. lives' = [lives EXCEPT ![i] = moved(s)]  BY <1>2 DEF Moved
  <2>4. s \in Gone => Attested(Op("destroy_runner", i, lives[i].image))
    BY <1>2, <2>1 DEF Gone, JobsInv, GoneInv
  <2> HIDE DEF moved
  <2> QED BY <1>2, <2>1, <2>2, <2>3, <2>4, MoveKeeps
<1>3. ASSUME NEW s \in JobState, End(i, s) PROVE JobsInv'
  <2>1. s # "destroyed" /\ CanMove(i, s) /\ lives' = Moved(i, s)
    BY <1>3, JobsAssumption DEF End, TERMINAL_JOB_STATES
  <2>2. UNCHANGED <<pool, issued, receipts, adapter, box, performed, wire>>
    BY <1>3 DEF End, hostVars
  <2> QED BY <1>2, <2>1, <2>2, SameStay
<1>4. CASE Start(i)
  <2>1. SameContainers
    <3>1. PICK left \in SUBSET {"volume", "network"} :
            box' = [box EXCEPT ![i].residue = @ \cup left]
      BY <1>4 DEF Start
    <3> QED BY <3>1 DEF SameContainers, Container, JobsInv, JobsTypeOK
  <2> QED BY <1>2, <1>4, <2>1 DEF Start
<1>5. CASE Destroyed(i)
  <2>1. UNCHANGED <<pool, issued, receipts, adapter, box, performed, wire>>
    BY <1>5 DEF Destroyed, hostVars
  <2> QED BY <1>2, <1>5, <2>1, SameStay DEF Destroyed
<1>6. CASE Quarantine(i)
  <2>1. UNCHANGED <<pool, issued, receipts, adapter, box, performed, wire>>
    BY <1>6 DEF Quarantine, hostVars
  <2> QED BY <1>2, <1>6, <2>1, SameStay DEF Quarantine
<1>7. ASSUME NEW e \in evidence, Prove(i, e) PROVE JobsInv'
  <2>1. UNCHANGED <<pool, issued, receipts, adapter, box, performed, wire>>
    BY <1>7 DEF Prove, hostVars
  <2>2. CASE lives' = lives
    BY <2>1, <2>2, SameStay, LivesKeep DEF JobsInv, JobsTypeOK, SettledInv, GoneInv
  <2>3. CASE Proves(i, e) /\ lives' = Moved(i, "proven_clean")
    BY <1>2, <2>1, <2>3, SameStay DEF Proves
  <2> QED BY <1>7, <2>2, <2>3 DEF Prove
<1> QED BY <1>1, <1>3, <1>4, <1>5, <1>6, <1>7

-----------------------------------------------------------------------------
\* OrderCreate, OrderDestroy, OrderCancel.
LEMMA OrdersKeep ==
  ASSUME JobsInv, NEW i \in Instance, NEW k \in Key,
         OrderCreate(i, k) \/ OrderDestroy(i, k) \/ OrderCancel(i, k)
  PROVE  JobsInv'
<1>1. pool.image \in Image /\ lives[i] \in JobLifecycle /\ HostOf[i] \in Host
  BY JobsAssumption DEF JobsInv, JobsTypeOK
<1>2. CASE OrderCreate(i, k)
  <2> DEFINE op == Op("create_runner", i, pool.image)
  <2>1. op \in Operation /\ op.kind = "create_runner" /\ op.host = HostOf[op.subject]
    BY <1>1 DEF Op, Operation, OperationKind
  <2>2. lives[i].state \in {"none", "proven_clean"} /\ Untried(op) /\ issue(k, op)
        /\ \A l \in Key : issued[l] # Op("destroy_runner", i, pool.image)
    BY <1>2 DEF OrderCreate, Fresh
  <2>3. ASSUME NEW l \in Instance, lives[l].state # "none"
        PROVE  op # Op("create_runner", l, lives[l].image)
    <3> SUFFICES ASSUME op = Op("create_runner", l, lives[l].image) PROVE FALSE  OBVIOUS
    <3>1. l = i /\ lives[i].image = pool.image  BY DEF Op
    <3>2. Attested(Op("destroy_runner", i, pool.image))
      BY <2>2, <2>3, <3>1 DEF Gone, JobsInv, GoneInv
    <3> QED BY <2>2, <3>2 DEF Attested
  <2>4. ASSUME NEW l \in Key, issued[l] # Nothing, issued[l].kind = "destroy_runner"
        PROVE  op # Op("create_runner", issued[l].subject, issued[l].image)
    <3> SUFFICES ASSUME op = Op("create_runner", issued[l].subject, issued[l].image)
                 PROVE  FALSE
      OBVIOUS
    <3>1. issued[l].subject = i /\ issued[l].image = pool.image  BY DEF Op
    <3>2. issued[l].host = HostOf[i]  BY <2>4, <3>1 DEF JobsInv, HostInv
    <3>3. issued[l] \in Operation  BY <2>4 DEF JobsInv, JobsTypeOK
    <3>4. issued[l] = Op("destroy_runner", i, pool.image)
      BY <2>4, <3>1, <3>2, <3>3 DEF Op, Operation
    <3> QED BY <2>2, <3>4
  <2> HIDE DEF op
  <2> QED BY <2>1, <2>2, <2>3, <2>4, IssueKeeps
<1>3. CASE OrderDestroy(i, k)
  <2> DEFINE op == Op("destroy_runner", i, lives[i].image)
  <2>1. lives[i].state # "none" /\ issue(k, op) /\ Untried(op)
    BY <1>3, TableFacts DEF OrderDestroy
  <2>2. lives[i].image \in Image /\ Settled(i, lives[i].image)
    BY <2>1 DEF JobsInv, JobsTypeOK, SettledInv
  <2>3. op \in Operation /\ op.kind = "destroy_runner" /\ op.host = HostOf[op.subject]
        /\ op.subject = i /\ op.image = lives[i].image
    BY <1>1, <2>2 DEF Op, Operation, OperationKind
  <2> HIDE DEF op
  <2> QED BY <2>1, <2>2, <2>3, IssueKeeps
<1>4. CASE OrderCancel(i, k)
  <2> DEFINE op == Op("cancel_or_timeout", i, lives[i].image)
  <2>1. lives[i].image \in Image /\ issue(k, op)
    BY <1>4 DEF OrderCancel, JobsInv, JobsTypeOK
  <2>2. op \in Operation /\ op.kind = "cancel_or_timeout" /\ op.host = HostOf[op.subject]
    BY <1>1, <2>1 DEF Op, Operation, OperationKind
  <2>3. op.kind \notin Physical  BY DEF Op, Physical
  <2> HIDE DEF op
  <2> QED BY <2>1, <2>2, <2>3, IssueKeeps DEF Physical
<1> QED BY <1>2, <1>3, <1>4

\* An adapter is attached only if it takes the durable key.
LEMMA AttachKeeps ==
  ASSUME JobsInv, NEW h \in Host, NEW a \in Adapters, Attach(h, a) PROVE JobsInv'
<1>1. /\ adapter' = [adapter EXCEPT ![h] = a] /\ check_contract(a, Runtime)
      /\ UNCHANGED <<lives, pool, issued, receipts, box, performed, wire>>
  BY DEF Attach, managerVars
<1>2. \A call \in Physical : "operation_key" \in a.calls[call]
  BY <1>1 DEF check_contract, Names, ADAPTER_CALLS, MUTATING_CALLS, Physical
<1>3. AdaptersRemember' /\ HostInv'
  BY <1>1, <1>2 DEF JobsInv, AdaptersRemember, Remembers, HostInv
<1>4. JobsTypeOK' /\ WireInv' /\ ReceiptInv' /\ OneUnderWay'
  BY <1>1 DEF JobsInv, JobsTypeOK, WireInv, ReceiptInv, Own, OneUnderWay, FailedAt
<1>5. SettledInv' /\ DestructionHolds' /\ GoneInv'
  BY <1>1 DEF JobsInv, SettledInv, Settled, Op, DestructionHolds, Own, GoneInv, Attested
<1> QED BY <1>3, <1>4, <1>5 DEF JobsInv

\* An answer more on the wire, and perhaps a key more that was carried out.
LEMMA AnswerKeeps ==
  ASSUME JobsInv, UNCHANGED <<lives, pool, issued, receipts, adapter>>,
         box' \in [Instance -> Container],
         performed \subseteq performed', NEW r \in AgentReceipt, wire' = wire \cup {r},
         issued[r.key] # Nothing, Own(r) => r.key \in performed',
         DestructionHolds'
  PROVE  JobsInv'
<1>1. JobsTypeOK'  BY DEF JobsInv, JobsTypeOK
<1>2. AdaptersRemember' /\ HostInv'  BY DEF JobsInv, AdaptersRemember, Remembers, HostInv
<1>3. WireInv' /\ ReceiptInv'  BY DEF JobsInv, WireInv, ReceiptInv, Own
<1>4. OneUnderWay'  BY DEF JobsInv, OneUnderWay, FailedAt
<1>5. SettledInv'  BY DEF JobsInv, SettledInv, Settled, Op
<1>6. GoneInv'  BY DEF JobsInv, GoneInv, Attested, Op
<1> QED BY <1>1, <1>2, <1>3, <1>4, <1>5, <1>6 DEF JobsInv

\* An agent carries out an operation, or fails to.
LEMMA PerformKeeps == ASSUME JobsInv, NEW k \in Key, Perform(k) PROVE JobsInv'
<1> DEFINE op == issued[k]
<1>1. /\ op # Nothing /\ op \in Operation /\ adapter[op.host] # Nothing
      /\ UNCHANGED <<lives, pool, issued, receipts, adapter>>
      /\ performed' = performed \cup {k}
  BY DEF Perform, managerVars, JobsInv, JobsTypeOK
<1>2. op.subject \in Instance /\ op.host \in Host /\ op.image \in Image /\ op.kind \in OperationKind
  BY <1>1 DEF Operation
<1>3. ASSUME NEW outcome \in {"completed", "failed"},
             wire' = wire \cup {[key |-> k, host |-> op.host, outcome |-> outcome]},
             box' \in [Instance -> Container], DestructionHolds'
      PROVE  JobsInv'
  <2> DEFINE r == [key |-> k, host |-> op.host, outcome |-> outcome]
  <2>1. r \in AgentReceipt /\ r.key = k  BY <1>2, <1>3 DEF AgentReceipt
  <2> HIDE DEF r
  <2>2. wire' = wire \cup {r}  BY <1>3 DEF r
  <2> QED BY <1>1, <1>3, <2>1, <2>2, AnswerKeeps
<1>4. CASE /\ wire' = wire \cup {[key |-> k, host |-> op.host, outcome |-> "failed"]}
           /\ UNCHANGED box
  <2>1. DestructionHolds'
    BY <1>1, <1>4 DEF JobsInv, DestructionHolds, Own
  <2> QED BY <1>3, <1>4, <2>1 DEF JobsInv, JobsTypeOK
<1>5. ASSUME NEW c \in Effect(op), box' = [box EXCEPT ![op.subject] = c],
             wire' = wire \cup {[key |-> k, host |-> op.host, outcome |-> "completed"]}
      PROVE  JobsInv'
  <2> DEFINE b == box[op.subject]
  <2>1. b \in Container  BY <1>2 DEF JobsInv, JobsTypeOK
  <2>2. op.kind = "create_runner" =>
          /\ c \in Container /\ c.image = op.image
          /\ k \notin performed
    <3>1. op.kind = "create_runner" => c = [up |-> TRUE, image |-> op.image, residue |-> {}]
      BY <1>5 DEF Effect
    <3>2. op.kind = "create_runner" => k \notin performed
      BY <1>1, <1>2 DEF Perform, JobsInv, AdaptersRemember, Physical
    <3>3. [up |-> TRUE, image |-> op.image, residue |-> {}] \in Container
      BY <1>2 DEF Container
    <3>4. [up |-> TRUE, image |-> op.image, residue |-> {}].image = op.image  OBVIOUS
    <3> QED BY <3>1, <3>2, <3>3, <3>4
  <2>3. op.kind = "destroy_runner" => c \in Container /\ c.up = FALSE
    <3> SUFFICES ASSUME op.kind = "destroy_runner" PROVE c \in Container /\ c.up = FALSE
      OBVIOUS
    <3>1. PICK left \in SUBSET b.residue : c = [b EXCEPT !.up = FALSE, !.residue = left]
      BY <1>5 DEF Effect
    <3> QED BY <2>1, <3>1 DEF Container
  <2>4. op.kind \notin {"create_runner", "destroy_runner"} => c = b
    BY <1>5 DEF Effect
  <2> HIDE DEF b
  <2>5. c \in Container  BY <2>1, <2>2, <2>3, <2>4
  <2>6. box' \in [Instance -> Container]
        /\ \A i \in Instance : box'[i] = IF i = op.subject THEN c ELSE box[i]
    BY <1>5, <2>5 DEF JobsInv, JobsTypeOK
  <2>7. ASSUME NEW r \in wire, Own(r), r.outcome = "completed", issued[r.key].kind = "destroy_runner"
        PROVE  LET was == issued[r.key]
               IN  ~(box'[was.subject].up /\ box'[was.subject].image = was.image)
    <3> DEFINE was == issued[r.key]
    <3>1. r.key \in Key /\ was \in Operation /\ was.subject \in Instance
      BY <2>7 DEF JobsInv, JobsTypeOK, AgentReceipt, Operation, Own
    <3>2. ~(box[was.subject].up /\ box[was.subject].image = was.image)
      BY <2>7 DEF JobsInv, DestructionHolds
    <3>3. CASE was.subject # op.subject  BY <2>6, <3>1, <3>2, <3>3
    <3>4. CASE was.subject = op.subject /\ op.kind = "create_runner"
      <4>1. Settled(was.subject, was.image)
        BY <2>7, <3>1 DEF JobsInv, SettledInv, Own
      <4>2. op # Op("create_runner", was.subject, was.image)
        BY <2>2, <3>4, <4>1 DEF Settled
      <4>3. op.host = HostOf[was.subject]  BY <1>1, <3>4 DEF JobsInv, HostInv
      <4>4. op.image # was.image
        BY <1>1, <3>4, <4>2, <4>3 DEF Op, Operation
      <4> QED BY <2>2, <2>6, <3>1, <3>4, <4>4
    <3>5. CASE was.subject = op.subject /\ op.kind # "create_runner"
      BY <2>3, <2>4, <2>6, <3>1, <3>2, <3>5 DEF b
    <3> QED BY <3>3, <3>4, <3>5
  <2>8. DestructionHolds'
    <3> SUFFICES ASSUME NEW r \in wire', Own(r), r.outcome = "completed",
                        issued[r.key].kind = "destroy_runner"
                 PROVE  LET was == issued[r.key]
                        IN  ~(box'[was.subject].up /\ box'[was.subject].image = was.image)
      BY <1>1 DEF DestructionHolds, Own
    <3>1. CASE r \in wire  BY <2>7, <3>1
    <3>2. CASE r.key = k  BY <1>2, <2>3, <2>6, <3>2
    <3> QED BY <1>5, <3>1, <3>2
  <2> QED BY <1>3, <1>5, <2>6, <2>8
<1> QED BY <1>4, <1>5 DEF Perform

\* Another host answers for what it never had.
LEMMA ElsewhereKeeps ==
  ASSUME JobsInv, NEW k \in Key, NEW h \in Host, PerformElsewhere(k, h) PROVE JobsInv'
<1> DEFINE r == [key |-> k, host |-> h, outcome |-> "completed"]
<1>1. /\ issued[k] # Nothing /\ h # issued[k].host /\ wire' = wire \cup {r}
      /\ UNCHANGED <<lives, pool, issued, receipts, adapter, box, performed>>
  BY DEF PerformElsewhere, managerVars
<1>2. r \in AgentReceipt /\ r.key = k /\ ~Own(r)  BY <1>1 DEF AgentReceipt, Own
<1> HIDE DEF r
<1>3. DestructionHolds'  BY <1>1, <1>2 DEF JobsInv, DestructionHolds, Own
<1> QED BY <1>1, <1>2, <1>3, AnswerKeeps DEF JobsInv, JobsTypeOK

\* What an agent observes or cleans up changes no container's being there.
LEMMA TidyKeeps ==
  ASSUME JobsInv, NEW i \in Instance, Observe(i) \/ CleanUp(i) PROVE JobsInv'
<1>1. UNCHANGED <<lives, pool, issued, receipts, adapter, performed, wire>>
  BY DEF Observe, CleanUp, managerVars
<1>2. SameContainers
  BY DEF Observe, CleanUp, SameContainers, Container, JobsInv, JobsTypeOK
<1> QED BY <1>1, <1>2, LivesKeep DEF JobsInv, JobsTypeOK, SettledInv, GoneInv

-----------------------------------------------------------------------------
LEMMA JobsStarts == JobsInit => JobsInv
<1> SUFFICES ASSUME JobsInit PROVE JobsInv  OBVIOUS
<1>1. JobsTypeOK
  BY DEF JobsInit, JobsTypeOK, JobLifecycle, JobState, Container
<1>2. AdaptersRemember /\ HostInv /\ WireInv /\ ReceiptInv /\ OneUnderWay /\ DestructionHolds
  BY DEF JobsInit, AdaptersRemember, HostInv, WireInv, ReceiptInv, OneUnderWay, DestructionHolds
<1>3. SettledInv /\ GoneInv  BY DEF JobsInit, SettledInv, GoneInv, Gone
<1> QED BY <1>1, <1>2, <1>3 DEF JobsInv

LEMMA JobsKept == JobsInv /\ [JobsNext]_jobsVars => JobsInv'
<1> SUFFICES ASSUME JobsInv, [JobsNext]_jobsVars PROVE JobsInv'  OBVIOUS
<1>1. CASE Manager
  <2>1. ASSUME NEW image \in Image, Repin(image) PROVE JobsInv'
    <3>1. /\ UNCHANGED <<lives, issued, receipts, adapter, box, performed, wire>>
          /\ pool'.image \in Image
      BY <2>1 DEF Repin, hostVars
    <3> QED BY <3>1, SameStay, LivesKeep DEF JobsInv, JobsTypeOK, SettledInv, GoneInv
  <2> QED BY <1>1, <2>1, OrdersKeep, AdmitKeeps, JobMovesKeep, RecordKeeps DEF Manager
<1>2. CASE Hosts
  BY <1>2, AttachKeeps, PerformKeeps, ElsewhereKeeps, TidyKeeps DEF Hosts
<1>3. CASE UNCHANGED jobsVars
  <2>1. UNCHANGED <<lives, pool, issued, receipts, adapter, box, performed, wire>>
    BY <1>3 DEF jobsVars
  <2> QED BY <2>1, SameStay, LivesKeep DEF JobsInv, JobsTypeOK, SettledInv, GoneInv
<1> QED BY <1>1, <1>2, <1>3 DEF JobsNext

-----------------------------------------------------------------------------
(* Which containers there are, and why: a created one stands until its own
   destruction, and evidence is of what is left after one *)

\* The operation of a key was carried out by its own host, which said so.
Answered(k) == [key |-> k, host |-> issued[k].host, outcome |-> "completed"] \in wire
CarriedOut(op) == \E k \in Key : issued[k] = op /\ Answered(k)

Creation(i, image)    == CarriedOut(Op("create_runner", i, image))
Destruction(i, image) == CarriedOut(Op("destroy_runner", i, image))

HistoryTypeOK ==
  /\ ran \in [Instance -> Nat]
  /\ replaced \subseteq Instance
  /\ gate \in [unaccounted : SUBSET Instance, proven : SUBSET evidence, quarantined : SUBSET Instance]
  /\ \A e \in evidence : e.instance \in Instance

\* Of a creation or a destruction a host speaks once.
OneAnswer ==
  \A r, s \in wire : Own(r) /\ Own(s) /\ r.key = s.key /\ issued[r.key].kind \in Physical => r = s

\* A container that was created stands until its own destruction.
StillThere ==
  \A i \in Instance, image \in Image :
    Creation(i, image) /\ ~Destruction(i, image) => box[i].up /\ box[i].image = image

\* Nothing is relied on, and no destruction is ordered, that was not created.
Origin ==
  /\ \A i \in Instance : box[i].image # Nothing => Creation(i, box[i].image)
  /\ \A i \in Instance : lives[i].state # "none" => Creation(i, lives[i].image)
  /\ \A k \in Key : issued[k] # Nothing /\ issued[k].kind = "destroy_runner"
       => Creation(issued[k].subject, issued[k].image)

\* Evidence is of a destroyed instance: of one that is on its way to be
\* destroyed there is none yet.
EvidenceInv ==
  \A e \in evidence :
    /\ e.image # Nothing =>
         \E k \in Key : issued[k] # Nothing /\ issued[k] = Op("destroy_runner", e.instance, e.image)
    /\ e.image = lives[e.instance].image => lives[e.instance].state \in Gone

About(i, e) == e.instance = i /\ e.image = lives[i].image

\* No job ran in a container that may still be offered, and one ran in any.
\* After the evidence of a destruction only a new container can be there.
RanInv ==
  \A i \in Instance :
    /\ ran[i] <= 1
    /\ lives[i].state \in {"none", "prepulled", "assigned"} => ran[i] = 0
    /\ lives[i].state = "proven_clean" /\ box[i].up => ran[i] = 0
    /\ lives[i].state = "destroyed" /\ box[i].up /\ (\E e \in evidence : About(i, e)) => ran[i] = 0

\* What was proven clean is clean, and stays so until it runs a job again.
CleanInv ==
  \A i \in Instance :
    /\ lives[i].state = "proven_clean" => box[i].residue = {}
    /\ lives[i].state = "destroyed" /\ (\E e \in evidence : About(i, e) /\ admissible(e))
         => box[i].residue = {}

\* The gate holds every destroyed instance until it is proven or quarantined.
GateInv ==
  /\ \A i \in replaced : lives[i].state \in {"proven_clean", "quarantined"}
  /\ \A i \in Instance : lives[i].state = "destroyed" => i \in gate.unaccounted

HistoryInv == HistoryTypeOK /\ OneAnswer /\ StillThere /\ Origin /\ EvidenceInv /\ RanInv /\ CleanInv

-----------------------------------------------------------------------------
(* Which operations were carried out *)

LEMMA AnsweredIsIssued ==
  ASSUME JobsInv, NEW k \in Key, Answered(k)
  PROVE  /\ issued[k] # Nothing /\ k \in performed
         /\ [key |-> k, host |-> issued[k].host, outcome |-> "completed"] \in wire
         /\ Own([key |-> k, host |-> issued[k].host, outcome |-> "completed"])
<1> DEFINE r == [key |-> k, host |-> issued[k].host, outcome |-> "completed"]
<1>1. r \in wire /\ r.key = k /\ r.host = issued[k].host  BY DEF Answered
<1> HIDE DEF r
<1>2. issued[k] # Nothing /\ Own(r)  BY <1>1 DEF JobsInv, WireInv, Own
<1>3. k \in performed  BY <1>1, <1>2 DEF JobsInv, WireInv
<1> QED BY <1>1, <1>2, <1>3 DEF r

\* What the manager holds a completed receipt of was carried out.
LEMMA AttestedIsCarriedOut ==
  ASSUME JobsInv, NEW op, Attested(op)
  PROVE  CarriedOut(op)
<1>1. PICK k \in Key : issued[k] = op /\ receipts[k] # Nothing /\ receipts[k].outcome = "completed"
  BY DEF Attested
<1> DEFINE r == receipts[k]
<1>2. r \in wire /\ r.key = k /\ Own(r) /\ r \in AgentReceipt
  BY <1>1 DEF JobsInv, ReceiptInv, JobsTypeOK
<1> HIDE DEF r
<1>3. r = [key |-> k, host |-> issued[k].host, outcome |-> "completed"]
  <2>1. r.outcome = "completed" /\ r.host = issued[k].host  BY <1>1, <1>2 DEF r, Own
  <2> QED BY <1>2, <2>1 DEF AgentReceipt
<1> QED BY <1>1, <1>2, <1>3 DEF CarriedOut, Answered

\* The operations that were carried out are the same when the wire is.
LEMMA SameWire ==
  ASSUME UNCHANGED <<issued, wire>>, NEW op
  PROVE  CarriedOut(op)' <=> CarriedOut(op)
BY DEF CarriedOut, Answered

\* A new key was not answered yet.
LEMMA SameWhenIssued ==
  ASSUME JobsInv, NEW k \in Key, NEW new \in Operation, issue(k, new), NEW op
  PROVE  CarriedOut(op)' <=> CarriedOut(op)
<1>1. issued[k] = Nothing /\ wire' = wire /\ \A l \in Key : issued'[l] = IF l = k THEN new ELSE issued[l]
  BY DEF issue, hostVars, JobsInv, JobsTypeOK
<1>2. ASSUME NEW x PROVE [key |-> k, host |-> x, outcome |-> "completed"] \notin wire
  <2> DEFINE r == [key |-> k, host |-> x, outcome |-> "completed"]
  <2>1. r.key = k  OBVIOUS
  <2> HIDE DEF r
  <2>2. r \notin wire  BY <1>1, <2>1 DEF JobsInv, WireInv
  <2> QED BY <2>2 DEF r
<1>3. \A l \in Key : l # k => (issued'[l] = op /\ Answered(l)' <=> issued[l] = op /\ Answered(l))
  BY <1>1 DEF Answered
<1>4. ~Answered(k) /\ ~Answered(k)'
  BY <1>1, <1>2 DEF Answered
<1> QED BY <1>3, <1>4 DEF CarriedOut

\* While a key of a creation or a destruction is still to be carried out, no
\* other key of it was.
LEMMA CarriedOutOnce ==
  ASSUME JobsInv, HistoryInv, NEW k \in Key, issued[k] # Nothing, issued[k].kind \in Physical,
         k \notin performed
  PROVE  ~CarriedOut(issued[k])
<1> SUFFICES ASSUME NEW l \in Key, issued[l] = issued[k], Answered(l) PROVE FALSE
  BY DEF CarriedOut
<1> DEFINE r == [key |-> l, host |-> issued[l].host, outcome |-> "completed"]
<1>1. l \in performed /\ r \in wire /\ Own(r) /\ r.key = l /\ r.outcome = "completed"
  BY AnsweredIsIssued
<1> HIDE DEF r
<1>2. FailedAt(k) \/ FailedAt(l)
  BY <1>1 DEF JobsInv, OneUnderWay
<1>3. ~FailedAt(k)
  <2> SUFFICES ASSUME FailedAt(k) PROVE FALSE  OBVIOUS
  <2>1. receipts[k] \in wire /\ receipts[k].key = k /\ Own(receipts[k])
    BY DEF FailedAt, JobsInv, ReceiptInv
  <2>2. k \in performed  BY <2>1 DEF JobsInv, WireInv
  <2> QED BY <2>2
<1>4. ~FailedAt(l)
  <2> SUFFICES ASSUME FailedAt(l) PROVE FALSE  OBVIOUS
  <2>1. receipts[l] \in wire /\ receipts[l].key = l /\ Own(receipts[l]) /\ receipts[l].outcome # "completed"
    BY DEF FailedAt, JobsInv, ReceiptInv
  <2>2. receipts[l] = r
    BY <1>1, <2>1 DEF HistoryInv, OneAnswer
  <2> QED BY <1>1, <2>1, <2>2
<1> QED BY <1>2, <1>3, <1>4

-----------------------------------------------------------------------------
(* The steps of the manager *)

\* A new key: what was carried out stays what was carried out.
LEMMA IssueTells ==
  ASSUME JobsInv, HistoryInv, NEW k \in Key, NEW op \in Operation, issue(k, op),
         op.kind = "destroy_runner" => Creation(op.subject, op.image)
  PROVE  HistoryInv'
<1>1. /\ issued[k] = Nothing /\ \A l \in Key : issued'[l] = IF l = k THEN op ELSE issued[l]
      /\ \A l \in Key : issued[l] # Nothing => issued'[l] = issued[l]
      /\ UNCHANGED <<lives, gate, box, wire, evidence, ran, replaced>>
  BY DEF issue, hostVars, JobsInv, JobsTypeOK
<1>2. ASSUME NEW i, NEW image
      PROVE  /\ Creation(i, image)' <=> Creation(i, image)
             /\ Destruction(i, image)' <=> Destruction(i, image)
  <2>1. PICK c : c = Op("create_runner", i, image)  OBVIOUS
  <2>2. PICK d : d = Op("destroy_runner", i, image)  OBVIOUS
  <2>3. (CarriedOut(c)' <=> CarriedOut(c)) /\ (CarriedOut(d)' <=> CarriedOut(d))
    BY SameWhenIssued
  <2> QED BY <2>1, <2>2, <2>3 DEF Creation, Destruction, CarriedOut, Answered, Op
<1>3. HistoryTypeOK'  BY <1>1 DEF HistoryInv, HistoryTypeOK
<1>4. OneAnswer'
  <2>1. \A r \in wire : r.key \in Key /\ issued[r.key] # Nothing
    BY DEF JobsInv, JobsTypeOK, AgentReceipt, WireInv
  <2>2. \A r \in wire : issued'[r.key] = issued[r.key]  BY <1>1, <2>1
  <2> QED BY <1>1, <2>2 DEF HistoryInv, OneAnswer, Own
<1>5. StillThere'
  BY <1>1, <1>2 DEF HistoryInv, StillThere
<1>6. Origin'
  <2>1. ASSUME NEW i \in Instance PROVE /\ box[i].image # Nothing => Creation(i, box[i].image)'
                                        /\ lives[i].state # "none" => Creation(i, lives[i].image)'
    <3>1. PICK b : b = box[i].image  OBVIOUS
    <3>2. PICK m : m = lives[i].image  OBVIOUS
    <3>3. (Creation(i, b)' <=> Creation(i, b)) /\ (Creation(i, m)' <=> Creation(i, m))
      BY <1>2
    <3>4. /\ box[i].image # Nothing => Creation(i, b)
          /\ lives[i].state # "none" => Creation(i, m)
      BY <3>1, <3>2 DEF HistoryInv, Origin
    <3> QED BY <1>1, <3>1, <3>2, <3>3, <3>4 DEF Creation, CarriedOut, Answered, Op
  <2>2. ASSUME NEW l \in Key, issued'[l] # Nothing, issued'[l].kind = "destroy_runner"
        PROVE  Creation(issued[l].subject, issued[l].image)' \/ l = k
    <3>1. CASE l # k
      <4>1. PICK x : x = issued[l]  OBVIOUS
      <4>2. Creation(x.subject, x.image)  BY <1>1, <2>2, <3>1, <4>1 DEF HistoryInv, Origin
      <4>3. Creation(x.subject, x.image)' <=> Creation(x.subject, x.image)  BY <1>2
      <4>4. issued'[l] = x  BY <1>1, <3>1, <4>1
      <4> QED BY <4>2, <4>3, <4>4 DEF Creation, CarriedOut, Answered, Op
    <3> QED BY <3>1
  <2>3. op.kind = "destroy_runner" => Creation(op.subject, op.image)'
    <3>1. Creation(op.subject, op.image)' <=> Creation(op.subject, op.image)  BY <1>2
    <3> QED BY <3>1
  <2>4. ASSUME NEW l \in Key, issued'[l] # Nothing, issued'[l].kind = "destroy_runner"
        PROVE  Creation(issued[l].subject, issued[l].image)'
    <3>1. CASE l = k
      <4>1. issued'[l] = op  BY <1>1, <3>1
      <4> QED BY <2>3, <2>4, <4>1 DEF Creation, CarriedOut, Answered, Op
    <3> QED BY <2>2, <2>4, <3>1
  <2> QED BY <1>1, <2>1, <2>4 DEF Origin
<1>7. EvidenceInv'
  <2>1. ASSUME NEW e \in evidence, e.image # Nothing
        PROVE  \E l \in Key : issued'[l] # Nothing /\ issued'[l] = Op("destroy_runner", e.instance, e.image)
    <3>1. PICK l \in Key : issued[l] # Nothing /\ issued[l] = Op("destroy_runner", e.instance, e.image)
      BY <2>1 DEF HistoryInv, EvidenceInv
    <3>2. issued'[l] = issued[l]  BY <1>1, <3>1
    <3> QED BY <3>1, <3>2
  <2> QED BY <1>1, <2>1 DEF HistoryInv, EvidenceInv, Op
<1>8. RanInv' /\ CleanInv'
  BY <1>1 DEF HistoryInv, RanInv, CleanInv, About
<1> QED BY <1>3, <1>4, <1>5, <1>6, <1>7, <1>8 DEF HistoryInv

\* What was carried out is the same: so are what stands and where it is from.
LEMMA WireTells ==
  ASSUME HistoryInv, UNCHANGED <<issued, wire, box>>
  PROVE  /\ OneAnswer' /\ StillThere'
         /\ \A i \in Instance : box'[i].image # Nothing => Creation(i, box[i].image)'
         /\ \A k \in Key : issued'[k] # Nothing /\ issued'[k].kind = "destroy_runner"
              => Creation(issued[k].subject, issued[k].image)'
         /\ \A i \in Instance : lives[i].state # "none" /\ lives'[i].image = lives[i].image
              => Creation(i, lives[i].image)'
<1>1. OneAnswer'  BY DEF HistoryInv, OneAnswer, Own
<1>2. StillThere'
  BY DEF HistoryInv, StillThere, Creation, Destruction, CarriedOut, Answered, Op
<1> QED
  BY <1>1, <1>2 DEF HistoryInv, Origin, Creation, CarriedOut, Answered, Op

\* One instance moves on in the job machine.
LEMMA MoveTells ==
  ASSUME JobsInv, HistoryInv, UNCHANGED <<issued, wire, box, ran, evidence, replaced>>,
         NEW i \in Instance, NEW rec, lives' = [lives EXCEPT ![i] = rec],
         lives[i].state # "none", rec.image = lives[i].image,
         lives[i].state \in Gone => rec.state \in Gone,
         rec.state \in {"none", "prepulled", "assigned"} => lives[i].state \in {"prepulled", "assigned"},
         rec.state = "destroyed" => lives[i].state \notin Gone,
         rec.state = "proven_clean" =>
           lives[i].state = "destroyed" /\ \E e \in evidence : About(i, e) /\ admissible(e),
         gate' \in [unaccounted : SUBSET Instance, proven : SUBSET evidence, quarantined : SUBSET Instance]
  PROVE  HistoryInv'
<1>1. \A l \in Instance : lives'[l] = IF l = i THEN rec ELSE lives[l]
  BY DEF JobsInv, JobsTypeOK
<1>2. HistoryTypeOK'  BY DEF HistoryInv, HistoryTypeOK
<1>3. \A l \in Instance : lives'[l].image = lives[l].image  BY <1>1
<1>4. Origin'
  <2>1. ASSUME NEW l \in Instance, lives'[l].state # "none" PROVE Creation(l, lives[l].image)'
    <3>1. lives[l].state # "none"  BY <1>1, <2>1
    <3> QED BY <1>3, <3>1, WireTells
  <2> QED BY <2>1, WireTells DEF Origin
<1>5. EvidenceInv'
  BY <1>1, <1>3 DEF HistoryInv, HistoryTypeOK, EvidenceInv, Op
<1>6. \A e \in evidence : ~About(i, e) \/ lives[i].state \in Gone
  BY DEF HistoryInv, EvidenceInv, About
<1>7. \A l \in Instance, e \in evidence : About(l, e)' <=> About(l, e)
  BY <1>3 DEF About
<1>8. RanInv'
  <2> SUFFICES ASSUME NEW l \in Instance
               PROVE  /\ ran[l] <= 1
                      /\ lives'[l].state \in {"none", "prepulled", "assigned"} => ran[l] = 0
                      /\ lives'[l].state = "proven_clean" /\ box[l].up => ran[l] = 0
                      /\ lives'[l].state = "destroyed" /\ box[l].up /\ (\E e \in evidence : About(l, e)) => ran[l] = 0
    BY <1>7 DEF RanInv
  <2>1. CASE l # i  BY <1>1, <2>1 DEF HistoryInv, RanInv
  <2>2. CASE l = i  BY <1>1, <1>6, <2>2 DEF HistoryInv, RanInv
  <2> QED BY <2>1, <2>2
<1>9. CleanInv'
  <2> SUFFICES ASSUME NEW l \in Instance
               PROVE  /\ lives'[l].state = "proven_clean" => box[l].residue = {}
                      /\ lives'[l].state = "destroyed" /\ (\E e \in evidence : About(l, e) /\ admissible(e))
                           => box[l].residue = {}
    BY <1>7 DEF CleanInv
  <2>1. CASE l # i  BY <1>1, <2>1 DEF HistoryInv, CleanInv
  <2>2. CASE l = i  BY <1>1, <1>6, <2>2 DEF HistoryInv, CleanInv
  <2> QED BY <2>1, <2>2
<1> QED BY <1>2, <1>4, <1>5, <1>8, <1>9, WireTells DEF HistoryInv

LEMMA StartTells == ASSUME JobsInv, HistoryInv, NEW i \in Instance, Start(i) PROVE HistoryInv'
<1>1. PICK left \in SUBSET {"volume", "network"} : box' = [box EXCEPT ![i].residue = @ \cup left]
  BY DEF Start
<1>2. /\ lives[i].state = "assigned" /\ lives' = [lives EXCEPT ![i].state = "running"]
      /\ ran' = [ran EXCEPT ![i] = @ + 1]
      /\ UNCHANGED <<gate, issued, wire, evidence, replaced>>
  BY DEF Start, CanMove, next_states, Moved, TERMINAL_JOB_STATES
<1>3. /\ \A l \in Instance : /\ lives'[l].image = lives[l].image
                             /\ lives'[l].state = IF l = i THEN "running" ELSE lives[l].state
                             /\ box'[l].up = box[l].up /\ box'[l].image = box[l].image
                             /\ ran'[l] = IF l = i THEN ran[i] + 1 ELSE ran[l]
      /\ \A l \in Instance : l # i => box'[l] = box[l]
      /\ ran[i] = 0
  BY <1>1, <1>2 DEF JobsInv, JobsTypeOK, JobLifecycle, Container, HistoryInv, HistoryTypeOK, RanInv
<1>4. HistoryTypeOK'
  BY <1>2 DEF HistoryInv, HistoryTypeOK
<1>5. \A i1, i2 : /\ Creation(i1, i2)' <=> Creation(i1, i2)
                  /\ Destruction(i1, i2)' <=> Destruction(i1, i2)
  BY <1>2 DEF Creation, Destruction, CarriedOut, Answered, Op
<1>6. OneAnswer' /\ StillThere'
  BY <1>2, <1>3, <1>5 DEF HistoryInv, OneAnswer, Own, StillThere
<1>7. Origin'
  <2>1. \A l \in Instance : box'[l].image # Nothing => Creation(l, box[l].image)'
    BY <1>2, <1>3 DEF HistoryInv, Origin, Creation, CarriedOut, Answered, Op
  <2>2. \A l \in Instance : lives'[l].state # "none" => Creation(l, lives[l].image)'
    BY <1>2, <1>3 DEF HistoryInv, Origin, Creation, CarriedOut, Answered, Op
  <2>3. \A k \in Key : issued'[k] # Nothing /\ issued'[k].kind = "destroy_runner"
          => Creation(issued[k].subject, issued[k].image)'
    BY <1>2 DEF HistoryInv, Origin, Creation, CarriedOut, Answered, Op
  <2> QED BY <2>1, <2>2, <2>3 DEF Origin
<1>8. EvidenceInv'
  BY <1>2, <1>3 DEF HistoryInv, HistoryTypeOK, EvidenceInv, Op, Gone
<1>9. \A l \in Instance, e \in evidence : About(l, e)' <=> About(l, e)
  BY <1>3 DEF About
<1>10. RanInv'  BY <1>2, <1>3, <1>9 DEF HistoryInv, RanInv
<1>11. CleanInv'  BY <1>2, <1>3, <1>9 DEF HistoryInv, CleanInv
<1> QED BY <1>4, <1>6, <1>7, <1>8, <1>10, <1>11 DEF HistoryInv

\* A created instance joins the stock: no job ran in what stands there.
LEMMA AdmitTells ==
  ASSUME JobsInv, HistoryInv, NEW i \in Instance, NEW old \in Instance \cup {Nothing}, Admit(i, old)
  PROVE  HistoryInv'
<1> DEFINE rec == [state |-> "prepulled", job |-> Nothing, image |-> pool.image]
           g == pool.image
<1>1. /\ lives' = [lives EXCEPT ![i] = rec] /\ Attested(Op("create_runner", i, g)) /\ Fresh(i, g)
      /\ replaced' = (replaced \ {i}) \cup ({old} \ {Nothing, i})
      /\ UNCHANGED <<gate, issued, box, wire, evidence, ran>>
  BY DEF Admit, hostVars
<1>2. g \in Image /\ g # Nothing  BY JobsAssumption DEF JobsInv, JobsTypeOK
<1>3. /\ lives[i].state \in {"none", "proven_clean"}
      /\ \A k \in Key : issued[k] # Op("destroy_runner", i, g)
  BY <1>1 DEF Fresh
<1>4. Creation(i, g) /\ ~Destruction(i, g)
  <2>1. CarriedOut(Op("create_runner", i, g))  BY <1>1, AttestedIsCarriedOut
  <2> QED BY <1>3, <2>1 DEF Creation, Destruction, CarriedOut
<1>5. box[i].up  BY <1>2, <1>4 DEF HistoryInv, StillThere
<1>6. ran[i] = 0  BY <1>3, <1>5 DEF HistoryInv, RanInv
<1>7. \A l \in Instance : lives'[l] = IF l = i THEN rec ELSE lives[l]
  BY <1>1 DEF JobsInv, JobsTypeOK
<1>8. HistoryTypeOK'  BY <1>1 DEF HistoryInv, HistoryTypeOK
<1>9. Origin'
  <2>1. ASSUME NEW l \in Instance, lives'[l].state # "none" PROVE Creation(l, lives'[l].image)
    <3>1. CASE l = i  BY <1>4, <1>7, <3>1
    <3>2. CASE l # i  BY <1>7, <2>1, <3>2 DEF HistoryInv, Origin
    <3> QED BY <3>1, <3>2
  <2>2. \A l \in Instance : lives'[l].state # "none" => Creation(l, lives[l].image)'
    BY <1>1, <2>1 DEF Creation, CarriedOut, Answered, Op
  <2> QED BY <1>1, <2>2, WireTells DEF Origin
<1>10. EvidenceInv'
  <2> SUFFICES ASSUME NEW e \in evidence
               PROVE  /\ e.image # Nothing =>
                           \E k \in Key : issued[k] # Nothing /\ issued[k] = Op("destroy_runner", e.instance, e.image)
                      /\ e.image = lives'[e.instance].image => lives'[e.instance].state \in Gone
    BY <1>1 DEF EvidenceInv, Op
  <2>1. e.instance \in Instance  BY DEF HistoryInv, HistoryTypeOK
  <2>2. e.instance = i => e.image # g
    BY <1>2, <1>3 DEF HistoryInv, EvidenceInv
  <2> QED BY <1>7, <2>1, <2>2 DEF HistoryInv, EvidenceInv
<1>11. RanInv'
  <2> SUFFICES ASSUME NEW l \in Instance
               PROVE  /\ ran[l] <= 1
                      /\ lives'[l].state \in {"none", "prepulled", "assigned"} => ran[l] = 0
                      /\ lives'[l].state = "proven_clean" /\ box[l].up => ran[l] = 0
                      /\ lives'[l].state = "destroyed" /\ box[l].up
                           /\ (\E e \in evidence : e.instance = l /\ e.image = lives'[l].image) => ran[l] = 0
    BY <1>1 DEF RanInv, About
  <2>1. CASE l # i  BY <1>7, <2>1 DEF HistoryInv, RanInv, About
  <2>2. CASE l = i  BY <1>6, <1>7, <2>2
  <2> QED BY <2>1, <2>2
<1>12. CleanInv'
  <2> SUFFICES ASSUME NEW l \in Instance
               PROVE  /\ lives'[l].state = "proven_clean" => box[l].residue = {}
                      /\ lives'[l].state = "destroyed"
                           /\ (\E e \in evidence : e.instance = l /\ e.image = lives'[l].image /\ admissible(e))
                           => box[l].residue = {}
    BY <1>1 DEF CleanInv, About
  <2>1. CASE l # i  BY <1>7, <2>1 DEF HistoryInv, CleanInv, About
  <2>2. CASE l = i  BY <1>7, <2>2
  <2> QED BY <2>1, <2>2
<1> QED BY <1>1, <1>8, <1>9, <1>10, <1>11, <1>12, WireTells DEF HistoryInv

\* offer, refuse, finish, destroy, prove, quarantine.
LEMMA JobMovesTell ==
  ASSUME JobsInv, HistoryInv, NEW i \in Instance,
         \/ \E j \in Job : Offer(i, j)
         \/ \E to \in JobState : End(i, to)
         \/ Destroyed(i) \/ Quarantine(i)
         \/ \E e \in evidence : Prove(i, e)
  PROVE  HistoryInv'
<1> DEFINE moved(s) == [lives[i] EXCEPT !.state = s]
           Gates == [unaccounted : SUBSET Instance, proven : SUBSET evidence, quarantined : SUBSET Instance]
<1>1. gate \in Gates  BY DEF HistoryInv, HistoryTypeOK
<1>2. ASSUME NEW s, CanMove(i, s), lives' = Moved(i, s), s # "assigned",
             UNCHANGED <<issued, wire, box, ran, evidence, replaced>>, gate' \in Gates,
             s = "proven_clean" => \E e \in evidence : About(i, e) /\ admissible(e)
      PROVE  HistoryInv'
  <2>1. /\ lives[i].state # "none"
        /\ s \notin {"none", "prepulled", "assigned"}
        /\ s \in {"proven_clean", "quarantined"} => lives[i].state = "destroyed"
        /\ s = "destroyed" => lives[i].state \notin Gone
        /\ lives[i].state \in Gone => s \in Gone
    BY <1>2 DEF CanMove, next_states, TERMINAL_JOB_STATES, Gone
  <2>2. moved(s).image = lives[i].image /\ moved(s).state = s
    BY DEF JobsInv, JobsTypeOK, JobLifecycle
  <2>3. lives' = [lives EXCEPT ![i] = moved(s)]  BY <1>2 DEF Moved
  <2> HIDE DEF moved
  <2> QED BY <1>2, <2>1, <2>2, <2>3, MoveTells
<1>3. ASSUME NEW j \in Job, Offer(i, j) PROVE HistoryInv'
  <2> DEFINE rec == [lives[i] EXCEPT !.state = "assigned", !.job = j]
  <2>1. lives[i] \in JobLifecycle  BY DEF JobsInv, JobsTypeOK
  <2>2. rec.image = lives[i].image /\ rec.state = "assigned"
    BY <2>1 DEF JobLifecycle
  <2>3. lives[i].state = "prepulled"
    BY <1>3 DEF Offer, CanMove, next_states, TERMINAL_JOB_STATES
  <2>4. lives' = [lives EXCEPT ![i] = rec]
    BY <1>3 DEF Offer, JobsInv, JobsTypeOK
  <2>5. UNCHANGED <<issued, wire, box, ran, evidence, replaced, gate>>
    BY <1>3 DEF Offer, hostVars
  <2> HIDE DEF rec
  <2> QED BY <1>1, <2>2, <2>3, <2>4, <2>5, MoveTells DEF Gone
<1>4. ASSUME NEW s \in JobState, End(i, s) PROVE HistoryInv'
  <2>1. CanMove(i, s) /\ lives' = Moved(i, s) /\ s \notin {"assigned", "proven_clean"}
    BY <1>4, JobsAssumption DEF End, TERMINAL_JOB_STATES
  <2>2. UNCHANGED <<issued, wire, box, ran, evidence, replaced, gate>>
    BY <1>4 DEF End, hostVars
  <2> QED BY <1>1, <1>2, <2>1, <2>2
<1>5. CASE Destroyed(i)
  <2>1. gate' \in Gates  BY <1>1, <1>5 DEF Destroyed, gate_destroyed
  <2>2. UNCHANGED <<issued, wire, box, ran, evidence, replaced>>
    BY <1>5 DEF Destroyed, hostVars
  <2> QED BY <1>2, <1>5, <2>1, <2>2 DEF Destroyed
<1>6. CASE Quarantine(i)
  <2>1. gate' \in Gates  BY <1>1, <1>6 DEF Quarantine, gate_quarantine
  <2>2. UNCHANGED <<issued, wire, box, ran, evidence, replaced>>
    BY <1>6 DEF Quarantine, hostVars
  <2> QED BY <1>2, <1>6, <2>1, <2>2 DEF Quarantine
<1>7. ASSUME NEW e \in evidence, Prove(i, e) PROVE HistoryInv'
  <2>1. gate' \in Gates  BY <1>1, <1>7 DEF Prove, gate_prove
  <2>2. UNCHANGED <<issued, wire, box, ran, evidence, replaced>>
    BY <1>7 DEF Prove, hostVars
  <2>3. CASE Proves(i, e) /\ lives' = Moved(i, "proven_clean")
    BY <1>2, <2>1, <2>2, <2>3 DEF Proves, About
  <2>4. CASE lives' = lives
    <3>1. HistoryTypeOK'  BY <2>1, <2>2, <2>4 DEF HistoryInv, HistoryTypeOK
    <3>2. Origin'
      BY <2>2, <2>4, WireTells DEF Origin
    <3>3. EvidenceInv' /\ RanInv' /\ CleanInv'
      BY <2>2, <2>4 DEF HistoryInv, EvidenceInv, RanInv, CleanInv, About, Op
    <3> QED BY <2>2, <3>1, <3>2, <3>3, WireTells DEF HistoryInv
  <2> QED BY <1>7, <2>3, <2>4 DEF Prove
<1> QED BY <1>3, <1>4, <1>5, <1>6, <1>7

-----------------------------------------------------------------------------
\* OrderCreate, OrderDestroy, OrderCancel: only what was created is to be
\* destroyed.
LEMMA OrdersTell ==
  ASSUME JobsInv, HistoryInv, NEW i \in Instance, NEW k \in Key,
         OrderCreate(i, k) \/ OrderDestroy(i, k) \/ OrderCancel(i, k)
  PROVE  HistoryInv'
<1>1. pool.image \in Image /\ HostOf[i] \in Host
  BY JobsAssumption DEF JobsInv, JobsTypeOK
<1>2. ASSUME NEW kind \in OperationKind, NEW image \in Image, issue(k, Op(kind, i, image)),
             kind = "destroy_runner" => Creation(i, image)
      PROVE  HistoryInv'
  <2> DEFINE op == Op(kind, i, image)
  <2>1. op \in Operation /\ op.kind = kind /\ op.subject = i /\ op.image = image
    BY <1>1 DEF Op, Operation
  <2>2. issue(k, op)  BY <1>2
  <2> HIDE DEF op
  <2> QED BY <1>2, <2>1, <2>2, IssueTells
<1>3. CASE OrderCreate(i, k)
  BY <1>1, <1>2, <1>3 DEF OrderCreate, OperationKind
<1>4. CASE OrderDestroy(i, k)
  <2>1. lives[i].state # "none" /\ issue(k, Op("destroy_runner", i, lives[i].image))
    BY <1>4, TableFacts DEF OrderDestroy
  <2>2. lives[i].image \in Image /\ Creation(i, lives[i].image)
    BY <2>1 DEF JobsInv, JobsTypeOK, HistoryInv, Origin
  <2> QED BY <1>2, <2>1, <2>2 DEF OperationKind
<1>5. CASE OrderCancel(i, k)
  <2>1. lives[i].image \in Image /\ issue(k, Op("cancel_or_timeout", i, lives[i].image))
    BY <1>5 DEF OrderCancel, JobsInv, JobsTypeOK
  <2> QED BY <1>2, <2>1 DEF OperationKind
<1> QED BY <1>3, <1>4, <1>5

\* record, Attach, Repin: nothing the history tells of changes.
LEMMA QuietTells ==
  ASSUME HistoryInv, UNCHANGED <<lives, gate, issued, box, wire, evidence, ran, replaced>>
  PROVE  HistoryInv'
<1>1. HistoryTypeOK'  BY DEF HistoryInv, HistoryTypeOK
<1>2. Origin'  BY WireTells DEF HistoryInv, Origin
<1>3. EvidenceInv' /\ RanInv' /\ CleanInv'
  BY DEF HistoryInv, EvidenceInv, RanInv, CleanInv, About, Op
<1> QED BY <1>1, <1>2, <1>3, WireTells DEF HistoryInv

-----------------------------------------------------------------------------
(* The steps of the hosts *)

\* An answer more on the wire: if its own host says an operation is carried
\* out, that operation is carried out besides.
LEMMA AnswerTells ==
  ASSUME JobsInv, NEW k \in Key, NEW r \in AgentReceipt, r.key = k, UNCHANGED issued,
         wire' = wire \cup {r}, NEW op, op # Nothing
  PROVE  CarriedOut(op)' <=> CarriedOut(op) \/ (Own(r) /\ r.outcome = "completed" /\ issued[k] = op)
<1>1. \A l \in Key : issued[l] = op =>
        (Answered(l)' <=> Answered(l) \/ (l = k /\ Own(r) /\ r.outcome = "completed"))
  <2> SUFFICES ASSUME NEW l \in Key, issued[l] = op
               PROVE  Answered(l)' <=> Answered(l) \/ (l = k /\ Own(r) /\ r.outcome = "completed")
    OBVIOUS
  <2> DEFINE a == [key |-> l, host |-> issued[l].host, outcome |-> "completed"]
  <2>1. a.key = l /\ a.host = issued[l].host /\ a.outcome = "completed"  OBVIOUS
  <2>2. l = k /\ Own(r) /\ r.outcome = "completed" => r = a
    BY DEF AgentReceipt, Own
  <2>3. (Answered(l)' <=> a \in wire \cup {r}) /\ (Answered(l) <=> a \in wire)  BY DEF Answered
  <2> HIDE DEF a
  <2>4. r = a => l = k /\ Own(r) /\ r.outcome = "completed"
    BY <2>1 DEF Own
  <2> QED BY <2>2, <2>3, <2>4
<1> QED BY <1>1 DEF CarriedOut

\* Of a creation or a destruction an adapter does not say the same twice.
LEMMA OneAnswerMore ==
  ASSUME JobsInv, HistoryInv, NEW k \in Key, NEW r \in AgentReceipt, r.key = k, UNCHANGED issued,
         wire' = wire \cup {r}, Own(r) /\ issued[k].kind \in Physical => k \notin performed
  PROVE  OneAnswer'
<1> SUFFICES ASSUME NEW p \in wire', NEW q \in wire', Own(p), Own(q), p.key = q.key,
                    issued[p.key].kind \in Physical
             PROVE  p = q
  BY DEF OneAnswer, Own
<1>1. \A s \in wire : s.key = k /\ Own(s) => k \in performed
  BY DEF JobsInv, WireInv
<1>2. CASE p \in wire /\ q \in wire  BY <1>2 DEF HistoryInv, OneAnswer
<1>3. CASE p = r /\ q \in wire  BY <1>1, <1>3
<1>4. CASE p \in wire /\ q = r  BY <1>1, <1>4
<1> QED BY <1>2, <1>3, <1>4

\* What stands and where it is from, when nothing more was carried out.
LEMMA SameTells ==
  ASSUME HistoryInv, UNCHANGED <<issued, lives, replaced, gate>>, OneAnswer', SameContainers,
         \A i \in Instance, image \in Image :
           /\ Creation(i, image)' <=> Creation(i, image)
           /\ Destruction(i, image)' <=> Destruction(i, image),
         JobsInv
  PROVE  StillThere' /\ Origin'
<1>1. StillThere'  BY DEF HistoryInv, StillThere, SameContainers
<1>2. ASSUME NEW i \in Instance PROVE /\ box'[i].image # Nothing => Creation(i, box[i].image)'
                                      /\ lives[i].state # "none" => Creation(i, lives[i].image)'
  <2>1. PICK b : b = box[i].image  OBVIOUS
  <2>2. PICK m : m = lives[i].image  OBVIOUS
  <2>3. (b # Nothing => b \in Image) /\ (lives[i].state # "none" => m \in Image)
    BY <2>1, <2>2 DEF JobsInv, JobsTypeOK, Container
  <2>4. (b # Nothing => Creation(i, b)) /\ (lives[i].state # "none" => Creation(i, m))
    BY <2>1, <2>2 DEF HistoryInv, Origin
  <2>5. (b # Nothing => Creation(i, b)') /\ (lives[i].state # "none" => Creation(i, m)')
    BY <2>3, <2>4
  <2>6. box'[i].image = b  BY <2>1 DEF SameContainers
  <2> QED BY <2>2, <2>5, <2>6 DEF Creation, CarriedOut, Answered, Op
<1>3. ASSUME NEW k \in Key, issued[k] # Nothing, issued[k].kind = "destroy_runner"
      PROVE  Creation(issued[k].subject, issued[k].image)'
  <2>1. PICK x : x = issued[k]  OBVIOUS
  <2>2. x.subject \in Instance /\ x.image \in Image /\ Creation(x.subject, x.image)
    BY <1>3, <2>1 DEF JobsInv, JobsTypeOK, Operation, HistoryInv, Origin
  <2>3. Creation(x.subject, x.image)'  BY <2>2
  <2> QED BY <2>1, <2>3 DEF Creation, CarriedOut, Answered, Op
<1>4. Origin'
  BY <1>2, <1>3 DEF Origin, Creation, CarriedOut, Answered, Op
<1> QED BY <1>1, <1>4

\* Evidence of the same instances, read against the same lives.
LEMMA EvidenceStays ==
  ASSUME HistoryInv, UNCHANGED <<issued, lives, evidence>>
  PROVE  EvidenceInv'
BY DEF HistoryInv, EvidenceInv, Op

\* A host fails, or does what neither makes a container nor takes one away.
LEMMA NoContainerTells ==
  ASSUME JobsInv, HistoryInv, NEW k \in Key, NEW r \in AgentReceipt, r.key = k,
         wire' = wire \cup {r}, issued[k] # Nothing,
         Own(r) /\ issued[k].kind \in Physical => k \notin performed /\ r.outcome # "completed",
         UNCHANGED <<lives, issued, gate, replaced, evidence, ran, box>>
  PROVE  HistoryInv'
<1>1. ASSUME NEW i \in Instance, NEW image \in Image
      PROVE  /\ Creation(i, image)' <=> Creation(i, image)
             /\ Destruction(i, image)' <=> Destruction(i, image)
  <2>1. ASSUME NEW kind \in Physical
        PROVE  CarriedOut(Op(kind, i, image))' <=> CarriedOut(Op(kind, i, image))
    <3>1. PICK op : op = Op(kind, i, image)  OBVIOUS
    <3>2. op # Nothing /\ op.kind = kind
      <4>1. op \in Operation
        BY <3>1, JobsAssumption DEF Op, Operation, OperationKind, Physical
      <4> QED BY <3>1, <4>1, JobsAssumption DEF Op
    <3>3. ~(Own(r) /\ r.outcome = "completed" /\ issued[k] = op)
      BY <3>2
    <3>4. CarriedOut(op)' <=> CarriedOut(op)
      BY <3>2, <3>3, AnswerTells
    <3> QED BY <3>1, <3>4 DEF CarriedOut, Answered, Op
  <2> QED BY <2>1 DEF Creation, Destruction, CarriedOut, Answered, Op, Physical
<1>2. OneAnswer'  BY OneAnswerMore
<1>3. StillThere' /\ Origin'  BY <1>1, <1>2, SameStay, SameTells
<1>4. HistoryTypeOK' /\ RanInv' /\ CleanInv'
  BY DEF HistoryInv, HistoryTypeOK, RanInv, CleanInv, About
<1> QED BY <1>2, <1>3, <1>4, EvidenceStays DEF HistoryInv

\* A container is made: no job ran in it.
LEMMA CreateTells ==
  ASSUME JobsInv, HistoryInv, NEW k \in Key, issued[k] # Nothing, issued[k].kind = "create_runner",
         k \notin performed, NEW i \in Instance, NEW g \in Image,
         issued[k] = Op("create_runner", i, g), ~box[i].up,
         NEW r \in AgentReceipt, r = [key |-> k, host |-> issued[k].host, outcome |-> "completed"],
         wire' = wire \cup {r},
         box' = [box EXCEPT ![i] = [up |-> TRUE, image |-> g, residue |-> {}]],
         ran' = [ran EXCEPT ![i] = 0],
         UNCHANGED <<lives, issued, gate, replaced, evidence>>
  PROVE  HistoryInv'
<1>1. \A l \in Instance :
        /\ l = i => box'[l].up /\ box'[l].image = g /\ box'[l].residue = {} /\ ran'[l] = 0
        /\ l # i => box'[l] = box[l] /\ ran'[l] = ran[l]
  BY DEF JobsInv, JobsTypeOK, HistoryInv, HistoryTypeOK
<1>2. g # Nothing /\ r.key = k /\ Own(r) /\ r.outcome = "completed"
  BY JobsAssumption DEF Own
<1>3. ASSUME NEW l \in Instance, NEW image \in Image
      PROVE  /\ Creation(l, image)' <=> Creation(l, image) \/ (l = i /\ image = g)
             /\ Destruction(l, image)' <=> Destruction(l, image)
  <2>1. PICK c : c = Op("create_runner", l, image)  OBVIOUS
  <2>2. PICK d : d = Op("destroy_runner", l, image)  OBVIOUS
  <2>3. c # Nothing /\ d # Nothing
    <3>1. c \in Operation /\ d \in Operation
      BY <2>1, <2>2, JobsAssumption DEF Op, Operation, OperationKind
    <3> QED BY <3>1, JobsAssumption
  <2>4. (issued[k] = c <=> l = i /\ image = g) /\ issued[k] # d
    BY <2>1, <2>2 DEF Op
  <2>5. CarriedOut(c)' <=> CarriedOut(c) \/ (l = i /\ image = g)
    BY <1>2, <2>3, <2>4, AnswerTells
  <2>6. CarriedOut(d)' <=> CarriedOut(d)
    BY <1>2, <2>3, <2>4, AnswerTells
  <2> QED BY <2>1, <2>2, <2>5, <2>6 DEF Creation, Destruction, CarriedOut, Answered, Op
<1>4. OneAnswer'  BY <1>2, OneAnswerMore
<1>5. StillThere'
  BY <1>1, <1>3 DEF HistoryInv, StillThere
<1>6. Origin'
  <2>1. ASSUME NEW l \in Instance PROVE /\ box'[l].image # Nothing => Creation(l, box[l].image)'
                                        /\ lives[l].state # "none" => Creation(l, lives[l].image)'
    <3>1. PICK b : b = box'[l].image  OBVIOUS
    <3>2. PICK m : m = lives[l].image  OBVIOUS
    <3>3. (b # Nothing => b \in Image) /\ (lives[l].state # "none" => m \in Image)
      BY <1>1, <3>1, <3>2 DEF JobsInv, JobsTypeOK, Container
    <3>4. b # Nothing => Creation(l, b) \/ (l = i /\ b = g)
      BY <1>1, <3>1 DEF HistoryInv, Origin
    <3>5. lives[l].state # "none" => Creation(l, m)
      BY <3>2 DEF HistoryInv, Origin
    <3>6. (b # Nothing => Creation(l, b)') /\ (lives[l].state # "none" => Creation(l, m)')
      BY <1>3, <3>3, <3>4, <3>5
    <3> QED BY <3>1, <3>2, <3>6 DEF Creation, CarriedOut, Answered, Op
  <2>2. ASSUME NEW l \in Key, issued[l] # Nothing, issued[l].kind = "destroy_runner"
        PROVE  Creation(issued[l].subject, issued[l].image)'
    <3>1. PICK x : x = issued[l]  OBVIOUS
    <3>2. x.subject \in Instance /\ x.image \in Image /\ Creation(x.subject, x.image)
      BY <2>2, <3>1 DEF JobsInv, JobsTypeOK, Operation, HistoryInv, Origin
    <3>3. Creation(x.subject, x.image)'  BY <1>3, <3>2
    <3> QED BY <3>1, <3>3 DEF Creation, CarriedOut, Answered, Op
  <2> QED BY <2>1, <2>2 DEF Origin, Creation, CarriedOut, Answered, Op
<1>7. HistoryTypeOK'  BY DEF HistoryInv, HistoryTypeOK
<1>8. RanInv' /\ CleanInv'
  BY <1>1 DEF HistoryInv, RanInv, CleanInv, About
<1> QED BY <1>4, <1>5, <1>6, <1>7, <1>8, EvidenceStays DEF HistoryInv

\* A container is taken away: it was the one of this destruction.
LEMMA DestroyTells ==
  ASSUME JobsInv, HistoryInv, NEW k \in Key, issued[k] # Nothing, issued[k].kind = "destroy_runner",
         k \notin performed, NEW i \in Instance, NEW g \in Image,
         issued[k] = Op("destroy_runner", i, g),
         NEW r \in AgentReceipt, r = [key |-> k, host |-> issued[k].host, outcome |-> "completed"],
         wire' = wire \cup {r},
         NEW left \in SUBSET box[i].residue,
         box' = [box EXCEPT ![i] = [box[i] EXCEPT !.up = FALSE, !.residue = left]],
         UNCHANGED <<lives, issued, gate, replaced, evidence, ran>>
  PROVE  HistoryInv'
<1> DEFINE c == [box[i] EXCEPT !.up = FALSE, !.residue = left]
<1>1. ~c.up /\ c.image = box[i].image /\ c.residue = left
  BY DEF JobsInv, JobsTypeOK, Container
<1> HIDE DEF c
<1>2. \A l \in Instance :
        /\ l = i => ~box'[l].up /\ box'[l].image = box[i].image /\ box'[l].residue = left
        /\ l # i => box'[l] = box[l]
  BY <1>1 DEF c, JobsInv, JobsTypeOK
<1>3. g # Nothing /\ r.key = k /\ Own(r) /\ r.outcome = "completed"
  BY JobsAssumption DEF Own
<1>4. ASSUME NEW l \in Instance, NEW image \in Image
      PROVE  /\ Creation(l, image)' <=> Creation(l, image)
             /\ Destruction(l, image)' <=> Destruction(l, image) \/ (l = i /\ image = g)
  <2>1. PICK a : a = Op("create_runner", l, image)  OBVIOUS
  <2>2. PICK d : d = Op("destroy_runner", l, image)  OBVIOUS
  <2>3. a # Nothing /\ d # Nothing
    <3>1. a \in Operation /\ d \in Operation
      BY <2>1, <2>2, JobsAssumption DEF Op, Operation, OperationKind
    <3> QED BY <3>1, JobsAssumption
  <2>4. (issued[k] = d <=> l = i /\ image = g) /\ issued[k] # a
    BY <2>1, <2>2 DEF Op
  <2>5. CarriedOut(d)' <=> CarriedOut(d) \/ (l = i /\ image = g)
    BY <1>3, <2>3, <2>4, AnswerTells
  <2>6. CarriedOut(a)' <=> CarriedOut(a)
    BY <1>3, <2>3, <2>4, AnswerTells
  <2> QED BY <2>1, <2>2, <2>5, <2>6 DEF Creation, Destruction, CarriedOut, Answered, Op
<1>5. box[i].image = g
  <2>1. Creation(i, g)
    BY DEF HistoryInv, Origin, Op
  <2>2. ~Destruction(i, g)
    BY CarriedOutOnce DEF Destruction, Physical
  <2> QED BY <2>1, <2>2 DEF HistoryInv, StillThere
<1>6. OneAnswer'  BY <1>3, OneAnswerMore
<1>7. StillThere'
  BY <1>2, <1>4, <1>5 DEF HistoryInv, StillThere
<1>8. Origin'
  <2>1. ASSUME NEW l \in Instance PROVE /\ box'[l].image # Nothing => Creation(l, box[l].image)'
                                        /\ lives[l].state # "none" => Creation(l, lives[l].image)'
    <3>1. PICK b : b = box'[l].image  OBVIOUS
    <3>2. PICK m : m = lives[l].image  OBVIOUS
    <3>3. b = box[l].image  BY <1>2, <3>1
    <3>4. (b # Nothing => b \in Image) /\ (lives[l].state # "none" => m \in Image)
      BY <3>2, <3>3 DEF JobsInv, JobsTypeOK, Container
    <3>5. (b # Nothing => Creation(l, b)) /\ (lives[l].state # "none" => Creation(l, m))
      BY <3>2, <3>3 DEF HistoryInv, Origin
    <3>6. (b # Nothing => Creation(l, b)') /\ (lives[l].state # "none" => Creation(l, m)')
      BY <1>4, <3>4, <3>5
    <3> QED BY <3>1, <3>2, <3>6 DEF Creation, CarriedOut, Answered, Op
  <2>2. ASSUME NEW l \in Key, issued[l] # Nothing, issued[l].kind = "destroy_runner"
        PROVE  Creation(issued[l].subject, issued[l].image)'
    <3>1. PICK x : x = issued[l]  OBVIOUS
    <3>2. x.subject \in Instance /\ x.image \in Image /\ Creation(x.subject, x.image)
      BY <2>2, <3>1 DEF JobsInv, JobsTypeOK, Operation, HistoryInv, Origin
    <3>3. Creation(x.subject, x.image)'  BY <1>4, <3>2
    <3> QED BY <3>1, <3>3 DEF Creation, CarriedOut, Answered, Op
  <2> QED BY <2>1, <2>2 DEF Origin, Creation, CarriedOut, Answered, Op
<1>9. HistoryTypeOK'  BY DEF HistoryInv, HistoryTypeOK
<1>10. RanInv' /\ CleanInv'
  BY <1>2 DEF HistoryInv, RanInv, CleanInv, About
<1> QED BY <1>6, <1>7, <1>8, <1>9, <1>10, EvidenceStays DEF HistoryInv

LEMMA PerformTells == ASSUME JobsInv, HistoryInv, NEW k \in Key, Perform(k) PROVE HistoryInv'
<1> DEFINE op == issued[k]
           r(outcome) == [key |-> k, host |-> op.host, outcome |-> outcome]
<1>1. /\ op # Nothing /\ op \in Operation /\ adapter[op.host] # Nothing
      /\ UNCHANGED <<lives, issued, gate, replaced, evidence>>
  BY DEF Perform, managerVars, JobsInv, JobsTypeOK
<1>2. op.subject \in Instance /\ op.host \in Host /\ op.image \in Image
  BY <1>1 DEF Operation
<1>3. op.kind \in Physical => k \notin performed
  BY <1>1, <1>2 DEF Perform, JobsInv, AdaptersRemember
<1>4. \A outcome \in {"completed", "failed"} :
        r(outcome) \in AgentReceipt /\ r(outcome).key = k /\ r(outcome).outcome = outcome
  BY <1>2 DEF AgentReceipt
<1>5. op = Op(op.kind, op.subject, op.image)
  BY <1>1 DEF Operation, Op, JobsInv, HostInv
<1>6. CASE wire' = wire \cup {r("failed")} /\ UNCHANGED <<box, ran>>
  <2>1. PICK f : f = r("failed")  OBVIOUS
  <2>2. f \in AgentReceipt /\ f.key = k /\ f.outcome = "failed" /\ wire' = wire \cup {f}
    BY <1>4, <1>6, <2>1
  <2> QED BY <1>1, <1>3, <1>6, <2>2, NoContainerTells
<1>7. ASSUME NEW c \in Effect(op), box' = [box EXCEPT ![op.subject] = c],
             ran' = IF op.kind = "create_runner" THEN [ran EXCEPT ![op.subject] = 0] ELSE ran,
             wire' = wire \cup {r("completed")}
      PROVE  HistoryInv'
  <2>1. PICK a : a = r("completed")  OBVIOUS
  <2>2. /\ a \in AgentReceipt /\ a.key = k /\ wire' = wire \cup {a}
        /\ a = [key |-> k, host |-> issued[k].host, outcome |-> "completed"]
    BY <1>4, <1>7, <2>1
  <2> HIDE DEF r
  <2>3. PICK i \in Instance, g \in Image : i = op.subject /\ g = op.image
    BY <1>2
  <2>4. CASE op.kind = "create_runner"
    <3>1. ~box[i].up /\ c = [up |-> TRUE, image |-> g, residue |-> {}]
      BY <1>7, <2>3, <2>4 DEF Effect
    <3>2. /\ issued[k] # Nothing /\ issued[k].kind = "create_runner" /\ k \notin performed
          /\ issued[k] = Op("create_runner", i, g)
          /\ box' = [box EXCEPT ![i] = [up |-> TRUE, image |-> g, residue |-> {}]]
          /\ ran' = [ran EXCEPT ![i] = 0]
      BY <1>1, <1>3, <1>5, <1>7, <2>3, <2>4, <3>1 DEF Physical
    <3> QED BY <1>1, <2>2, <3>1, <3>2, CreateTells
  <2>5. CASE op.kind = "destroy_runner"
    <3>1. PICK left \in SUBSET box[i].residue : c = [box[i] EXCEPT !.up = FALSE, !.residue = left]
      BY <1>7, <2>3, <2>5 DEF Effect
    <3>2. /\ issued[k] # Nothing /\ issued[k].kind = "destroy_runner" /\ k \notin performed
          /\ issued[k] = Op("destroy_runner", i, g)
          /\ box' = [box EXCEPT ![i] = c]
          /\ UNCHANGED ran
      BY <1>1, <1>3, <1>5, <1>7, <2>3, <2>5 DEF Physical
    <3>3. box' = [box EXCEPT ![i] = [box[i] EXCEPT !.up = FALSE, !.residue = left]]
      BY <3>1, <3>2, Zenon
    <3> QED BY <1>1, <2>2, <3>2, <3>3, DestroyTells
  <2>6. CASE op.kind \notin Physical
    <3>1. c = box[i]  BY <1>7, <2>3, <2>6 DEF Effect, Physical
    <3>2. UNCHANGED <<box, ran>>
      BY <1>7, <2>3, <2>6, <3>1 DEF Physical, JobsInv, JobsTypeOK
    <3> QED BY <1>1, <2>2, <2>6, <3>2, NoContainerTells
  <2> QED BY <2>4, <2>5, <2>6 DEF Physical
<1> QED BY <1>6, <1>7 DEF Perform

LEMMA ElsewhereTells ==
  ASSUME JobsInv, HistoryInv, NEW k \in Key, NEW h \in Host, PerformElsewhere(k, h) PROVE HistoryInv'
<1>1. PICK r : r = [key |-> k, host |-> h, outcome |-> "completed"]  OBVIOUS
<1>2. /\ issued[k] # Nothing /\ h # issued[k].host /\ wire' = wire \cup {r}
      /\ UNCHANGED <<lives, issued, gate, replaced, evidence, ran, box>>
  BY <1>1 DEF PerformElsewhere, managerVars
<1>3. r \in AgentReceipt /\ r.key = k /\ ~Own(r)  BY <1>1, <1>2 DEF AgentReceipt, Own
<1> QED BY <1>2, <1>3, NoContainerTells

\* Evidence is of what is left of a container that was taken away.
LEMMA ObserveTells == ASSUME JobsInv, HistoryInv, NEW i \in Instance, Observe(i) PROVE HistoryInv'
<1> DEFINE found(s) == IF s \in box[i].residue THEN "failed" ELSE IF ran[i] = 0 THEN "absent" ELSE "disposed"
           e == [instance |-> i, image |-> box[i].image, volume |-> found("volume"), network |-> found("network")]
<1>1. /\ lives[i].state = "destroyed" /\ ~box[i].up /\ evidence' = evidence \cup {e}
      /\ UNCHANGED <<lives, issued, gate, replaced, wire, box, ran>>
  BY DEF Observe, managerVars
<1>2. box[i].residue \subseteq {"volume", "network"} /\ (box[i].image # Nothing => box[i].image \in Image)
  BY DEF JobsInv, JobsTypeOK, Container
<1>3. admissible(e) => box[i].residue = {}
  <2>1. e.volume = found("volume") /\ e.network = found("network")  OBVIOUS
  <2> QED BY <1>2, <2>1 DEF admissible
<1>4. e.instance = i /\ e.image = box[i].image  OBVIOUS
<1> HIDE DEF e
<1>5. HistoryTypeOK'
  <2>1. evidence \subseteq evidence' /\ \A d \in evidence' : d.instance \in Instance
    BY <1>1, <1>4 DEF HistoryInv, HistoryTypeOK
  <2> QED BY <1>1, <2>1 DEF HistoryInv, HistoryTypeOK
<1>6. e.image # Nothing =>
        \E k \in Key : issued[k] # Nothing /\ issued[k] = Op("destroy_runner", e.instance, e.image)
  <2> SUFFICES ASSUME e.image # Nothing
               PROVE  \E k \in Key : issued[k] # Nothing /\ issued[k] = Op("destroy_runner", e.instance, e.image)
    OBVIOUS
  <2>1. Creation(i, e.image)  BY <1>4 DEF HistoryInv, Origin
  <2>2. Destruction(i, e.image)  BY <1>1, <1>2, <1>4, <2>1 DEF HistoryInv, StillThere
  <2>3. PICK k \in Key : issued[k] = Op("destroy_runner", i, e.image) /\ Answered(k)
    BY <2>2 DEF Destruction, CarriedOut
  <2> QED BY <1>4, <2>3, AnsweredIsIssued
<1>7. EvidenceInv'
  BY <1>1, <1>4, <1>6 DEF HistoryInv, EvidenceInv, Op, Gone
<1>8. RanInv'  BY <1>1, <1>4 DEF HistoryInv, RanInv, About
<1>9. CleanInv'  BY <1>1, <1>3, <1>4 DEF HistoryInv, CleanInv, About
<1>10. OneAnswer' /\ StillThere' /\ Origin'
  <2>1. Origin'  BY <1>1, WireTells DEF HistoryInv, Origin
  <2> QED BY <1>1, <2>1, WireTells
<1> QED BY <1>5, <1>7, <1>8, <1>9, <1>10 DEF HistoryInv

LEMMA CleanUpTells == ASSUME JobsInv, HistoryInv, NEW i \in Instance, CleanUp(i) PROVE HistoryInv'
<1>1. /\ box' = [box EXCEPT ![i].residue = {}]
      /\ UNCHANGED <<lives, issued, gate, replaced, wire, evidence, ran>>
  BY DEF CleanUp, managerVars
<1>2. /\ SameContainers
      /\ \A l \in Instance : box'[l].residue = {} \/ box'[l].residue = box[l].residue
  BY <1>1 DEF SameContainers, Container, JobsInv, JobsTypeOK
<1>3. \A l, image : /\ Creation(l, image)' <=> Creation(l, image)
                    /\ Destruction(l, image)' <=> Destruction(l, image)
  BY <1>1 DEF Creation, Destruction, CarriedOut, Answered, Op
<1>4. OneAnswer'  BY <1>1 DEF HistoryInv, OneAnswer, Own
<1>5. StillThere' /\ Origin'  BY <1>1, <1>2, <1>3, <1>4, SameTells
<1>6. HistoryTypeOK'  BY <1>1 DEF HistoryInv, HistoryTypeOK
<1>7. RanInv'  BY <1>1, <1>2 DEF HistoryInv, RanInv, About, SameContainers
<1>8. CleanInv'  BY <1>1, <1>2 DEF HistoryInv, CleanInv, About
<1> QED BY <1>1, <1>4, <1>5, <1>6, <1>7, <1>8, EvidenceStays DEF HistoryInv

LEMMA HistoryStarts == ASSUME JobsInit PROVE HistoryInv
<1>1. ran \in [Instance -> Nat] /\ gate = [unaccounted |-> {}, proven |-> {}, quarantined |-> {}]
      /\ evidence = {} /\ replaced = {} /\ wire = {}
  BY DEF JobsInit
<1>2. HistoryTypeOK  BY <1>1 DEF HistoryTypeOK
<1>3. OneAnswer /\ EvidenceInv  BY <1>1 DEF OneAnswer, EvidenceInv
<1>4. StillThere  BY <1>1 DEF StillThere, Creation, CarriedOut, Answered
<1>5. Origin  BY DEF JobsInit, Origin
<1>6. RanInv /\ CleanInv  BY <1>1 DEF JobsInit, RanInv, CleanInv
<1> QED BY <1>2, <1>3, <1>4, <1>5, <1>6 DEF HistoryInv

LEMMA HistoryKept == JobsInv /\ HistoryInv /\ [JobsNext]_jobsVars => HistoryInv'
<1> SUFFICES ASSUME JobsInv, HistoryInv, [JobsNext]_jobsVars PROVE HistoryInv'  OBVIOUS
<1>1. ASSUME NEW image \in Image, Repin(image) PROVE HistoryInv'
  BY <1>1, QuietTells DEF Repin, hostVars
<1>2. ASSUME NEW r \in wire, record(r) PROVE HistoryInv'
  BY <1>2, QuietTells DEF record, hostVars
<1>3. ASSUME NEW h \in Host, NEW a \in Adapters, Attach(h, a) PROVE HistoryInv'
  BY <1>3, QuietTells DEF Attach, managerVars
<1>4. CASE UNCHANGED jobsVars
  BY <1>4, QuietTells DEF jobsVars
<1>5. CASE Manager
  BY <1>1, <1>2, <1>5, OrdersTell, AdmitTells, JobMovesTell, StartTells DEF Manager
<1>6. CASE Hosts
  BY <1>3, <1>6, PerformTells, ElsewhereTells, ObserveTells, CleanUpTells DEF Hosts
<1> QED BY <1>4, <1>5, <1>6 DEF JobsNext

-----------------------------------------------------------------------------
(* The gate beside the lifecycle *)

LEMMA GateKept ==
  ASSUME GateOnly = FALSE
  PROVE  JobsInv /\ HistoryInv /\ GateInv /\ [JobsNext]_jobsVars => GateInv'
<1> SUFFICES ASSUME JobsInv, HistoryInv, GateInv, [JobsNext]_jobsVars PROVE GateInv'  OBVIOUS
<1>1. CASE UNCHANGED <<lives, gate, replaced>>  BY <1>1 DEF GateInv
<1>2. DOMAIN lives = Instance /\ replaced \subseteq Instance
  BY DEF JobsInv, JobsTypeOK, HistoryInv, HistoryTypeOK
<1>3. ASSUME NEW i \in Instance, NEW old \in Instance \cup {Nothing}, Admit(i, old) PROVE GateInv'
  <2>1. /\ \A l \in Instance : lives'[l] = IF l = i THEN [state |-> "prepulled", job |-> Nothing, image |-> pool.image]
                                                    ELSE lives[l]
        /\ replaced' = (replaced \ {i}) \cup ({old} \ {Nothing, i})
        /\ old # Nothing => lives[old].state \in Gone /\ old \notin gate.unaccounted
        /\ gate' = gate
    BY <1>2, <1>3 DEF Admit, admit_replacement
  <2> QED BY <1>2, <2>1 DEF GateInv, Gone
<1>4. ASSUME NEW i \in Instance, NEW s, CanMove(i, s), UNCHANGED replaced,
             \A l \in Instance : lives'[l].state = IF l = i THEN s ELSE lives[l].state,
             IF s = "destroyed" THEN i \in gate'.unaccounted /\ gate.unaccounted \subseteq gate'.unaccounted
                                ELSE gate.unaccounted \ {i} \subseteq gate'.unaccounted
      PROVE  GateInv'
  <2>1. lives[i].state \notin {"proven_clean", "quarantined"}
    BY <1>4 DEF CanMove, next_states, TERMINAL_JOB_STATES
  <2> QED BY <1>2, <1>4, <2>1 DEF GateInv
<1>5. ASSUME NEW i \in Instance, NEW s, CanMove(i, s), UNCHANGED replaced, lives' = Moved(i, s),
             IF s = "destroyed" THEN i \in gate'.unaccounted /\ gate.unaccounted \subseteq gate'.unaccounted
                                ELSE gate.unaccounted \ {i} \subseteq gate'.unaccounted
      PROVE  GateInv'
  <2>1. \A l \in Instance : lives'[l].state = IF l = i THEN s ELSE lives[l].state
    BY <1>5 DEF Moved, JobsInv, JobsTypeOK, JobLifecycle
  <2> QED BY <1>4, <1>5, <2>1
<1>6. ASSUME NEW i \in Instance,
             \/ \E j \in Job : Offer(i, j)
             \/ \E to \in JobState : End(i, to)
             \/ Start(i) \/ Destroyed(i) \/ Quarantine(i)
             \/ \E e \in evidence : Prove(i, e)
      PROVE  GateInv'
  <2>7. /\ \A x : gate_destroyed(gate, x).unaccounted = gate.unaccounted \cup {x}
        /\ \A x : gate_quarantine(gate, x).unaccounted = gate.unaccounted \ {x}
        /\ \A e : gate_prove(gate, e).unaccounted = gate.unaccounted \ {e.instance}
    BY DEF HistoryInv, HistoryTypeOK, gate_destroyed, gate_quarantine, gate_prove
  <2>1. ASSUME NEW j \in Job, Offer(i, j) PROVE GateInv'
    <3>1. \A l \in Instance : lives'[l].state = IF l = i THEN "assigned" ELSE lives[l].state
      BY <2>1 DEF Offer, JobsInv, JobsTypeOK, JobLifecycle
    <3>2. CanMove(i, "assigned") /\ UNCHANGED <<replaced, gate>>  BY <2>1 DEF Offer
    <3> QED BY <1>4, <3>1, <3>2
  <2>2. ASSUME NEW s \in JobState, End(i, s) PROVE GateInv'
    <3>1. s # "destroyed"  BY <2>2, JobsAssumption DEF End, TERMINAL_JOB_STATES
    <3> QED BY <1>5, <2>2, <3>1 DEF End
  <2>3. CASE Start(i)  BY <1>5, <2>3 DEF Start
  <2>4. CASE Destroyed(i)  BY <1>5, <2>7, <2>4 DEF Destroyed
  <2>5. CASE Quarantine(i)  BY <1>5, <2>7, <2>5 DEF Quarantine
  <2>6. ASSUME NEW e \in evidence, Prove(i, e) PROVE GateInv'
    <3>1. Proves(i, e) /\ lives' = Moved(i, "proven_clean") /\ gate' = gate_prove(gate, e) /\ UNCHANGED replaced
      BY <2>6 DEF Prove
    <3> QED BY <1>5, <2>7, <3>1 DEF Proves
  <2> QED BY <1>6, <2>1, <2>2, <2>3, <2>4, <2>5, <2>6
<1>7. CASE Manager
  <2>1. ASSUME NEW i \in Instance, NEW k \in Key, OrderCreate(i, k) \/ OrderDestroy(i, k) \/ OrderCancel(i, k)
        PROVE  GateInv'
    BY <1>1, <2>1 DEF OrderCreate, OrderDestroy, OrderCancel, issue
  <2>2. ASSUME NEW r \in wire, record(r) PROVE GateInv'  BY <1>1, <2>2 DEF record
  <2>3. ASSUME NEW image \in Image, Repin(image) PROVE GateInv'  BY <1>1, <2>3 DEF Repin
  <2> QED BY <1>3, <1>6, <1>7, <2>1, <2>2, <2>3 DEF Manager
<1>8. CASE Hosts
  BY <1>1, <1>8 DEF Hosts, Attach, Perform, PerformElsewhere, Observe, CleanUp, managerVars
<1>9. CASE UNCHANGED jobsVars  BY <1>1, <1>9 DEF jobsVars
<1> QED BY <1>7, <1>8, <1>9 DEF JobsNext

-----------------------------------------------------------------------------
\* An instance the manager holds to be destroyed has no container of its image
\* (OperationLedger.issue and record, check_contract): for every fleet, every
\* number of operations and retries, and every delay, repetition and
\* misdirection of operations and receipts.
THEOREM DestroyedStaysGone == JobsSpec => []DestroyedIsGone
<1> QED BY JobsStarts, JobsKept, JobsInvImplies, PTL DEF JobsSpec

\* RUN-001: whatever is delivered late or again, no container's filesystem
\* ever sees a second job (JobLifecycle.offer and start, the transition
\* table, OperationLedger.issue).
THEOREM OneJobEach == JobsSpec => []OneJobPerContainer
<1>1. HistoryInv => OneJobPerContainer  BY DEF HistoryInv, RanInv, OneJobPerContainer
<1> QED BY <1>1, JobsStarts, JobsKept, HistoryStarts, HistoryKept, PTL DEF JobsSpec

\* RUN-002: where the caller asks the lifecycle before the gate, an instance
\* that was replaced left nothing behind or is in quarantine
\* (CleanupEvidence.admissible, JobLifecycle.prove, AdmissionGate.prove and
\* admit_replacement).
THEOREM ReplacedStaysClean ==
  ASSUME GateOnly = FALSE
  PROVE  JobsSpec => []ReplacedIsClean
<1>1. JobsInit => GateInv  BY DEF JobsInit, GateInv
<1>2. HistoryInv /\ GateInv => ReplacedIsClean
  BY DEF HistoryInv, HistoryTypeOK, CleanInv, GateInv, ReplacedIsClean
<1> QED
  BY <1>1, <1>2, JobsStarts, JobsKept, HistoryStarts, HistoryKept, GateKept, PTL DEF JobsSpec
=============================================================================
