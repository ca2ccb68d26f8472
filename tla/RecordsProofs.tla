--------------------------- MODULE RecordsProofs ---------------------------
(***************************************************************************)
(* Proofs about the evidence store and the decision cache, for every       *)
(* manifest, every number of concurrent uploads and faults, every set of   *)
(* identities and every window of time.                                    *)
(***************************************************************************)
EXTENDS EvidenceStore, EvaluationCache, TLAPS

Pc == {"idle", "entry", "held", "put", "replace", "role", "tag", "done", "raised"}

UploadType == [pc : Pc, i : Nat, tries : Nat,
               uploaded : SUBSET Index, present : SUBSET Index, failed : SUBSET Index]

StoreTypeOK ==
  /\ at \in [Index -> {"none", "whole", "rotten"}]
  /\ up \in [Uploader -> UploadType]

\* The report of an upload in progress is the truth about the objects it has
\* passed: rec is the upload, a what is at the content addresses.
Accounts(rec, a) ==
  /\ rec.i \in 1..(Manifest + 1)
  /\ rec.pc = "done" <=> rec.i = Manifest + 1
  /\ rec.uploaded \cup rec.present \cup rec.failed = 1..(rec.i - 1)
  /\ rec.failed \cap (rec.uploaded \cup rec.present) = {}
  /\ \A j \in rec.uploaded \cup rec.present : a[j] # "none"
  /\ rec.pc \in {"role", "tag"} => a[rec.i] # "none"

\* An upload that has not begun, or that ended in an exception, reports nothing.
Silent(rec) == rec.pc \in {"idle", "raised"}

StoreInv == StoreTypeOK /\ \A u \in Uploader : Silent(up[u]) \/ Accounts(up[u], at)

LEMMA ManifestFacts == Manifest \in Nat \ {0} /\ Index = 1..Manifest
<1>1. Len(Sealed) \in Nat  BY StoreAssumption
<1> QED BY <1>1 DEF Manifest, Index

\* On to the next object, once this one is in a list of the report.
LEMMA OnwardFacts ==
  ASSUME NEW rec \in UploadType, NEW a, NEW listed \in UploadType,
         Accounts(rec, a), rec.pc # "done",
         listed.i = rec.i,
         listed.uploaded \cup listed.present \cup listed.failed
           = (rec.uploaded \cup rec.present \cup rec.failed) \cup {rec.i},
         listed.failed \cap (listed.uploaded \cup listed.present) = {},
         \A j \in listed.uploaded \cup listed.present : a[j] # "none"
  PROVE  Onward(listed) \in UploadType /\ Accounts(Onward(listed), a)
<1> DEFINE next == Onward(listed)
<1>1. rec.i \in 1..Manifest  BY ManifestFacts DEF Accounts
<1>2. /\ next.pc = IF rec.i = Manifest THEN "done" ELSE "entry"
      /\ next.i = rec.i + 1 /\ next.tries = 0
      /\ next.uploaded = listed.uploaded /\ next.present = listed.present
      /\ next.failed = listed.failed
  BY DEF Onward, UploadType
<1>3. next \in UploadType
  <2> DEFINE pc == IF rec.i = Manifest THEN "done" ELSE "entry"
  <2>1. rec.i + 1 \in Nat  BY <1>1, ManifestFacts
  <2>2. pc \in Pc  BY DEF Pc
  <2>3. next = [listed EXCEPT !.i = rec.i + 1, !.tries = 0, !.pc = pc]  BY DEF Onward
  <2> HIDE DEF next, pc
  <2> QED BY <2>1, <2>2, <2>3 DEF UploadType
<1>4. next.i \in 1..(Manifest + 1) /\ (next.pc = "done" <=> next.i = Manifest + 1)
  BY <1>1, <1>2, ManifestFacts
<1>5. next.uploaded \cup next.present \cup next.failed = 1..(next.i - 1)
  <2>1. next.uploaded \cup next.present \cup next.failed = 1..(rec.i - 1) \cup {rec.i}
    BY <1>2 DEF Accounts
  <2>2. 1..(rec.i - 1) \cup {rec.i} = 1..rec.i  BY <1>1, ManifestFacts
  <2> QED BY <1>1, <1>2, <2>1, <2>2, ManifestFacts
<1>6. next.pc \notin {"role", "tag"}  BY <1>2
<1> HIDE DEF next
<1>7. Accounts(next, a)  BY <1>2, <1>4, <1>5, <1>6 DEF Accounts
<1> QED BY <1>3, <1>7 DEF next

LEMMA ListedFacts ==
  ASSUME NEW rec \in UploadType, NEW a, Accounts(rec, a), rec.pc # "done"
  PROVE  /\ a[rec.i] # "none" => Uploaded(rec) \in UploadType /\ Accounts(Uploaded(rec), a)
         /\ a[rec.i] # "none" => Present(rec) \in UploadType /\ Accounts(Present(rec), a)
         /\ Failed(rec) \in UploadType /\ Accounts(Failed(rec), a)
<1>1. rec.i \in Index /\ rec.i \notin rec.uploaded \cup rec.present \cup rec.failed
  BY ManifestFacts DEF Accounts
<1>2. ASSUME a[rec.i] # "none"
      PROVE  /\ Uploaded(rec) \in UploadType /\ Accounts(Uploaded(rec), a)
             /\ Present(rec) \in UploadType /\ Accounts(Present(rec), a)
  <2> DEFINE one == [rec EXCEPT !.uploaded = @ \cup {rec.i}]
             two == [rec EXCEPT !.present = @ \cup {rec.i}]
  <2>1. /\ one \in UploadType /\ one.i = rec.i /\ one.uploaded = rec.uploaded \cup {rec.i}
        /\ one.present = rec.present /\ one.failed = rec.failed
    BY <1>1 DEF UploadType
  <2>2. /\ two \in UploadType /\ two.i = rec.i /\ two.present = rec.present \cup {rec.i}
        /\ two.uploaded = rec.uploaded /\ two.failed = rec.failed
    BY <1>1 DEF UploadType
  <2> HIDE DEF one, two
  <2>3. Onward(one) \in UploadType /\ Accounts(Onward(one), a)
    <3>1. one.uploaded \cup one.present \cup one.failed
            = (rec.uploaded \cup rec.present \cup rec.failed) \cup {rec.i}
      BY <2>1
    <3>2. one.failed \cap (one.uploaded \cup one.present) = {}
      BY <1>1, <2>1 DEF Accounts
    <3>3. \A j \in one.uploaded \cup one.present : a[j] # "none"
      BY <1>2, <2>1 DEF Accounts
    <3> QED BY <3>1, <3>2, <3>3, <2>1, OnwardFacts
  <2>4. Onward(two) \in UploadType /\ Accounts(Onward(two), a)
    <3>1. two.uploaded \cup two.present \cup two.failed
            = (rec.uploaded \cup rec.present \cup rec.failed) \cup {rec.i}
      BY <2>2
    <3>2. two.failed \cap (two.uploaded \cup two.present) = {}
      BY <1>1, <2>2 DEF Accounts
    <3>3. \A j \in two.uploaded \cup two.present : a[j] # "none"
      BY <1>2, <2>2 DEF Accounts
    <3> QED BY <3>1, <3>2, <3>3, <2>2, OnwardFacts
  <2>5. Uploaded(rec) = Onward(one)  BY DEF one, Uploaded
  <2>6. Present(rec) = Onward(two)  BY DEF two, Present
  <2> QED BY <2>3, <2>4, <2>5, <2>6
<1>3. Failed(rec) \in UploadType /\ Accounts(Failed(rec), a)
  <2> DEFINE out == [rec EXCEPT !.failed = @ \cup {rec.i}]
  <2>1. /\ out \in UploadType /\ out.i = rec.i /\ out.failed = rec.failed \cup {rec.i}
        /\ out.uploaded = rec.uploaded /\ out.present = rec.present
    BY <1>1 DEF UploadType
  <2> HIDE DEF out
  <2>2. Onward(out) \in UploadType /\ Accounts(Onward(out), a)
    <3>1. out.uploaded \cup out.present \cup out.failed
            = (rec.uploaded \cup rec.present \cup rec.failed) \cup {rec.i}
      BY <2>1
    <3>2. out.failed \cap (out.uploaded \cup out.present) = {}
      BY <1>1, <2>1 DEF Accounts
    <3>3. \A j \in out.uploaded \cup out.present : a[j] # "none"
      BY <2>1 DEF Accounts
    <3> QED BY <3>1, <3>2, <3>3, <2>1, OnwardFacts
  <2> QED BY <2>2 DEF out, Failed
<1> QED BY <1>2, <1>3

\* A step inside an object's work: the report stays, so does what it tells of.
LEMMA WorkFacts ==
  ASSUME NEW rec \in UploadType, NEW a, Accounts(rec, a), rec.pc # "done",
         NEW pc \in Pc \ {"done"}, pc \in {"role", "tag"} => a[rec.i] # "none",
         NEW n \in Nat
  PROVE  LET next == [rec EXCEPT !.tries = n, !.pc = pc]
         IN  next \in UploadType /\ Accounts(next, a)
<1> DEFINE next == [rec EXCEPT !.tries = n, !.pc = pc]
<1>1. next \in UploadType  BY DEF UploadType
<1>2. /\ next.i = rec.i /\ next.pc = pc /\ next.uploaded = rec.uploaded
      /\ next.present = rec.present /\ next.failed = rec.failed
  BY DEF UploadType
<1> HIDE DEF next
<1>3. Accounts(next, a)  BY <1>2 DEF Accounts
<1> USE DEF next
<1> QED BY <1>1, <1>3

\* What was at a content address stays there, if not as it was.
LEMMA StaysFacts ==
  ASSUME NEW rec, NEW a, NEW b, Accounts(rec, a), rec.uploaded \cup rec.present \subseteq Index,
         rec.pc \in {"role", "tag"} => rec.i \in Index,
         \A j \in Index : a[j] # "none" => b[j] # "none"
  PROVE  Accounts(rec, b)
BY DEF Accounts

\* One upload moves, the others and the store stay.
LEMMA OneMoves ==
  ASSUME StoreInv, NEW u \in Uploader, NEW rec \in UploadType,
         up' = [up EXCEPT ![u] = rec], UNCHANGED at,
         Silent(rec) \/ Accounts(rec, at)
  PROVE  StoreInv'
<1>1. \A v \in Uploader : up'[v] = IF v = u THEN rec ELSE up[v]  BY DEF StoreInv, StoreTypeOK
<1>2. StoreTypeOK'  BY DEF StoreInv, StoreTypeOK
<1>3. ASSUME NEW v \in Uploader PROVE Silent(up'[v]) \/ Accounts(up'[v], at')
  BY <1>1 DEF StoreInv
<1> QED BY <1>2, <1>3 DEF StoreInv, Silent, Accounts

-----------------------------------------------------------------------------
\* An upload starts with an empty report.
LEMMA BeginHonest == ASSUME StoreInv, NEW u \in Uploader, Begin(u) PROVE StoreInv'
<1> DEFINE pc == IF disk[Manifest] = "gone" THEN "raised" ELSE "entry"
           rec == [Asleep EXCEPT !.pc = pc, !.i = 1]
<1>1. /\ rec.pc = pc /\ rec.i = 1
      /\ rec.uploaded = {} /\ rec.present = {} /\ rec.failed = {}
  BY DEF Asleep
<1>2. pc \in Pc \ {"done", "role", "tag"}  BY DEF Pc
<1>3. up' = [up EXCEPT ![u] = rec] /\ UNCHANGED at  BY DEF Begin, Becomes
<1>4. rec \in UploadType  BY <1>2 DEF Asleep, UploadType
<1> HIDE DEF rec, pc
<1>5. Accounts(rec, at)
  <2>1. 1..(1 - 1) = {} /\ 1 \in 1..(Manifest + 1) /\ 1 # Manifest + 1  BY ManifestFacts
  <2> QED BY <1>1, <1>2, <2>1 DEF Accounts
<1> QED BY <1>3, <1>4, <1>5, OneMoves

\* The manifest's entry is found bad, or the object is looked up.
LEMMA ReadEntryHonest == ASSUME StoreInv, NEW u \in Uploader, ReadEntry(u) PROVE StoreInv'
<1> DEFINE rec == up[u]
<1>1. rec \in UploadType /\ rec.pc = "entry" /\ Accounts(rec, at)
  BY DEF StoreInv, StoreTypeOK, ReadEntry, At, Silent
<1>2. CASE Becomes(u, Failed(up[u]))
  <2>1. Failed(rec) \in UploadType /\ Accounts(Failed(rec), at)  BY <1>1, ListedFacts
  <2> QED BY <1>2, <2>1, OneMoves DEF Becomes
<1>3. CASE Becomes(u, [up[u] EXCEPT !.pc = "held"])
  <2>1. [rec EXCEPT !.pc = "held"] \in UploadType  BY <1>1 DEF UploadType, Pc
  <2>2. Accounts([rec EXCEPT !.pc = "held"], at)  BY <1>1 DEF Accounts, UploadType
  <2> QED BY <1>3, <2>1, <2>2, OneMoves DEF Becomes
<1> QED BY <1>2, <1>3 DEF ReadEntry

\* Only an object that is at its address counts as already present.
LEMMA SkipHeldHonest == ASSUME StoreInv, NEW u \in Uploader, SkipHeld(u) PROVE StoreInv'
<1> DEFINE rec == up[u]
<1>1. rec \in UploadType /\ rec.pc = "held" /\ Accounts(rec, at)
  BY DEF StoreInv, StoreTypeOK, SkipHeld, At, Silent
<1>2. CASE Becomes(u, [up[u] EXCEPT !.pc = "put"])
  <2>1. [rec EXCEPT !.pc = "put"] \in UploadType  BY <1>1 DEF UploadType, Pc
  <2>2. Accounts([rec EXCEPT !.pc = "put"], at)  BY <1>1 DEF Accounts, UploadType
  <2> QED BY <1>2, <2>1, <2>2, OneMoves DEF Becomes
<1>3. CASE Becomes(u, Raised(up[u]))
  <2>1. Raised(rec) \in UploadType /\ Silent(Raised(rec))
    BY <1>1 DEF Raised, UploadType, Pc, Silent
  <2> QED BY <1>3, <2>1, OneMoves DEF Becomes
<1>4. CASE at[up[u].i] # "none" /\ Becomes(u, Present(up[u]))
  <2>1. Present(rec) \in UploadType /\ Accounts(Present(rec), at)  BY <1>1, <1>4, ListedFacts
  <2> QED BY <1>4, <2>1, OneMoves DEF Becomes
<1> QED BY <1>2, <1>3, <1>4 DEF SkipHeld

\* An identical object is there already, a different one stops the upload.
LEMMA PutHonest == ASSUME StoreInv, NEW u \in Uploader, Put(u) PROVE StoreInv'
<1> DEFINE rec == up[u]
<1>1. rec \in UploadType /\ rec.pc = "put" /\ Accounts(rec, at)
  BY DEF StoreInv, StoreTypeOK, Put, At, Silent
<1>2. CASE Becomes(u, [up[u] EXCEPT !.pc = "replace"])
  <2>1. [rec EXCEPT !.pc = "replace"] \in UploadType  BY <1>1 DEF UploadType, Pc
  <2>2. Accounts([rec EXCEPT !.pc = "replace"], at)  BY <1>1 DEF Accounts, UploadType
  <2> QED BY <1>2, <2>1, <2>2, OneMoves DEF Becomes
<1>3. CASE Becomes(u, Raised(up[u]))
  <2>1. Raised(rec) \in UploadType /\ Silent(Raised(rec))
    BY <1>1 DEF Raised, UploadType, Pc, Silent
  <2> QED BY <1>3, <2>1, OneMoves DEF Becomes
<1>4. CASE at[up[u].i] = "whole" /\ Becomes(u, Uploaded(up[u]))
  <2>1. Uploaded(rec) \in UploadType /\ Accounts(Uploaded(rec), at)  BY <1>1, <1>4, ListedFacts
  <2> QED BY <1>4, <2>1, OneMoves DEF Becomes
<1>5. at[rec.i] \in {"none", "whole", "rotten"}
  BY <1>1, ManifestFacts DEF Accounts, StoreInv, StoreTypeOK
<1> QED BY <1>2, <1>3, <1>4, <1>5 DEF Put

\* The rename puts the object at its address.
LEMMA ReplaceHonest == ASSUME StoreInv, NEW u \in Uploader, Replace(u) PROVE StoreInv'
<1> DEFINE rec == up[u]
           next == [rec EXCEPT !.pc = "role"]
<1>1. rec \in UploadType /\ rec.pc = "replace" /\ Accounts(rec, at)
  BY DEF StoreInv, StoreTypeOK, Replace, At, Silent
<1>2. rec.i \in Index  BY <1>1, ManifestFacts DEF Accounts
<1>3. at' = [at EXCEPT ![rec.i] = "whole"] /\ up' = [up EXCEPT ![u] = next]  BY DEF Replace
<1>4. /\ at' \in [Index -> {"none", "whole", "rotten"}] /\ at'[rec.i] = "whole"
      /\ \A j \in Index : at[j] # "none" => at'[j] # "none"
  BY <1>2, <1>3 DEF StoreInv, StoreTypeOK
<1>5. next \in UploadType  BY <1>1 DEF UploadType, Pc
<1>6. Accounts(next, at')
  <2>1. Accounts(rec, at')  BY <1>1, <1>4, StaysFacts DEF UploadType
  <2> QED BY <1>1, <1>4, <2>1 DEF Accounts, UploadType
<1>7. StoreTypeOK'  BY <1>3, <1>4, <1>5 DEF StoreInv, StoreTypeOK
<1>8. ASSUME NEW v \in Uploader PROVE Silent(up'[v]) \/ Accounts(up'[v], at')
  <2>1. CASE v = u  BY <1>3, <1>6, <2>1 DEF StoreInv, StoreTypeOK
  <2>2. CASE v # u
    <3>1. up'[v] = up[v] /\ up[v] \in UploadType  BY <1>3, <2>2 DEF StoreInv, StoreTypeOK
    <3>2. CASE Silent(up[v])  BY <3>1, <3>2
    <3>3. CASE Accounts(up[v], at) /\ ~Silent(up[v])
      <4>1. up[v].pc \in {"role", "tag"} => up[v].i \in Index  BY <3>3, ManifestFacts DEF Accounts
      <4> QED BY <1>4, <3>1, <3>3, <4>1, StaysFacts DEF UploadType
    <3> QED BY <3>2, <3>3 DEF StoreInv
  <2> QED BY <2>1, <2>2
<1> QED BY <1>7, <1>8 DEF StoreInv, Silent, Accounts

\* Writing the sidecar does not touch the object.
LEMMA RoleHonest ==
  ASSUME StoreInv, NEW u \in Uploader, TruncateRole(u) \/ WriteRole(u) PROVE StoreInv'
<1> DEFINE rec == up[u]
<1>1. rec \in UploadType /\ rec.pc \in {"role", "tag"} /\ Accounts(rec, at) /\ UNCHANGED at
  BY DEF StoreInv, StoreTypeOK, TruncateRole, WriteRole, At, Silent
<1>2. at[rec.i] # "none"  BY <1>1 DEF Accounts
<1>3. CASE TruncateRole(u)
  <2>1. [rec EXCEPT !.pc = "tag"] \in UploadType  BY <1>1 DEF UploadType, Pc
  <2>2. Accounts([rec EXCEPT !.pc = "tag"], at)  BY <1>1, <1>2 DEF Accounts, UploadType
  <2>3. up' = [up EXCEPT ![u] = [rec EXCEPT !.pc = "tag"]]  BY <1>3 DEF TruncateRole
  <2> QED BY <1>1, <2>1, <2>2, <2>3, OneMoves
<1>4. CASE WriteRole(u)
  <2>1. Uploaded(rec) \in UploadType /\ Accounts(Uploaded(rec), at)  BY <1>1, <1>2, ListedFacts
  <2>2. up' = [up EXCEPT ![u] = Uploaded(rec)]  BY <1>4 DEF WriteRole
  <2> QED BY <1>1, <2>1, <2>2, OneMoves
<1> QED BY <1>3, <1>4

\* A failed attempt is tried again or reported as a failure.
LEMMA PutFailsHonest == ASSUME StoreInv, NEW u \in Uploader, PutFails(u) PROVE StoreInv'
<1> DEFINE rec == up[u]
<1>1. /\ rec \in UploadType /\ rec.pc \in {"put", "replace", "role", "tag"}
      /\ Accounts(rec, at) /\ UNCHANGED at
  BY DEF StoreInv, StoreTypeOK, PutFails, Silent
<1>2. TryAgain(rec) \in UploadType /\ Accounts(TryAgain(rec), at)
  <2>1. Failed(rec) \in UploadType /\ Accounts(Failed(rec), at)  BY <1>1, ListedFacts
  <2> DEFINE again == [rec EXCEPT !.tries = rec.tries + 1, !.pc = "put"]
  <2>2. rec.tries + 1 \in Nat  BY <1>1 DEF UploadType
  <2>3. again \in UploadType /\ Accounts(again, at)
    BY <1>1, <2>2, WorkFacts DEF Pc
  <2>4. TryAgain(rec) = IF rec.tries + 1 < MaxRetries THEN again ELSE Failed(rec)
    BY DEF TryAgain
  <2> QED BY <2>1, <2>3, <2>4
<1>3. up' = [up EXCEPT ![u] = TryAgain(rec)]  BY DEF PutFails
<1> QED BY <1>1, <1>2, <1>3, OneMoves

\* What happens to an upload, to the bundle or to the store from outside.
LEMMA OutsideHonest ==
  ASSUME StoreInv,
         \/ \E u \in Uploader : Dies(u)
         \/ \E i \in Index : EditBundle(i) \/ Rots(i)
  PROVE  StoreInv'
<1>1. ASSUME NEW u \in Uploader, Dies(u) PROVE StoreInv'
  <2>1. Asleep \in UploadType /\ Silent(Asleep)  BY DEF Asleep, UploadType, Pc, Silent
  <2> QED BY <1>1, <2>1, OneMoves DEF Dies
<1>2. ASSUME NEW i \in Index, EditBundle(i) PROVE StoreInv'
  BY <1>2 DEF EditBundle, StoreInv, StoreTypeOK, Silent, Accounts
<1>3. ASSUME NEW i \in Index, Rots(i) PROVE StoreInv'
  <2>1. /\ at' \in [Index -> {"none", "whole", "rotten"}] /\ UNCHANGED up
        /\ \A j \in Index : at[j] # "none" => at'[j] # "none"
    BY <1>3 DEF Rots, StoreInv, StoreTypeOK
  <2>2. ASSUME NEW v \in Uploader PROVE Silent(up[v]) \/ Accounts(up[v], at')
    <3>1. CASE Silent(up[v])  BY <3>1
    <3>2. CASE Accounts(up[v], at) /\ ~Silent(up[v])
      <4>1. up[v].pc \in {"role", "tag"} => up[v].i \in Index  BY <3>2, ManifestFacts DEF Accounts
      <4> QED BY <2>1, <3>2, <4>1, StaysFacts DEF UploadType, StoreInv, StoreTypeOK
    <3> QED BY <3>1, <3>2 DEF StoreInv
  <2> QED BY <2>1, <2>2 DEF StoreInv, StoreTypeOK, Silent, Accounts
<1> QED BY <1>1, <1>2, <1>3

-----------------------------------------------------------------------------
\* The specification of the evidence store, without the fairness that its
\* safety does not need.
StoreSpec == StoreInit /\ [][StoreNext]_storeVars

\* A finished upload's report accounts for every object, and tells the truth
\* about it (upload_bundle, LocalBundleStore.put): for every manifest, every
\* number of uploads at once and every number of retries and faults.
THEOREM ReportsHonest == StoreSpec => []ReportIsHonest
<1>1. StoreInit => StoreInv
  <2> SUFFICES ASSUME StoreInit PROVE StoreInv  OBVIOUS
  <2>1. Asleep \in UploadType /\ Silent(Asleep)  BY DEF Asleep, UploadType, Pc, Silent
  <2> QED BY <2>1 DEF StoreInit, StoreInv, StoreTypeOK
<1>2. StoreInv /\ [StoreNext]_storeVars => StoreInv'
  <2> SUFFICES ASSUME StoreInv, [StoreNext]_storeVars PROVE StoreInv'  OBVIOUS
  <2>1. ASSUME NEW u \in Uploader, Begin(u) \/ UploadStep(u) \/ PutFails(u) PROVE StoreInv'
    BY <2>1, BeginHonest, ReadEntryHonest, SkipHeldHonest, PutHonest, ReplaceHonest,
       RoleHonest, PutFailsHonest DEF UploadStep
  <2>2. CASE UNCHANGED storeVars
    BY <2>2 DEF storeVars, StoreInv, StoreTypeOK, Silent, Accounts
  <2> QED BY <2>1, <2>2, OutsideHonest DEF StoreNext
<1>3. StoreInv => ReportIsHonest
  <2> SUFFICES ASSUME StoreInv, NEW u \in Uploader, At(u, "done")
               PROVE  /\ up[u].uploaded \cup up[u].present \cup up[u].failed = Index
                      /\ up[u].failed \cap (up[u].uploaded \cup up[u].present) = {}
                      /\ \A i \in up[u].uploaded \cup up[u].present : at[i] # "none"
    BY DEF ReportIsHonest
  <2>1. Accounts(up[u], at) /\ up[u].i = Manifest + 1
    BY DEF StoreInv, At, Silent, Accounts
  <2>2. 1..(up[u].i - 1) = Index  BY <2>1, ManifestFacts
  <2> QED BY <2>1, <2>2 DEF Accounts
<1> QED BY <1>1, <1>2, <1>3, PTL DEF StoreSpec

-----------------------------------------------------------------------------
\* A cached entry says of itself what it is the result of, whatever name it is
\* filed under.
Kept(rec) == /\ rec.cached_at \in Time
             /\ rec.payload.of = rec.material /\ rec.payload.at = rec.cached_at

CacheInv ==
  /\ DOMAIN entry = Material
  /\ \A m \in Material : entry[m] # Miss => Kept(entry[m])
  /\ ReuseIsSound

CacheSpec == CacheInit /\ [][CacheNext]_cacheVars

\* A lookup compares the identity and the window of the entry that it found.
LEMMA LookupSound ==
  ASSUME CacheInv, NEW m \in Material, NEW t \in Time, NEW ttl \in 0..1, Lookup(m, t, ttl)
  PROVE  CacheInv'
<1>1. lookup' = [material |-> m, as_of |-> t, ttl |-> ttl, answer |-> cache_get(m, t, ttl)]
      /\ UNCHANGED entry
  BY DEF Lookup, Asked
<1>2. ReuseIsSound'
  <2> SUFFICES ASSUME cache_get(m, t, ttl) # Miss
               PROVE  LET a == cache_get(m, t, ttl) IN a.of = m /\ a.at <= t /\ t - ttl <= a.at
    BY <1>1 DEF ReuseIsSound
  <2> DEFINE rec == entry[m]
  <2>1. /\ cache_get(m, t, ttl) = rec.payload
        /\ rec # Miss /\ SameMaterial(rec, m) /\ InWindow(rec, t, ttl)
    BY DEF cache_get
  <2>2. Kept(rec)  BY <2>1 DEF CacheInv
  <2>3. t \in Int /\ ttl \in Int /\ rec.cached_at \in Int
    BY <2>2, CacheAssumption DEF Kept, Time
  <2>4. rec.payload.of = m  BY <2>1, <2>2 DEF Kept, SameMaterial
  <2>5. rec.payload.at <= t /\ t - ttl <= rec.payload.at
    <3>1. t >= rec.cached_at /\ t - rec.cached_at <= ttl  BY <2>1 DEF InWindow
    <3> HIDE DEF rec
    <3> QED BY <2>2, <2>3, <3>1 DEF Kept
  <2> QED BY <2>1, <2>4, <2>5
<1> QED BY <1>1, <1>2 DEF CacheInv

\* A result is filed with the time and the identity it was computed for.
LEMMA PutSound ==
  ASSUME CacheInv, NEW m \in Material, NEW t \in Time, NEW signed, NEW refs,
         cache_put(m, t, signed, refs)
  PROVE  CacheInv'
<1> DEFINE rec == [material |-> m, cached_at |-> t, signed |-> signed, refs |-> refs,
                   payload |-> [of |-> m, at |-> t]]
<1>1. entry' = [entry EXCEPT ![m] = rec] /\ UNCHANGED lookup  BY DEF cache_put
<1>2. Kept(rec)  BY DEF Kept
<1> QED BY <1>1, <1>2 DEF CacheInv, ReuseIsSound

\* A reused result was computed for the identity asked for and within the
\* window asked for (cache.get, cache.put), for every set of identities and
\* inputs and every range of time.
THEOREM ReuseSound == CacheSpec => []ReuseIsSound
<1>1. CacheInit => CacheInv
  BY DEF CacheInit, CacheInv, ReuseIsSound
<1>2. CacheInv /\ [CacheNext]_cacheVars => CacheInv'
  <2> SUFFICES ASSUME CacheInv, [CacheNext]_cacheVars PROVE CacheInv'  OBVIOUS
  <2>1. ASSUME NEW r \in Ref,
               RetainDies(r) \/ \E t \in Time, days \in 0..1 : retain(r, t, days)
        PROVE  CacheInv'
    BY <2>1 DEF RetainDies, retain, CacheInv, ReuseIsSound
  <2>2. ASSUME NEW m \in Material, PutDies(m) PROVE CacheInv'
    BY <2>2 DEF PutDies, CacheInv, ReuseIsSound
  <2>3. ASSUME NEW m \in Material, NEW n \in Material, Rename(m, n) PROVE CacheInv'
    BY <2>3 DEF Rename, CacheInv, ReuseIsSound
  <2>4. CASE Revoke
    BY <2>4 DEF Revoke, CacheInv, ReuseIsSound
  <2>5. CASE UNCHANGED cacheVars
    BY <2>5 DEF cacheVars, CacheInv, ReuseIsSound
  <2> QED BY <2>1, <2>2, <2>3, <2>4, <2>5, LookupSound, PutSound DEF CacheNext
<1> QED BY <1>1, <1>2, PTL DEF CacheSpec, CacheInv
=============================================================================
