--------------------------- MODULE EvidenceStore ---------------------------
(***************************************************************************)
(* The content-addressed evidence store and the retryable upload of a      *)
(* sealed bundle into it (src/hub/coherence/store.py: LocalBundleStore,    *)
(* upload_bundle).  Several uploads of the same bundle may run at once,    *)
(* any of their file operations may fail, any of them may die between two  *)
(* operations, and files rot.                                              *)
(*                                                                         *)
(* An object is known by its place in the sealed manifest: its digest, its *)
(* address in the store and its sealed bytes are those of that place.  The *)
(* manifest itself is the last object.                                     *)
(***************************************************************************)
EXTENDS Integers, Sequences, FiniteSets

CONSTANTS
    Uploader,       \* processes that may run upload_bundle
    Sealed,         \* the manifest: per object "sound", "malformed" or "escaping"
    MaxRetries,     \* upload_bundle's max_retries
    MaxFaults       \* bound on failed operations, deaths and rotten files

ASSUME StoreAssumption ==
    /\ Sealed \in Seq({"sound", "malformed", "escaping"})
    /\ MaxRetries \in Nat \ {0} /\ MaxFaults \in Nat

Manifest == Len(Sealed) + 1
Index    == 1..Manifest

VARIABLES
    disk,       \* the bundle's files: "sealed", "edited" or "gone"
    at,         \* at the content address: "none", "whole" or "rotten"
    role,       \* the sidecar beside it: "none", "empty" or "tag"
    up,         \* the uploads
    faults

storeVars == <<disk, at, role, up, faults>>

Asleep == [pc |-> "idle", i |-> 0, tries |-> 0, uploaded |-> {}, present |-> {}, failed |-> {}]

StoreInit ==
    /\ disk = [i \in Index |-> "sealed"]
    /\ at = [i \in Index |-> "none"]
    /\ role = [i \in Index |-> "none"]
    /\ up = [u \in Uploader |-> Asleep]
    /\ faults = 0

Fault == faults < MaxFaults /\ faults' = faults + 1
At(u, pc) == up[u].pc = pc
Active(u) == up[u].pc \notin {"idle", "done", "raised"}

\* The upload u becomes rec; nothing else changes.
Becomes(u, rec) == up' = [up EXCEPT ![u] = rec] /\ UNCHANGED <<disk, at, role, faults>>

\* On to the next object, after this one was put in one of the report's lists.
Onward(rec) == [rec EXCEPT !.i = @ + 1, !.tries = 0,
                           !.pc = IF rec.i = Manifest THEN "done" ELSE "entry"]
Uploaded(rec) == Onward([rec EXCEPT !.uploaded = @ \cup {rec.i}])
Present(rec)  == Onward([rec EXCEPT !.present = @ \cup {rec.i}])
Failed(rec)   == Onward([rec EXCEPT !.failed = @ \cup {rec.i}])
Raised(rec)   == [rec EXCEPT !.pc = "raised"]

-----------------------------------------------------------------------------
\* upload_bundle reads the manifest, or raises.
Begin(u) ==
    /\ ~Active(u)
    /\ Becomes(u, [Asleep EXCEPT !.pc = IF disk[Manifest] = "gone" THEN "raised" ELSE "entry",
                                 !.i = 1])

\* One object of the manifest: its entry is well-formed and stays inside the
\* bundle, its file is readable and has the sealed digest.
ReadEntry(u) ==
    LET i == up[u].i IN
    /\ At(u, "entry")
    /\ IF i # Manifest /\ (Sealed[i] # "sound" \/ disk[i] # "sealed")
       THEN Becomes(u, Failed(up[u]))
       ELSE Becomes(u, [up[u] EXCEPT !.pc = "held"])

\* LocalBundleStore.get: the bytes and the sidecar are read, and the digest
\* under the recorded role must be the address.
get(i) ==
    IF at[i] = "none" \/ role[i] = "none" THEN "not found"
    ELSE IF at[i] = "whole" /\ role[i] = "tag" THEN "payload"
    ELSE "tampered"

\* Mutant: an object that cannot be read back stops the upload.
HeldOrStop(u) ==
    LET i == up[u].i IN
    /\ At(u, "held")
    /\ Becomes(u, CASE at[i] = "none" -> [up[u] EXCEPT !.pc = "put"]
                    [] at[i] # "none" /\ get(i) = "payload" -> Present(up[u])
                    [] at[i] # "none" /\ get(i) # "payload" -> Raised(up[u]))

\* An object that the store has is skipped once it reads back; a tampered one
\* is a hard stop, an unreadable one is put again.  Of the manifest only the
\* presence is asked.
SkipHeld(u) ==
    LET i == up[u].i IN
    /\ At(u, "held")
    /\ Becomes(u, IF at[i] = "none" \/ (i # Manifest /\ get(i) = "not found")
                  THEN [up[u] EXCEPT !.pc = "put"]
                  ELSE IF i # Manifest /\ get(i) = "tampered"
                  THEN Raised(up[u])
                  ELSE Present(up[u]))

-----------------------------------------------------------------------------
(* LocalBundleStore.put: the existing object compared, or a temporary file *)
(* written, renamed to the address, and the sidecar written beside it.     *)

Put(u) ==
    LET i == up[u].i IN
    /\ At(u, "put")
    /\ Becomes(u, CASE at[i] = "none"  -> [up[u] EXCEPT !.pc = "replace"]
                    [] at[i] = "whole" -> Uploaded(up[u])
                    [] at[i] \notin {"none", "whole"} -> Raised(up[u]))

Replace(u) ==
    /\ At(u, "replace")
    /\ at' = [at EXCEPT ![up[u].i] = "whole"]
    /\ up' = [up EXCEPT ![u].pc = "role"]
    /\ UNCHANGED <<disk, role, faults>>

\* The sidecar is written in place: truncated, then filled.
TruncateRole(u) ==
    /\ At(u, "role")
    /\ role' = [role EXCEPT ![up[u].i] = "empty"]
    /\ up' = [up EXCEPT ![u].pc = "tag"]
    /\ UNCHANGED <<disk, at, faults>>

WriteRole(u) ==
    /\ At(u, "tag")
    /\ role' = [role EXCEPT ![up[u].i] = "tag"]
    /\ up' = [up EXCEPT ![u] = Uploaded(@)]
    /\ UNCHANGED <<disk, at, faults>>

\* Mutant: the last attempt's failure is forgotten.
TryAgainOrGo(rec) ==
    IF rec.tries + 1 < MaxRetries
    THEN [rec EXCEPT !.tries = @ + 1, !.pc = "put"]
    ELSE Uploaded(rec)

\* A failed attempt: tried again after a pause, or given up.
TryAgain(rec) ==
    IF rec.tries + 1 < MaxRetries
    THEN [rec EXCEPT !.tries = @ + 1, !.pc = "put"]
    ELSE Failed(rec)

\* An OSError in put: the temporary file is removed, what was renamed or
\* written stays.
PutFails(u) ==
    /\ up[u].pc \in {"put", "replace", "role", "tag"}
    /\ At(u, "put") => at[up[u].i] = "none"
    /\ Fault
    /\ up' = [up EXCEPT ![u] = TryAgain(@)]
    /\ UNCHANGED <<disk, at, role>>

-----------------------------------------------------------------------------
(* The environment.                                                        *)

Dies(u) ==
    /\ Active(u)
    /\ Fault
    /\ up' = [up EXCEPT ![u] = Asleep]
    /\ UNCHANGED <<disk, at, role>>

EditBundle(i) ==
    /\ Fault
    /\ \E f \in {"edited", "gone"} :
         (i = Manifest => f = "gone") /\ disk[i] # f /\ disk' = [disk EXCEPT ![i] = f]
    /\ UNCHANGED <<at, role, up>>

Rots(i) ==
    /\ at[i] = "whole"
    /\ Fault
    /\ at' = [at EXCEPT ![i] = "rotten"]
    /\ UNCHANGED <<disk, role, up>>

UploadStep(u) ==
    \/ ReadEntry(u) \/ SkipHeld(u) \/ Put(u) \/ Replace(u) \/ TruncateRole(u) \/ WriteRole(u)

StoreNext ==
    \/ \E u \in Uploader : Begin(u) \/ UploadStep(u) \/ PutFails(u) \/ Dies(u)
    \/ \E i \in Index : EditBundle(i) \/ Rots(i)

-----------------------------------------------------------------------------
(***************************************************************************)
(* A report tells the truth: whoever else failed or died, a finished       *)
(* upload accounts for every object of the manifest, none both as stored   *)
(* and as failed, and what it reports as uploaded or already present is in *)
(* the store (LocalBundleStore.put, upload_bundle).                        *)
(***************************************************************************)
ReportIsHonest ==
    \A u \in Uploader : At(u, "done") =>
       /\ up[u].uploaded \cup up[u].present \cup up[u].failed = Index
       /\ up[u].failed \cap (up[u].uploaded \cup up[u].present) = {}
       /\ \A i \in up[u].uploaded \cup up[u].present : at[i] # "none"

\* No fault is left to happen, nobody else uploads, the bundle is as it was
\* sealed, and nothing in the store is rotten or has a torn sidecar.
Quiet(u) ==
    /\ faults = MaxFaults
    /\ \A v \in Uploader \ {u} : ~Active(v)
    /\ \A i \in Index : disk[i] = "sealed" /\ at[i] # "rotten"
    /\ \A i \in Index : role[i] = "empty" => At(u, "tag")

(***************************************************************************)
(* A partial upload is resumed: whatever earlier uploads left in the store *)
(* when they failed or died, one that runs undisturbed to its end stores   *)
(* every sound object and the manifest (upload_bundle's docstring).        *)
(***************************************************************************)
UploadResumes ==
    \A u \in Uploader :
       [](At(u, "entry") /\ up[u].i = 1 /\ []Quiet(u) =>
            <>(At(u, "done") /\ up[u].failed = {i \in DOMAIN Sealed : Sealed[i] # "sound"}))

\* A comment of LocalBundleStore.put: "a partial object must never sit at its
\* content address -- presence IS completeness".  What a finished upload
\* reports as stored, and has not rotted since, reads back.
ReportedReadsBack ==
    \A u \in Uploader : At(u, "done") =>
       \A i \in up[u].uploaded : at[i] = "rotten" \/ get(i) = "payload"
=============================================================================
