----------------------------- MODULE MCRecords -----------------------------
(* What is written down to be relied on later: the fleet's state with its  *)
(* ledger and log, the evidence store, and the decision cache.  They share *)
(* no variable: a behaviour is one of one of the three.                    *)
EXTENDS FleetState, EvidenceStore, EvaluationCache, TLC

CONSTANTS h1, h2, p1, i1, i2, a1, a2, a3, k1, k2

\* h1 has room for one runner of p1, h2 for two; the document has a1 on h2,
\* issued at instant 2.
MCSlots == (h1 :> 1) @@ (h2 :> 2)
AllFit == Host \X Pool

NoAssignment == [status |-> "none", host |-> Nothing, pool |-> Nothing, issued |-> 0]
MCLoaded == [a \in AssignmentId |->
               IF a = a1 THEN [status |-> "assigned", host |-> h2, pool |-> p1, issued |-> 2] ELSE NoAssignment]

MCSealed == <<"sound", "escaping">>

VARIABLE part

allVars == <<fleetVars, storeVars, cacheVars, part>>

MCInit == part \in {"fleet", "store", "cache"} /\ FleetInit /\ StoreInit /\ CacheInit

FleetMoves == part = "fleet" /\ FleetNext /\ UNCHANGED <<storeVars, cacheVars, part>>
StoreMoves == part = "store" /\ StoreNext /\ UNCHANGED <<fleetVars, cacheVars, part>>
CacheMoves == part = "cache" /\ CacheNext /\ UNCHANGED <<fleetVars, storeVars, part>>

\* An upload that runs goes on: it is one thread, and it waits for nobody.
MCSpec ==
    /\ MCInit /\ [][FleetMoves \/ StoreMoves \/ CacheMoves]_allVars
    /\ \A u \in Uploader :
         WF_storeVars(part = "store" /\ UploadStep(u) /\ UNCHANGED <<fleetVars, cacheVars, part>>)
=============================================================================
