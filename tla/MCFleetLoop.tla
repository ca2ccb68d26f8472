---------------------------- MODULE MCFleetLoop ----------------------------
(* The control loop on two hosts and two pools. *)
EXTENDS FleetLoop, TLC

CONSTANTS h1, h2, p1, p2, i1, i2, a1, a2, a3, b1, b2

\* h1 serves p1, reports, and never asks for its state; h2 serves both pools and
\* has a1 when the manager starts.  Each has one slot.
MCSlots == (h1 :> 1) @@ (h2 :> 1)
MCAllowed == (h1 :> {p1}) @@ (h2 :> {p1, p2})
MCFits == {<<h1, p1>>, <<h2, p1>>, <<h2, p2>>}
MCRecIds == (p1 :> <<a1, a2, a3>>) @@ (p2 :> <<b1, b2>>)
MCWarm == (p1 :> 1) @@ (p2 :> 1)
MCParallel == (p1 :> 1) @@ (p2 :> 1)
MCOrder == <<a1, a2, a3, b1, b2, h1, h2, i1, i2, Nothing, p1, p2>>
MCPools == <<p1, p2>>
MCAhead == (h1 :> 0) @@ (h2 :> 1)

NoAssignment == [status |-> "none", host |-> Nothing, pool |-> Nothing, issued |-> 0]
MCLoaded == [a \in AssignmentId |->
               IF a = a1 THEN [status |-> "assigned", host |-> h2, pool |-> p1, issued |-> 0] ELSE NoAssignment]
=============================================================================
