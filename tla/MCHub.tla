------------------------------- MODULE MCHub -------------------------------
(***************************************************************************)
(* Small instances of HubRegistry for TLC.                                 *)
(***************************************************************************)
EXTENDS HubRegistry, TLC

\* Nonces, digests and heartbeat tokens are only ever compared for equality.
Perms == Permutations(Nonce) \cup Permutations(Digest) \cup Permutations(Hbt)

\* `call' records the last request for the action properties and is never read
\* by a step, nor by a property of these runs: states that differ only in it
\* have the same successors and satisfy the same formulas.
WithoutCall == <<mem, disk, now, held, acked>>

\* Bound: requests and enrollments are explored apart.  Once somebody has been
\* enrolled or revoked no request is made, and the other way round.
NoRequest(doc) == \A k \in Key : doc.rows[k].state = "absent"
NoEnrollment(doc) ==
    /\ doc.tokens = Token
    /\ \A l \in Lane : doc.runners[l].status = IF l \in Enrolled0 THEN "enrolled" ELSE "unknown"
Apart ==
    \/ NoRequest(mem) /\ NoRequest(disk)
    \/ NoEnrollment(mem) /\ NoEnrollment(disk)
=============================================================================
