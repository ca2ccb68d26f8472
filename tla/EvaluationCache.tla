-------------------------- MODULE EvaluationCache --------------------------
(***************************************************************************)
(* The reuse of a sealed result: the decision cache and the retention of   *)
(* the inputs a result was computed from (src/hub/coherence/cache.py,      *)
(* retention.py).  Time is the evaluation time that each caller brings;    *)
(* callers' times are not ordered.                                         *)
(***************************************************************************)
EXTENDS Integers, FiniteSets

CONSTANTS
    Material,       \* complete bound identities
    Ref,            \* contents of retained inputs; a ref is the content
    LastTime,       \* evaluation times are 0..LastTime
    MaxWrites,      \* bound on retains and puts
    Miss            \* the answer of a lookup that must be evaluated

ASSUME CacheAssumption == LastTime \in Nat /\ MaxWrites \in Nat

Time == 0..LastTime

VARIABLES
    bundle,     \* bundles/<ref>: "none", "whole" or "torn"
    record,     \* records/<ref>.json: Miss when absent or unreadable
    entry,      \* entries/<key>.json: Miss when absent or unreadable
    revoked,    \* the signer of the cached results is no longer valid
    lookup,     \* the last lookup and its answer
    writes

cacheVars == <<bundle, record, entry, revoked, lookup, writes>>

Asked(m, t, ttl, answer) == [material |-> m, as_of |-> t, ttl |-> ttl, answer |-> answer]

CacheInit ==
    /\ bundle = [r \in Ref |-> "none"]
    /\ record = [r \in Ref |-> Miss]
    /\ entry = [m \in Material |-> Miss]
    /\ revoked = FALSE
    /\ lookup = Miss
    /\ writes = 0

Writes == writes < MaxWrites /\ writes' = writes + 1

-----------------------------------------------------------------------------
(* retention.py                                                            *)

\* retain: the bytes once, the record every time; a bundle that is there and
\* differs (a torn one) is a collision.
retain(r, t, days) ==
    /\ bundle[r] # "torn"
    /\ Writes
    /\ bundle' = [bundle EXCEPT ![r] = "whole"]
    /\ record' = [record EXCEPT ![r] = [at |-> t, days |-> days]]
    /\ UNCHANGED <<entry, revoked, lookup>>

\* ... cut off while it writes the bytes, or the record.
RetainDies(r) ==
    /\ bundle[r] # "torn"
    /\ Writes
    /\ \/ bundle[r] = "none" /\ bundle' = [bundle EXCEPT ![r] = "torn"] /\ UNCHANGED record
       \/ bundle' = [bundle EXCEPT ![r] = "whole"] /\ record' = [record EXCEPT ![r] = Miss]
    /\ UNCHANGED <<entry, revoked, lookup>>

\* read succeeds, for a caller that holds the capability of this ref.
read(r, as_of) ==
    /\ bundle[r] # "none"
    /\ record[r] # Miss
    /\ as_of <= record[r].at + record[r].days
    /\ bundle[r] = "whole"

-----------------------------------------------------------------------------
(* cache.py                                                                *)

\* put, of what an evaluation of m at time t gave: the payload names what it
\* is the result of.
cache_put(m, t, signed, refs) ==
    /\ Writes
    /\ entry' = [entry EXCEPT ![m] = [material |-> m, cached_at |-> t, signed |-> signed,
                                      refs |-> refs, payload |-> [of |-> m, at |-> t]]]
    /\ UNCHANGED <<bundle, record, revoked, lookup>>

PutDies(m) ==
    /\ Writes
    /\ entry[m] # Miss
    /\ entry' = [entry EXCEPT ![m] = Miss]
    /\ UNCHANGED <<bundle, record, revoked, lookup>>

\* Mutant: the file name is taken for the identity.
NoDrift(rec, m) == TRUE

\* Every component of the stored identity is compared again.
SameMaterial(rec, m) == rec.material = m

\* Both of the times are trusted, so an entry from the future is a
\* contradiction.
InWindow(rec, as_of, ttl) ==
    /\ as_of >= rec.cached_at
    /\ as_of - rec.cached_at <= ttl

cache_get(m, as_of, ttl) ==
    LET rec == entry[m] IN
    IF /\ rec # Miss
       /\ SameMaterial(rec, m)
       /\ InWindow(rec, as_of, ttl)
       /\ rec.signed => ~revoked
       /\ \A r \in rec.refs : read(r, as_of)
    THEN rec.payload
    ELSE Miss

Lookup(m, as_of, ttl) ==
    /\ lookup' = Asked(m, as_of, ttl, cache_get(m, as_of, ttl))
    /\ UNCHANGED <<bundle, record, entry, revoked, writes>>

-----------------------------------------------------------------------------
(* The environment.                                                        *)

\* A record is put under another key's name.
Rename(m, n) ==
    /\ m # n /\ entry[m] # Miss
    /\ Writes
    /\ entry' = [entry EXCEPT ![n] = entry[m]]
    /\ UNCHANGED <<bundle, record, revoked, lookup>>

Revoke ==
    /\ ~revoked
    /\ revoked' = TRUE
    /\ lookup' = Miss
    /\ UNCHANGED <<bundle, record, entry, writes>>

CacheNext ==
    \/ \E r \in Ref :
         \/ RetainDies(r)
         \/ \E t \in Time, days \in 0..1 : retain(r, t, days)
    \/ \E m \in Material :
         \/ PutDies(m)
         \/ \E t \in Time, signed \in BOOLEAN, refs \in SUBSET Ref : cache_put(m, t, signed, refs)
         \/ \E t \in Time, ttl \in 0..1 : Lookup(m, t, ttl)
         \/ \E n \in Material : Rename(m, n)
    \/ Revoke

-----------------------------------------------------------------------------
(***************************************************************************)
(* A reused result is one's own and still good: it was computed for the    *)
(* identity asked for, not after the time it is asked at and at most the   *)
(* declared TTL before it, although records are renamed, writes are cut    *)
(* off, inputs are retained again with another window and callers' times   *)
(* go back (cache.get, cache.put).                                         *)
(***************************************************************************)
ReuseIsSound ==
    lookup # Miss /\ lookup.answer # Miss =>
      /\ lookup.answer.of = lookup.material
      /\ lookup.answer.at <= lookup.as_of
      /\ lookup.as_of - lookup.ttl <= lookup.answer.at
=============================================================================
