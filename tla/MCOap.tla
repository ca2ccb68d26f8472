------------------------------- MODULE MCOap -------------------------------
(* One producer, one signing key, two receivers; two runs of the same      *)
(* inputs that came to different decisions.                                *)
EXTENDS OapObserver, TLC

CONSTANTS v1, v2

Result(decision) ==
    [decision |-> decision, semantics |-> "fresh-promotion", manifest |-> "m",
     subject |-> "s", policy |-> "b", context |-> "c", evaluator |-> "d"]
SealedRun(decision) ==
    [result |-> Result(decision), manifest |-> "m",
     attestation |-> [statement |-> Result(decision),
                      bound |-> [subject |-> "s", policy |-> "b", context |-> "c",
                                 evaluator |-> "d", manifest |-> "m"]]]
MCSealed == {SealedRun("PASS"), SealedRun("FAIL")}

PassBody ==
    [producer |-> "devgate", audience |-> "oap", tenant |-> "t", subject |-> "s",
      policy |-> "b", context |-> "c", evaluator |-> "d", decision |-> "PASS", exit |-> 0,
      status |-> "PASS", semantics |-> "fresh-promotion"]

\* A submission, the same with another payload or under another key, one over
\* files of two runs, and one of the first contract.
Hand(payload, key, attested, contract) ==
    [body |-> PassBody, key |-> key, contract |-> contract,
     bytes |-> [payload |-> payload, result |-> Result("PASS"), manifest |-> "m",
                attestation |-> SealedRun(attested).attestation]]
MCHanded ==
    {Hand("p1", "k1", "PASS", "v2"), Hand("p2", "k1", "PASS", "v2"),
     Hand("p1", "k2", "PASS", "v2"), Hand("p1", "k2", "FAIL", "v2"),
     Hand("p1", "k1", "PASS", "v1")}

MCExpected ==
    [producer |-> "devgate", audience |-> "oap", tenant |-> "t", subject |-> "s",
     policy |-> "b", context |-> "c", evaluator |-> "d", direction |-> "devgate-to-oap",
     decision |-> "PASS", exit |-> 0, status |-> "PASS", semantics |-> "fresh-promotion"]

MCSymmetry == Permutations({v1, v2})
=============================================================================
