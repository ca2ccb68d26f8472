------------------------------- MODULE MCJobs -------------------------------
(* Two instances on two hosts, two image generations, an unreliable wire. *)
EXTENDS RunnerJobs, TLC

CONSTANTS i1, i2, h1, h2

MCHostOf == (i1 :> h1) @@ (i2 :> h2)

Conforming == [runtime |-> "podman", calls |-> [call \in ADAPTER_CALLS |-> Names(call)]]

\* One adapter honours the contract; the others take no key, take the
\* registration material itself, or serve another runtime.
MCAdapters ==
  {Conforming,
   [Conforming EXCEPT !.calls["create_runner"] = @ \ {"operation_key"}],
   [Conforming EXCEPT !.calls["create_runner"] = @ \cup {"token"}],
   [Conforming EXCEPT !.runtime = "docker"]}

\* h1 may cancel, h2 declares it without the policy.
MCCapability ==
  [h \in Host |-> [operations |-> OperationKind, allow_cancel_or_timeout |-> h = h1]]

NameSymmetry == Permutations(Key) \cup Permutations(Image)
=============================================================================
