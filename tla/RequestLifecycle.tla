-------------------------- MODULE RequestLifecycle --------------------------
(***************************************************************************)
(* What the hub promises about a toolchain request (mon-tc-03 to           *)
(* mon-tc-05), without credentials, history, storage or wire format: the   *)
(* states a request moves through, that each decision spends a nonce, that *)
(* each transition is one version, and that a request is fulfilled only by *)
(* its lane running the image that was built for it.                       *)
(***************************************************************************)
EXTENDS Naturals

CONSTANTS Lane, Tool, Digest, Nonce, None

Key == Lane \X Tool

VARIABLES
    state,     \* state of the request for each (lane, tool)
    version,   \* number of transitions it has made
    awaited,   \* the built digest its lane has yet to run, or last ran
    image,     \* the digest each lane last reported
    spent      \* nonces that have decided something

vars == <<state, version, awaited, image, spent>>

Init ==
    /\ state = [k \in Key |-> "absent"]
    /\ version = [k \in Key |-> 0]
    /\ awaited = [k \in Key |-> None]
    /\ image = [l \in Lane |-> None]
    /\ spent = {}

Step(k, from, to, d) ==
    /\ state[k] \in from
    /\ state' = [state EXCEPT ![k] = to]
    /\ version' = [version EXCEPT ![k] = @ + 1]
    /\ awaited' = [awaited EXCEPT ![k] = d]

DecideRequest(k, n, to) ==
    /\ n \notin spent
    /\ spent' = spent \cup {n}
    /\ Step(k, {"open"}, to, awaited[k])
    /\ UNCHANGED image

Build(k, d) ==
    /\ Step(k, {"approved"}, "built", d)
    /\ UNCHANGED <<image, spent>>

FailBuild(k) ==
    /\ Step(k, {"approved", "built"}, "open", None)
    /\ UNCHANGED <<image, spent>>

\* One heartbeat may move several of its lane's requests, each by at most one
\* of these.
Same(k)    == /\ state'[k] = state[k] /\ version'[k] = version[k]
              /\ awaited'[k] = awaited[k]
Opens(k)   == /\ state[k] = "absent" /\ state'[k] = "open"
              /\ version'[k] = version[k] + 1 /\ awaited'[k] = None
GivesUp(k) == /\ state[k] = "built" /\ state'[k] = "built"
              /\ version'[k] = version[k]
              /\ awaited[k] # image'[k[1]] /\ awaited'[k] = None
Fulfils(k) == /\ state[k] = "built" /\ state'[k] = "fulfilled"
              /\ version'[k] = version[k] + 1
              /\ awaited[k] # None /\ awaited[k] = image'[k[1]]
              /\ awaited'[k] = awaited[k]
Reopens(k) == /\ state[k] \in {"fulfilled", "denied"} /\ state'[k] = "open"
              /\ version'[k] = version[k] + 1 /\ awaited'[k] = None

Beat(l, d) ==
    /\ image' = [image EXCEPT ![l] = d]
    /\ state' \in [Key -> {state[k] : k \in Key} \cup {"open", "fulfilled"}]
    /\ version' \in [Key -> {version[k] : k \in Key}
                            \cup {version[k] + 1 : k \in Key}]
    /\ awaited' \in [Key -> {awaited[k] : k \in Key} \cup {None}]
    /\ \A k \in Key :
          \/ Same(k)
          \/ k[1] = l /\ (Opens(k) \/ GivesUp(k) \/ Fulfils(k) \/ Reopens(k))
    /\ UNCHANGED spent

Next ==
    \/ \E k \in Key, n \in Nonce, to \in {"approved", "denied"} :
          DecideRequest(k, n, to)
    \/ \E k \in Key : FailBuild(k) \/ \E d \in Digest : Build(k, d)
    \/ \E l \in Lane, d \in Digest \cup {None} : Beat(l, d)

Spec == Init /\ [][Next]_vars
=============================================================================
