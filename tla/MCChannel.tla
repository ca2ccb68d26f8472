----------------------------- MODULE MCChannel -----------------------------
(* The agent channel on small instances. *)
EXTENDS AgentChannel, TLC

\* Hosts, keys, tokens and nonces are interchangeable names.
Names == Permutations(Host) \cup Permutations(Key) \cup Permutations(Token) \cup Permutations(Nonce)
=============================================================================
