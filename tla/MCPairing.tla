------------------------------ MODULE MCPairing ------------------------------
(* Instances of Pairing for TLC. *)
EXTENDS Pairing, TLC

\* Phones whose keys decode, nonces and connections are interchangeable; used by
\* the runs that check no liveness property.
Interchangeable ==
  Permutations(Phone \ Malformed) \cup Permutations(Nonce) \cup Permutations(Conn)
==============================================================================
