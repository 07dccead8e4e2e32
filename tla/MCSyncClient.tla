---------------------------- MODULE MCSyncClient ----------------------------
(* Instances of SyncClient for TLC. *)
EXTENDS SyncClient, TLC

CONSTANTS h1, h2, h3

\* The offer names two adapters of the PC; h3 is an address it gets later.
TwoHosts == <<h1, h2>>

\* Sockets and networks are interchangeable; used where no liveness is checked.
Interchangeable == Permutations(Socket) \cup Permutations(Network)
=============================================================================
