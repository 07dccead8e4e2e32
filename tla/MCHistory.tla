----------------------------- MODULE MCHistory ------------------------------
(* Instances of History for TLC. *)
EXTENDS History, TLC

\* Texts and threads are interchangeable.
Interchangeable == Permutations(Text) \cup Permutations(Recorder)
=============================================================================
