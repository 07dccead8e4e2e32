----------------------------- MODULE MCWatcher ------------------------------
(* An instance of Watcher for TLC, bounded as the .cfg files say. *)
EXTENDS Watcher
=============================================================================
