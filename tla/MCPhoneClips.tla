---------------------------- MODULE MCPhoneClips ----------------------------
(* An instance of PhoneClips for TLC, bounded as the .cfg files say. *)
EXTENDS PhoneClips
=============================================================================
