------------------------------ MODULE MCFanout ------------------------------
(* Instances of Fanout for TLC. *)
EXTENDS Fanout, TLC

CONSTANTS clip, image, file

\* A clip goes out in one frame, a file in a start and a chunk; the image is one
\* that is too large.
FramesOf == (clip :> 1) @@ (image :> 0) @@ (file :> 2)
=============================================================================
