--------------------------- MODULE MCBroadcaster ---------------------------
(* Broadcaster for TLC.  The run checks liveness too, so no symmetry is    *)
(* declared although publishers and viewers are interchangeable.           *)
EXTENDS Broadcaster
=============================================================================
