---------------------------- MODULE MCTailMarker ----------------------------
(* TailMarker for TLC. *)
EXTENDS TailMarker
=============================================================================
