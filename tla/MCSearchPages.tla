---------------------------- MODULE MCSearchPages ----------------------------
(* SearchPages for TLC. *)
EXTENDS SearchPages
=============================================================================
