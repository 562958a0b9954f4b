------------------------------ MODULE MCGrepod ------------------------------
(* Grepod for TLC. *)
EXTENDS Grepod
=============================================================================
