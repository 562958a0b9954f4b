---------------------------- MODULE MCShardStore ----------------------------
(* ShardStore for TLC. *)
EXTENDS ShardStore

\* half a day west of UTC
West == -2
=============================================================================
