---------------------------- MODULE MCBatchQueue ----------------------------
(* BatchQueue for TLC, with the ledger it implements.  The run checks      *)
(* liveness too, so no symmetry is declared.                               *)
EXTENDS BatchQueueLedger
=============================================================================
