-------------------------- MODULE BatchQueueLedger --------------------------
(***************************************************************************)
(* BatchQueue implements IngestLedger: the lines in memory are those of    *)
(* the channel, of q.buf and of the dates of the current batch that are    *)
(* not committed.                                                          *)
(***************************************************************************)
EXTENDS BatchQueue

InMemory == Pending \union ToSet(buf) \union ToSet(chan)

Ledger == INSTANCE IngestLedger WITH inflight <- InMemory

(* Every step of the queue is a step of the ledger or leaves it alone: no  *)
(* accepted line vanishes, comes back, is stored twice or stored after it  *)
(* was given up, and a shard receives the lines of its day oldest first,   *)
(* whatever the order of the dates in InsertBatch and wherever it fails.   *)
ImplementsLedger == Ledger!Spec
=============================================================================
