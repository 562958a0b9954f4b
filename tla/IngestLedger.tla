---------------------------- MODULE IngestLedger ----------------------------
(***************************************************************************)
(* What the ingestion queue promises about the lines it accepts, whatever  *)
(* its channel, buffer, batches and goroutines do: an accepted line is in  *)
(* memory until it moves, once, to its day's shard or to the lines lost    *)
(* with a failed flush.  The lines that reach a shard together are the     *)
(* oldest of their day: a shard is never ahead of a line still in memory.  *)
(***************************************************************************)
EXTENDS Integers

CONSTANT Days

VARIABLES
  inflight,   \* accepted lines that are only in memory
  stored,     \* rows of the shards
  lost        \* accepted lines that were discarded

vars == <<inflight, stored, lost>>

Line == [id : Nat \ {0}, day : Days]

Init == inflight = {} /\ stored = {} /\ lost = {}

(* The new line is sought in inflight', since Line cannot be enumerated.   *)
Accept ==
  /\ \E l \in inflight' \ inflight :
       /\ l \in Line
       /\ \A m \in inflight \union stored \union lost : m.id < l.id
       /\ inflight' = inflight \union {l}
  /\ UNCHANGED <<stored, lost>>

OldestOfDay(S, d) ==
  /\ \A l \in S : l.day = d
  /\ \A l \in S, m \in inflight \ S : m.day = d => l.id < m.id

Commit(d) ==
  /\ \E S \in SUBSET inflight :
       /\ OldestOfDay(S, d)
       /\ stored' = stored \union S
       /\ inflight' = inflight \ S
  /\ UNCHANGED lost

Lose ==
  /\ \E S \in SUBSET inflight :
       /\ lost' = lost \union S
       /\ inflight' = inflight \ S
  /\ UNCHANGED stored

Next == Accept \/ (\E d \in Days : Commit(d)) \/ Lose

Spec == Init /\ [][Next]_vars
=============================================================================
