----------------------------- MODULE BatchQueue -----------------------------
(***************************************************************************)
(* The ingestion queue (internal/storage/queue.go): tailer goroutines call *)
(* Enqueue, which never blocks; one goroutine runs BatchQueue.run, which   *)
(* moves lines from the channel q.in to q.buf and flushes q.buf to the     *)
(* daily shards with Store.InsertBatch; main calls Close once.             *)
(*                                                                         *)
(* A line is the order in which the channel accepted it and the day its    *)
(* timestamp falls on, the only part of it that InsertBatch looks at.  A   *)
(* refused line goes through recordDrop, step by step (DropWarning), while *)
(* its goroutine can do nothing else.  q.mu is left out: only the run      *)
(* goroutine touches q.buf.                                                *)
(***************************************************************************)
EXTENDS Integers, Sequences, SequencesExt

CONSTANTS
  Producers,    \* goroutines that call Enqueue
  Days,         \* dates a line may be stamped with, one shard each
  Size,         \* BATCH_SIZE: q.buf is flushed at this length
  CapFactor,    \* the channel holds Size * CapFactor lines; 4 in the code
  MaxLines,     \* bound: number of lines the channel accepts
  Interval, MaxClock, MaxDrops, WallClock   \* of recordDrop, see DropWarning

ASSUME QueueAssumption ==
  /\ Size \in Nat \ {0}
  /\ CapFactor \in Nat \ {0}
  /\ MaxLines \in Nat
  /\ Interval \in Nat \ {0}
  /\ MaxClock \in Nat \ {0}
  /\ MaxDrops \in Nat
  /\ WallClock \in BOOLEAN

VARIABLES
  chan,       \* q.in
  buf,        \* q.buf
  batch,      \* the local batch of the flush in progress, <<>> outside one
  todo,       \* the dates of byDate that InsertBatch has not committed yet
  runPC,      \* where the run goroutine is
  closer,     \* main: "open", "closing" (inside Close) or "closed"
  stored,     \* the rows of the shards
  lost,       \* history: the lines of failed flushes, which flush discards
  accepted,   \* history: what Enqueue put into the channel, in order
  taken,      \* history: what flush took from q.buf, in order
  closedAt    \* history: Len(accepted) when Close was called

VARIABLES dropped, lastWarnedAt, clock, pc, now, last, total, reported,
          warnings   \* of recordDrop

Drop == INSTANCE DropWarning

dropVars == <<dropped, lastWarnedAt, clock, pc, now, last, total, reported,
              warnings>>
runVars  == <<buf, batch, todo, runPC, stored, lost, taken>>
mainVars == <<closer, closedAt>>
vars     == <<chan, accepted, runVars, mainVars, dropVars>>

Line == [id : Nat \ {0}, day : Days]
Cap  == CapFactor * Size

(* run's control: "select" at the top of its loop, "insert" in a flush     *)
(* from there, "drain" in drainChannel, "final" in the last flush,         *)
(* "stopped" once q.stopped is closed.                                     *)
RunLabels == {"select", "insert", "drain", "final", "stopped"}
Flushing  == runPC \in {"insert", "final"}

QueueTypeOK ==
  /\ chan \in Seq(Line) /\ Len(chan) <= Cap
  /\ buf \in Seq(Line)
  /\ batch \in Seq(Line)
  /\ todo \subseteq Days
  /\ runPC \in RunLabels
  /\ closer \in {"open", "closing", "closed"}
  /\ stored \subseteq Line
  /\ lost \subseteq Line
  /\ accepted \in Seq(Line)
  /\ taken \in Seq(Line)
  /\ closedAt \in 0 .. Len(accepted)

TypeOK == QueueTypeOK /\ Drop!TypeOK

Init ==
  /\ chan = <<>> /\ buf = <<>> /\ batch = <<>> /\ todo = {}
  /\ runPC = "select" /\ closer = "open"
  /\ stored = {} /\ lost = {}
  /\ accepted = <<>> /\ taken = <<>> /\ closedAt = 0
  /\ Drop!Init

(***************************************************************************)
(* The lines of some days, and byDate's keys.                              *)
(***************************************************************************)
LinesOf(s, days) == {s[i] : i \in {j \in DOMAIN s : s[j].day \in days}}

\* Mutant: the batch is taken to be all of its first line's day.
DaysOf_First(s) == {s[1].day}

DaysOf(s) == {s[i].day : i \in DOMAIN s}

-----------------------------------------------------------------------------
(***************************************************************************)
(* Enqueue: the non-blocking select.  A full channel means recordDrop.     *)
(***************************************************************************)

\* Mutant: the channel takes one line more than its capacity.
HasRoom_OneMore == Len(chan) <= Cap

HasRoom == Len(chan) < Cap

Accept(p) ==
  /\ pc[p] = "idle"
  /\ HasRoom
  /\ Len(accepted) < MaxLines
  /\ \E d \in Days :
       LET l == [id |-> Len(accepted) + 1, day |-> d]
       IN  /\ chan' = Append(chan, l)
           /\ accepted' = Append(accepted, l)
  /\ UNCHANGED <<runVars, mainVars, dropVars>>

Refuse(p) ==
  /\ ~HasRoom
  /\ Drop!Begin(p)
  /\ UNCHANGED <<chan, accepted, runVars, mainVars>>

RecordDrop(p) ==
  /\ Drop!Continue(p)
  /\ UNCHANGED <<chan, accepted, runVars, mainVars>>

-----------------------------------------------------------------------------
(***************************************************************************)
(* The run goroutine.  The clock may have made the ticker ready at any     *)
(* time; a tick that finds q.buf empty does nothing.                       *)
(***************************************************************************)


\* Mutant: q.buf is not replaced, so its lines are flushed again.
TakeBatch_KeepsBuf(b) ==
  /\ batch' = b
  /\ todo' = DaysOf(b)
  /\ buf' = b
  /\ taken' = taken \o b

\* flush up to InsertBatch, of a non-empty q.buf b
TakeBatch(b) ==
  /\ batch' = b
  /\ todo' = DaysOf(b)
  /\ buf' = <<>>
  /\ taken' = taken \o b

\* Mutant: off by one, the flush comes a line late.
BufferFull_Late(b) == Len(b) > Size

BufferFull(b) == Len(b) >= Size

Receive ==
  /\ runPC = "select"
  /\ chan # <<>>
  /\ chan' = Tail(chan)
  /\ LET b == Append(buf, Head(chan))
     IN  \/ /\ BufferFull(b)
            /\ TakeBatch(b)
            /\ runPC' = "insert"
         \/ /\ ~BufferFull(b)
            /\ buf' = b
            /\ UNCHANGED <<batch, todo, runPC, taken>>
  /\ UNCHANGED <<accepted, stored, lost, mainVars, dropVars>>

\* Mutant: the tick obeys the size threshold too.
TickFlushes_OnlyFull == Len(buf) >= Size

TickFlushes == buf # <<>>

Tick ==
  /\ runPC = "select"
  /\ TickFlushes
  /\ TakeBatch(buf)
  /\ runPC' = "insert"
  /\ UNCHANGED <<chan, accepted, stored, lost, mainVars, dropVars>>

\* Mutant: Close waits for q.stopped before it closes q.done.
DoneClosed_AfterWait == closer = "closed"

DoneClosed == closer # "open"

Done ==
  /\ runPC = "select"
  /\ DoneClosed
  /\ runPC' = "drain"
  /\ UNCHANGED <<chan, accepted, buf, batch, todo, stored, lost, taken,
                 mainVars, dropVars>>

DrainOne ==
  /\ runPC = "drain"
  /\ chan # <<>>
  /\ buf' = Append(buf, Head(chan))
  /\ chan' = Tail(chan)
  /\ UNCHANGED <<accepted, batch, todo, runPC, stored, lost, taken,
                 mainVars, dropVars>>

\* Mutant: Close flushes q.buf without draining the channel.
Drained_AtOnce == TRUE

Drained == chan = <<>>

DrainEnd ==
  /\ runPC = "drain"
  /\ Drained
  /\ \/ /\ buf = <<>>
        /\ runPC' = "stopped"
        /\ UNCHANGED <<buf, batch, todo, taken>>
     \/ /\ buf # <<>>
        /\ TakeBatch(buf)
        /\ runPC' = "final"
  /\ UNCHANGED <<chan, accepted, stored, lost, mainVars, dropVars>>

\* flush returns: back to the select, or close(q.stopped)
EndFlush ==
  /\ batch' = <<>>
  /\ runPC' = IF runPC = "final" THEN "stopped" ELSE "select"

(* InsertBatch ranges over a map, so the dates come in any order; one      *)
(* transaction commits all lines of a date.                                *)
InsertGroup(d) ==
  /\ Flushing
  /\ d \in todo
  /\ stored' = stored \union LinesOf(batch, {d})
  /\ todo' = todo \ {d}
  /\ \/ todo' # {} /\ UNCHANGED <<batch, runPC>>
     \/ todo' = {} /\ EndFlush
  /\ UNCHANGED <<chan, accepted, buf, lost, taken, mainVars, dropVars>>

\* Mutant: a failed batch goes back to q.buf, with the dates already stored.
InsertFail_Requeues ==
  /\ Flushing
  /\ buf' = batch \o buf
  /\ todo' = {}
  /\ EndFlush
  /\ UNCHANGED <<chan, accepted, stored, lost, taken, mainVars, dropVars>>

(* A shard cannot be opened, its transaction fails or insertTimeout        *)
(* expires: InsertBatch returns at once and flush only logs the error, so  *)
(* the lines of every date left are gone.                                  *)
InsertFail ==
  /\ Flushing
  /\ lost' = lost \union LinesOf(batch, todo)
  /\ todo' = {}
  /\ EndFlush
  /\ UNCHANGED <<chan, accepted, buf, stored, taken, mainVars, dropVars>>

-----------------------------------------------------------------------------
(***************************************************************************)
(* main's deferred queue.Close: close(q.done), then wait for q.stopped.    *)
(***************************************************************************)
Close ==
  /\ closer = "open"
  /\ closer' = "closing"
  /\ closedAt' = Len(accepted)
  /\ UNCHANGED <<chan, accepted, runVars, dropVars>>

CloseReturn ==
  /\ closer = "closing"
  /\ runPC = "stopped"
  /\ closer' = "closed"
  /\ UNCHANGED <<chan, accepted, runVars, closedAt, dropVars>>

TimePasses ==
  /\ Drop!Tick
  /\ UNCHANGED <<chan, accepted, runVars, mainVars>>

-----------------------------------------------------------------------------
Enqueue(p) == Accept(p) \/ Refuse(p) \/ RecordDrop(p)
Insert     == InsertFail \/ \E d \in Days : InsertGroup(d)
Run        == Receive \/ Tick \/ Done \/ DrainOne \/ DrainEnd \/ Insert

Next ==
  \/ \E p \in Producers : Enqueue(p)
  \/ Run
  \/ Close
  \/ CloseReturn
  \/ TimePasses

Spec == Init /\ [][Next]_vars

(* Nothing obliges a goroutine to call Enqueue, or main to call Close.     *)
(* Go's select picks among its ready cases pseudo-randomly, so a case that *)
(* is ready again and again is taken: strong fairness for its three cases. *)
(* insertTimeout makes an insertion end one way or the other.              *)
Fairness ==
  /\ SF_vars(Receive) /\ SF_vars(Tick) /\ SF_vars(Done)
  /\ WF_vars(DrainOne \/ DrainEnd)
  /\ WF_vars(Insert)
  /\ WF_vars(CloseReturn)

FairSpec == Spec /\ Fairness

-----------------------------------------------------------------------------
(***************************************************************************)
(* Properties                                                              *)
(***************************************************************************)

(* The pipeline keeps the order of Enqueue: what flush took, then q.buf,   *)
(* then the channel is exactly what was accepted, through every batch      *)
(* swap, tick and the drain of Close, whose lines arrive by another path.  *)
PipelineInOrder == accepted = taken \o buf \o chan

(* Every line a flush has taken is, at any time, in exactly one place: a   *)
(* shard, the batch being inserted, or the lines of a failed batch; a      *)
(* partly committed batch neither loses nor repeats a line.                *)
Pending == LinesOf(batch, todo)

TakenOnce ==
  /\ ToSet(taken) = stored \union lost \union Pending
  /\ stored \intersect lost = {}
  /\ (stored \union lost) \intersect Pending = {}

(* What drainChannel is for (queue.go:161-166): when the run goroutine has *)
(* stopped, no line accepted before Close was called is left in memory,    *)
(* however select chose between a ready line and q.done.                   *)
CloseDrains == runPC = "stopped" => Len(taken) >= closedAt

(* Memory is bounded while the queue is open: Enqueue drops beyond the    *)
(* channel's Cap lines, and what run has received, in q.buf or in the      *)
(* batch being inserted, is at most a batch of BATCH_SIZE lines.           *)
MemoryBounded ==
  runPC \in {"select", "insert"} =>
    Len(chan) <= Cap /\ Len(buf) + Len(batch) <= Size

(* Every line accepted while the queue is open leaves memory: it is        *)
(* stored, or lost with a failed flush, without needing BATCH_SIZE lines,  *)
(* and also when Close overtakes it.                                       *)
EventuallySettled ==
  \A n \in 1 .. MaxLines :
    (Len(accepted) >= n /\ closer = "open") ~>
      (Len(taken) >= n /\ ~Flushing)

(* Close does not hang: it returns whatever the last flush met.            *)
CloseReturns == (closer = "closing") ~> (closer = "closed")
=============================================================================
