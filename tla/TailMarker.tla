----------------------------- MODULE TailMarker -----------------------------
(***************************************************************************)
(* Where a container's log is resumed (internal/tailer/manager.go): its    *)
(* marker, seeded from the rows the store already has and advanced by every *)
(* line read, becomes the SinceTime of the next stream, across dropped     *)
(* streams, container restarts and restarts of grepod.                     *)
(*                                                                         *)
(* One container, and at most one goroutine tailing it (Manager has the    *)
(* races of two).  A tick of the clock is the second SinceTime is sent     *)
(* with.  The lines of a container reach the store in the order they were  *)
(* enqueued (BatchQueue); dropped lines, failed flushes, retention and log *)
(* rotation are left out.                                                  *)
(***************************************************************************)
EXTENDS Integers, Sequences, SequencesExt

CONSTANTS
  TailLines,    \* previousTailLines
  TooLong,      \* numbers of the lines, of any instance, longer than 1 MB
  MaxClock,     \* bound: the clock reads 1 .. MaxClock
  MaxLines,     \* bound: lines the container writes
  MaxRestarts,  \* bound: restarts of the container
  MaxExits,     \* bound: times grepod ends and starts again
  MaxFaults     \* bound: requests and lookups that fail, streams that end early

ASSUME MarkerAssumption ==
  /\ TailLines \in Nat \ {0}
  /\ TooLong \subseteq Nat
  /\ MaxClock \in Nat \ {0}
  /\ {MaxLines, MaxRestarts, MaxExits, MaxFaults} \subseteq Nat

Absent == -1   \* no entry in m.markers
Zero   == 0    \* Go's zero time: no SinceTime

VARIABLES
  clock,
  logs,      \* per instance of the container, when each line was written
  rows,      \* the lines enqueued, in order
  flushed,   \* how many of them the store has
  marker,    \* m.markers[key].ts
  at,        \* where tailContainer is
  started,   \* the instance whose start the goroutine was started for
  stream,    \* the stream being read: an instance and its next line
  exits, faults,
  skipped    \* history: lines a stream's SinceTime left out, never read

worldVars == <<clock, logs>>
storeVars == <<rows, flushed>>
tailVars  == <<marker, at, started, stream>>
boundVars == <<exits, faults>>
vars      == <<worldVars, storeVars, tailVars, boundVars, skipped>>

Instances == 1 .. MaxRestarts + 1
Current   == Len(logs)
Row       == [inst : Instances, line : 1 .. MaxLines,
              src : {"live", "previous"}, ts : 1 .. MaxClock]
NoStream  == [inst |-> 0, next |-> 1]

TypeOK ==
  /\ clock \in 1 .. MaxClock
  /\ logs \in Seq(Seq(1 .. MaxClock)) /\ Current \in Instances
  /\ rows \in Seq(Row)
  /\ flushed \in 0 .. Len(rows)
  /\ marker \in {Absent, Zero} \union 1 .. clock
  /\ at \in {"none", "prev", "readPrev", "resolve", "open", "read", "backoff"}
  /\ started \in 0 .. Current
  /\ stream.inst \in 0 .. Current
  /\ stream # NoStream => stream.next \in 1 .. Len(logs[stream.inst]) + 1
  /\ exits \in 0 .. MaxExits /\ faults \in 0 .. MaxFaults
  /\ skipped \subseteq Instances \X (1 .. MaxLines)

Init ==
  /\ clock = 1 /\ logs = << <<>> >>
  /\ rows = <<>> /\ flushed = 0
  /\ marker = Absent /\ at = "none" /\ started = 0 /\ stream = NoStream
  /\ exits = 0 /\ faults = 0
  /\ skipped = {}

Held(i, n) == \E k \in DOMAIN rows : rows[k].inst = i /\ rows[k].line = n

-----------------------------------------------------------------------------
(* The cluster: the container writes, crashes and is restarted.            *)
Tick ==
  /\ clock < MaxClock
  /\ clock' = clock + 1
  /\ UNCHANGED <<logs, storeVars, tailVars, boundVars, skipped>>

Lines == FoldSeq(LAMBDA log, n : n + Len(log), 0, logs)

Write ==
  /\ Lines < MaxLines
  /\ logs' = [logs EXCEPT ![Current] = Append(@, clock)]
  /\ UNCHANGED <<clock, storeVars, tailVars, boundVars, skipped>>

Restart ==
  /\ Current <= MaxRestarts
  /\ logs' = Append(logs, <<>>)
  /\ UNCHANGED <<clock, storeVars, tailVars, boundVars, skipped>>

(* The queue's flushes, each of some of the oldest lines.                  *)
Flush ==
  /\ flushed' \in flushed + 1 .. Len(rows)
  /\ UNCHANGED <<worldVars, rows, tailVars, boundVars, skipped>>

(* grepod ends: what is not flushed is gone, and so are the markers.       *)
Exit ==
  /\ exits < MaxExits
  /\ exits' = exits + 1
  /\ rows' = SubSeq(rows, 1, flushed)
  /\ marker' = Absent /\ at' = "none" /\ started' = 0 /\ stream' = NoStream
  /\ UNCHANGED <<worldVars, flushed, faults, skipped>>

-----------------------------------------------------------------------------
(***************************************************************************)
(* tailContainer.                                                          *)
(***************************************************************************)
OnlyTail == UNCHANGED <<worldVars, storeVars, exits, skipped>>

Fault == faults < MaxFaults /\ faults' = faults + 1

Goto(label) == at' = label /\ stream' = NoStream

\* the informer reports an instance: any goroutine before it is cancelled
Start ==
  /\ started # Current
  /\ started' = Current
  /\ Goto("prev")
  /\ OnlyTail /\ UNCHANGED <<marker, faults>>

\* the first of the last TailLines of n lines
TailStart(n) == IF n > TailLines THEN n - TailLines + 1 ELSE 1

\* fetchPreviousLogs: the last lines of the instance before, if there is one
OpenPrevious ==
  /\ at = "prev"
  /\ \/ Current = 1 /\ Goto("resolve") /\ UNCHANGED faults
     \/ Fault /\ Goto("resolve")
     \/ /\ Current > 1
        /\ at' = "readPrev"
        /\ stream' = [inst |-> Current - 1,
                      next |-> TailStart(Len(logs[Current - 1]))]
        /\ UNCHANGED faults
  /\ OnlyTail /\ UNCHANGED <<marker, started>>

Unread == stream.next <= Len(logs[stream.inst])

(* The scanner gives up on a line longer than its buffer, as if the log    *)
(* ended there: ingest does not look at sc.Err.                            *)
Scannable == Unread /\ stream.next \notin TooLong

\* the body of ingest's loop, setMarker apart
Ingest(src) ==
  /\ Scannable
  /\ rows' = Append(rows, [inst |-> stream.inst, line |-> stream.next,
                           src |-> src, ts |-> clock])
  /\ stream' = [stream EXCEPT !.next = @ + 1]
  /\ UNCHANGED <<worldVars, flushed, at, started, boundVars, skipped>>

\* ingest with trackMarker false
ReadPrevious ==
  /\ at = "readPrev"
  /\ Ingest("previous")
  /\ UNCHANGED marker

PreviousEnds ==
  /\ at = "readPrev"
  /\ IF Scannable THEN Fault ELSE UNCHANGED faults
  /\ Goto("resolve")
  /\ OnlyTail /\ UNCHANGED <<marker, started>>

\* LastSeen: the newest of the rows the store has, whoever enqueued them
LastSeen == IF flushed = 0 THEN Zero ELSE rows[flushed].ts

Resolve ==
  /\ at = "resolve"
  /\ \/ /\ marker' = IF marker = Absent THEN LastSeen ELSE marker
        /\ UNCHANGED faults
     \/ marker = Absent /\ marker' = Zero /\ Fault
  /\ Goto("open")
  /\ OnlyTail /\ UNCHANGED started

\* Mutant: the boundary second is left out.
From_Exclusive(log, since) == SelectInSeq(log, LAMBDA t : t > since)

\* the first line a stream since some time has, 0 if it has none yet
From(log, since) == SelectInSeq(log, LAMBDA t : t >= since)

\* streamLogs: SinceTime is the marker
Open ==
  /\ at = "open"
  /\ at' = "read"
  /\ LET log   == logs[Current]
         first == IF From(log, marker) = 0 THEN Len(log) + 1
                                           ELSE From(log, marker)
     IN  /\ stream' = [inst |-> Current, next |-> first]
         /\ skipped' = skipped \union
              {<<Current, n>> : n \in {m \in 1 .. first - 1 :
                                         ~Held(Current, m)}}
  /\ UNCHANGED <<worldVars, storeVars, marker, started, boundVars>>

OpenFails ==
  /\ at = "open"
  /\ Fault
  /\ Goto("backoff")
  /\ OnlyTail /\ UNCHANGED <<marker, started>>

\* Mutant: the marker stays where resolveMarker put it.
SetMarker_Never == UNCHANGED marker

\* setMarker: the line is stamped with the present time, which is the newest
SetMarker == marker' = clock

\* ingest with trackMarker true
Read ==
  /\ at = "read"
  /\ Ingest("live")
  /\ SetMarker

\* the container's log ends, a line is too long, or the connection drops
StreamEnds ==
  /\ at = "read"
  /\ IF stream.inst = Current \/ Unread THEN Fault ELSE UNCHANGED faults
  /\ Goto("backoff")
  /\ OnlyTail /\ UNCHANGED <<marker, started>>

\* Mutant: a dropped stream ends the goroutine.
AfterBackoff_Ends == "none"

AfterBackoff == "open"

Backoff ==
  /\ at = "backoff"
  /\ Goto(AfterBackoff)
  /\ OnlyTail /\ UNCHANGED <<marker, started, faults>>

-----------------------------------------------------------------------------
Advance == OpenPrevious \/ Resolve \/ Open \/ Backoff
Ingesting == ReadPrevious \/ PreviousEnds \/ Read \/ StreamEnds

Next ==
  \/ Tick \/ Write \/ Restart
  \/ Flush \/ Exit
  \/ Start \/ Advance \/ OpenFails \/ Ingesting

Spec == Init /\ [][Next]_vars

(* The informer reports every instance that runs, and the goroutine goes   *)
(* on, through the faults there may be.  Nothing else has to happen.       *)
FairSpec == Spec /\ WF_vars(Start) /\ WF_vars(Advance) /\ WF_vars(Ingesting)

-----------------------------------------------------------------------------
(***************************************************************************)
(* Properties                                                              *)
(***************************************************************************)
Opens == at = "open" /\ at' = "read"

(* What streamLogs relies on when it sends its own stamp as SinceTime       *)
(* (manager.go:405-413): the stamp of a line that was read in the second it *)
(* was written never makes a stream leave out a line nobody has read, not  *)
(* when the container restarted since, and not when grepod did and had not *)
(* flushed all it had read.  Only the stamp of a line read late can.       *)
ReadPromptly(t) ==
  \E k \in DOMAIN rows :
    /\ rows[k].src = "live" /\ rows[k].ts = t
    /\ logs[rows[k].inst][rows[k].line] = t

SkipsOnlyAfterLateRead == [][ skipped' # skipped => ~ReadPromptly(marker) ]_vars

(* What the marker is for (manager.go:402-404): a stream since some time   *)
(* repeats no line already enqueued but those of its first second, across  *)
(* reconnects and restarts of grepod.                                      *)
RepeatsOnlyBoundary ==
  [][ Opens /\ marker # Zero =>
        \A n \in stream'.next .. Len(logs[Current]) :
          Held(Current, n) => logs[Current][n] = marker ]_vars

(* A line the container writes does not wait for ever while its instance   *)
(* runs: it is enqueued, or a SinceTime has left it out.  An instance's    *)
(* lines from its first over-long one on are not promised anything: each   *)
(* stream may stop there again (manager.go:441-442).                       *)
EventuallyRead ==
  \A n \in {k \in 1 .. MaxLines : \A m \in TooLong : k < m} :
    n <= Len(logs[Current])
      ~> (\/ n > Len(logs[Current])   \* the container has restarted
          \/ Held(Current, n)
          \/ <<Current, n>> \in skipped)

(* manager.go:393-394: "previous-instance logs must never advance the      *)
(* marker used for the *current* instance's SinceTime": a stream's         *)
(* SinceTime is the stamp of a line read from a live stream.               *)
PreviousNeverMovesSince ==
  [][ Opens => marker = Zero \/ \E k \in DOMAIN rows :
                 rows[k].src = "live" /\ rows[k].ts = marker ]_vars
=============================================================================
