---------------------------- MODULE DropWarning ----------------------------
(***************************************************************************)
(* BatchQueue.recordDrop (internal/storage/queue.go): the lock-free path   *)
(* that counts a line dropped on a full queue and logs at most one         *)
(* "batch queue full" warning per dropWarnInterval.  Several tailer        *)
(* goroutines run it at once, and every atomic operation (Add, Load,       *)
(* CompareAndSwap, Swap) and the reading of the clock is a step of its     *)
(* own.                                                                    *)
(*                                                                         *)
(* The warning's text is left out: a warning is the count it carries.      *)
(***************************************************************************)
EXTENDS Integers

CONSTANTS
  Producers,    \* goroutines that may call Enqueue
  Interval,     \* dropWarnInterval, in ticks of the clock
  MaxClock,     \* bound: the clock reads 1 .. MaxClock
  MaxDrops,     \* bound: number of calls of recordDrop
  WallClock     \* TRUE: the wall clock may be set to any time, back as well

ASSUME DropAssumption ==
  /\ Interval \in Nat \ {0}
  /\ MaxClock \in Nat \ {0}
  /\ MaxDrops \in Nat
  /\ WallClock \in BOOLEAN

VARIABLES
  dropped,       \* q.dropped: lines dropped since the last warning
  lastWarnedAt,  \* q.lastWarnedAt: UnixNano of the last warning, 0 if never
  clock,         \* what time.Now().UnixNano() returns
  pc,            \* where each goroutine is inside recordDrop
  now,           \* the goroutine's local now
  last,          \* the goroutine's local last
  total,         \* grepod_lines_dropped_total
  reported,      \* history: sum of the counts logged so far
  warnings       \* history: number of warnings logged so far

dropVars == <<dropped, lastWarnedAt, clock, pc, now, last, total, reported,
              warnings>>

Labels == {"idle", "clock", "load", "cas", "swap"}

TypeOK ==
  /\ dropped \in Nat
  /\ lastWarnedAt \in 0 .. MaxClock
  /\ clock \in 1 .. MaxClock
  /\ pc \in [Producers -> Labels]
  /\ now \in [Producers -> 0 .. MaxClock]
  /\ last \in [Producers -> 0 .. MaxClock]
  /\ total \in Nat
  /\ reported \in Nat
  /\ warnings \in Nat

Init ==
  /\ dropped = 0
  /\ lastWarnedAt = 0
  /\ clock = 1
  /\ pc = [p \in Producers |-> "idle"]
  /\ now = [p \in Producers |-> 0]
  /\ last = [p \in Producers |-> 0]
  /\ total = 0
  /\ reported = 0
  /\ warnings = 0

(***************************************************************************)
(* Leaving recordDrop clears the goroutine's locals, so that a state does  *)
(* not remember values no code can read any more.                          *)
(***************************************************************************)
Return(p) ==
  /\ pc' = [pc EXCEPT ![p] = "idle"]
  /\ now' = [now EXCEPT ![p] = 0]
  /\ last' = [last EXCEPT ![p] = 0]

\* q.dropped.Add(1) and LinesDroppedTotal.Inc(): nothing reads both counters.
Begin(p) ==
  /\ pc[p] = "idle"
  /\ total < MaxDrops
  /\ dropped' = dropped + 1
  /\ total' = total + 1
  /\ pc' = [pc EXCEPT ![p] = "clock"]
  /\ UNCHANGED <<lastWarnedAt, clock, now, last, reported, warnings>>

\* Mutant: now is when the window it opens would end.
ReadClock_WindowEnd(p) ==
  /\ pc[p] = "clock"
  /\ now' = [now EXCEPT ![p] = clock + Interval]
  /\ pc' = [pc EXCEPT ![p] = "load"]
  /\ UNCHANGED <<dropped, lastWarnedAt, clock, last, total, reported,
                 warnings>>

\* now := time.Now().UnixNano()
ReadClock(p) ==
  /\ pc[p] = "clock"
  /\ now' = [now EXCEPT ![p] = clock]
  /\ pc' = [pc EXCEPT ![p] = "load"]
  /\ UNCHANGED <<dropped, lastWarnedAt, clock, last, total, reported,
                 warnings>>

WithinWindow(n, l) == l # 0 /\ n - l < Interval

\* last := q.lastWarnedAt.Load(), and the early return inside the window
Load(p) ==
  /\ pc[p] = "load"
  /\ \/ /\ WithinWindow(now[p], lastWarnedAt)
        /\ Return(p)
     \/ /\ ~WithinWindow(now[p], lastWarnedAt)
        /\ last' = [last EXCEPT ![p] = lastWarnedAt]
        /\ pc' = [pc EXCEPT ![p] = "cas"]
        /\ UNCHANGED now
  /\ UNCHANGED <<dropped, lastWarnedAt, clock, total, reported, warnings>>

\* Mutant: lastWarnedAt.Store(now) instead of the compare-and-swap.
Swappable_Always(p) == TRUE

Swappable(p) == lastWarnedAt = last[p]

\* Mutant: its result is ignored, so who loses the race warns as well.
CompareAndSwap_Ignored(p) ==
  /\ pc[p] = "cas"
  /\ lastWarnedAt' = IF Swappable(p) THEN now[p] ELSE lastWarnedAt
  /\ pc' = [pc EXCEPT ![p] = "swap"]
  /\ UNCHANGED <<dropped, clock, now, last, total, reported, warnings>>

\* q.lastWarnedAt.CompareAndSwap(last, now)
CompareAndSwap(p) ==
  /\ pc[p] = "cas"
  /\ \/ /\ Swappable(p)
        /\ lastWarnedAt' = now[p]
        /\ pc' = [pc EXCEPT ![p] = "swap"]
        /\ UNCHANGED <<now, last>>
     \/ /\ ~Swappable(p)
        /\ Return(p)
        /\ UNCHANGED lastWarnedAt
  /\ UNCHANGED <<dropped, clock, total, reported, warnings>>

\* Mutant: Load instead of Swap(0), so the next warning counts it again.
AfterWarning_Kept == dropped

AfterWarning == 0

\* slog.Warn(..., "count", q.dropped.Swap(0), ...)
SwapAndWarn(p) ==
  /\ pc[p] = "swap"
  /\ reported' = reported + dropped
  /\ dropped' = AfterWarning
  /\ warnings' = warnings + 1
  /\ Return(p)
  /\ UNCHANGED <<lastWarnedAt, clock, total>>

Tick ==
  /\ \E t \in 1 .. MaxClock :
       /\ WallClock \/ t > clock
       /\ clock' = t
  /\ UNCHANGED <<dropped, lastWarnedAt, pc, now, last, total, reported,
                 warnings>>

\* the rest of a call that has counted its line
Continue(p) == ReadClock(p) \/ Load(p) \/ CompareAndSwap(p) \/ SwapAndWarn(p)

Next ==
  \/ \E p \in Producers : Begin(p)
  \/ \E p \in Producers : Continue(p)
  \/ Tick

Spec == Init /\ [][Next]_dropVars

-----------------------------------------------------------------------------
(***************************************************************************)
(* Properties                                                              *)
(***************************************************************************)

(* No dropped line is lost from the accounts and none is counted twice:    *)
(* what the warnings have reported and what q.dropped still holds add up   *)
(* to grepod_lines_dropped_total, at every interleaving of recordDrop.     *)
DropsAccounted == reported + dropped = total

(* Two goroutines never claim windows closer than dropWarnInterval: a new  *)
(* value of q.lastWarnedAt is at least an interval after the one before,   *)
(* however the goroutines interleave and wherever the wall clock jumps.    *)
WindowsSpaced ==
  [][ lastWarnedAt' # lastWarnedAt /\ lastWarnedAt # 0
        => lastWarnedAt' - lastWarnedAt >= Interval ]_dropVars

(* A claimed window gives exactly one warning: warnings logged and         *)
(* goroutines about to log never outnumber the windows claimed, so with    *)
(* windows Interval apart there are at most (MaxClock - 1) \div Interval   *)
(* + 1 of them on one pass of the clock (queue.go:13-19).                  *)
WarningsRateLimited ==
  warnings <= (MaxClock - 1) \div Interval + 1
=============================================================================
