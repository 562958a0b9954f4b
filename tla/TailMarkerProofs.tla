--------------------------- MODULE TailMarkerProofs ---------------------------
(***************************************************************************)
(* Theorems about where a log is resumed, for any number of lines,         *)
(* restarts, exits and faults, and any clock.                              *)
(***************************************************************************)
EXTENDS TailMarker, NaturalsInduction, WellFoundedInduction, SequenceTheorems,
        TLAPS

(***************************************************************************)
(* The inductive invariant.                                                *)
(***************************************************************************)
Labels == {"none", "prev", "readPrev", "resolve", "open", "read", "backoff"}

StoredLine == [inst : Nat, line : Nat, src : {"live", "previous"}, ts : Nat]

\* the types the steps keep, without the bounds of TypeOK
TypeInv ==
  /\ clock \in Nat \ {0}
  /\ logs \in Seq(Seq(Nat)) /\ Len(logs) >= 1
  /\ rows \in Seq(StoredLine)
  /\ flushed \in 0 .. Len(rows)
  /\ marker \in {Absent, Zero} \union 1 .. clock
  /\ at \in Labels
  /\ stream \in [inst : Nat, next : Nat \ {0}]

(* A container's lines are written at times that never go back, neither    *)
(* within an instance nor from one instance to the next.                   *)
LogsInOrder ==
  /\ \A i \in DOMAIN logs : \A m \in DOMAIN logs[i] : logs[i][m] <= clock
  /\ \A i, j \in DOMAIN logs :
       \A m \in DOMAIN logs[i] : \A n \in DOMAIN logs[j] :
         (i < j \/ (i = j /\ m <= n)) => logs[i][m] <= logs[j][n]

\* what is known of one row: it is a line that was written before its stamp
Stamped(row) ==
  /\ row.inst \in DOMAIN logs
  /\ row.line \in DOMAIN logs[row.inst]
  /\ logs[row.inst][row.line] <= row.ts
  /\ row.ts \in 1 .. clock
  /\ row.src = "previous" => row.inst < Current

\* rows are stamped in the order they are enqueued
RowsInOrder ==
  /\ \A k \in DOMAIN rows : Stamped(rows[k])
  /\ \A j, k \in DOMAIN rows : j <= k => rows[j].ts <= rows[k].ts

(* The marker is no older than any live row, once there is one; until it   *)
(* is resolved, whatever is not yet flushed comes from the instance        *)
(* before.                                                                 *)
MarkerNewest ==
  /\ at \in {"open", "read", "backoff"} => marker # Absent
  /\ marker \notin {Absent, Zero} =>
       \A k \in DOMAIN rows : rows[k].src = "live" => rows[k].ts <= marker
  /\ marker = Absent =>
       \A k \in DOMAIN rows : k > flushed => rows[k].src = "previous"

\* a stream being read is that of an instance, of an older one at "readPrev"
StreamOfLog ==
  /\ at \in {"readPrev", "read"} => stream.inst \in DOMAIN logs
  /\ at = "readPrev" => stream.inst < Current

\* a line among the first k rows
HeldBy(k, i, n) ==
  \E j \in DOMAIN rows : j < k /\ rows[j].inst = i /\ rows[j].line = n

(* A live stream leaves no gap behind: each line before one it has read    *)
(* was left out by a SinceTime or enqueued earlier, and is flushed         *)
(* earlier, so an exit that loses it loses the later line too.             *)
LiveNoGaps ==
  \A k \in DOMAIN rows : rows[k].src = "live" =>
    \A m \in 1 .. rows[k].line - 1 :
      <<rows[k].inst, m>> \in skipped \/ HeldBy(k, rows[k].inst, m)

StreamNoGaps ==
  at = "read" =>
    \A m \in 1 .. stream.next - 1 :
      <<stream.inst, m>> \in skipped \/ Held(stream.inst, m)

MarkerInv ==
  /\ TypeInv /\ LogsInOrder /\ RowsInOrder
  /\ MarkerNewest /\ StreamOfLog /\ LiveNoGaps /\ StreamNoGaps

-----------------------------------------------------------------------------
(***************************************************************************)
(* The first line of a stream since some time: From finds the first line   *)
(* that is not older.                                                      *)
(***************************************************************************)
LEMMA MinLeast ==
  ASSUME NEW S \in SUBSET Nat, S # {}
  PROVE  Min(S) \in S /\ \A x \in S : Min(S) <= x
<1> DEFINE R == OpToRel(<, Nat)
<1>1. \A x, y \in Nat : <<y, x>> \in R <=> y < x
  BY DEF OpToRel
<1>2. IsWellFoundedOn(R, Nat)
  BY NatLessThanWellFounded
<1> HIDE DEF R
<1>3. PICK x \in S : \A y \in S : ~ (<<y, x>> \in R)
  BY <1>2, WFMin
<1>4. ASSUME NEW y \in S PROVE x <= y
  <2>1. x \in Nat /\ y \in Nat
    OBVIOUS
  <2>2. ~ (y < x)
    BY <1>1, <1>3, <2>1, Zenon
  <2>. QED
    BY <2>1, <2>2
<1>. QED
  BY <1>4 DEF Min

\* the line Open starts a stream at
First(log, since) ==
  IF From(log, since) = 0 THEN Len(log) + 1 ELSE From(log, since)

LEMMA FirstLine ==
  ASSUME NEW log \in Seq(Nat), NEW since \in Int
  PROVE  /\ First(log, since) \in 1 .. Len(log) + 1
         /\ \A m \in 1 .. First(log, since) - 1 : log[m] < since
         /\ First(log, since) <= Len(log) => log[First(log, since)] >= since
<1> DEFINE Late == {n \in 1 .. Len(log) : log[n] >= since}
<1>1. Len(log) \in Nat /\ \A n \in 1 .. Len(log) : log[n] \in Nat
  BY ElementOfSeq, LenProperties
<1>2. From(log, since) = IF Late # {} THEN Min(Late) ELSE 0
  BY DEF From, SelectInSeq
<1>3. Late \in SUBSET Nat
  BY <1>1
<1>4. CASE Late = {}
  BY <1>1, <1>2, <1>4 DEF First
<1>5. CASE Late # {}
  <2>1. Min(Late) \in Late /\ \A x \in Late : Min(Late) <= x
    BY <1>3, <1>5, MinLeast
  <2> DEFINE f == Min(Late)
  <2>2. First(log, since) = f /\ f \in 1 .. Len(log) /\ log[f] >= since
    BY <1>1, <1>2, <1>5, <2>1 DEF First
  <2>3. ASSUME NEW m \in 1 .. f - 1
        PROVE  log[m] < since
    <3>1. m \in 1 .. Len(log) /\ ~ (f <= m)
      BY <1>1, <2>2
    <3>2. m \notin Late
      BY <2>1, <3>1
    <3>. QED
      BY <1>1, <3>1, <3>2
  <2> HIDE DEF f
  <2>. QED
    BY <1>1, <2>2, <2>3
<1>. QED
  BY <1>4, <1>5

-----------------------------------------------------------------------------
(***************************************************************************)
(* Types, and what no step takes back: lines that were written, and time.  *)
(***************************************************************************)
Grows ==
  /\ clock' \in Nat /\ clock <= clock'
  /\ Len(logs') \in Nat /\ Len(logs) <= Len(logs')
  /\ DOMAIN logs \subseteq DOMAIN logs'
  /\ \A i \in DOMAIN logs :
       /\ DOMAIN logs[i] \subseteq DOMAIN logs'[i]
       /\ \A m \in DOMAIN logs[i] : logs'[i][m] = logs[i][m]

LEMMA LogTypes ==
  TypeInv =>
    /\ Len(logs) \in Nat \ {0} /\ DOMAIN logs = 1 .. Len(logs)
    /\ Current \in DOMAIN logs
    /\ \A i \in DOMAIN logs :
         /\ logs[i] \in Seq(Nat)
         /\ Len(logs[i]) \in Nat /\ DOMAIN logs[i] = 1 .. Len(logs[i])
         /\ \A m \in DOMAIN logs[i] : logs[i][m] \in Nat
<1> SUFFICES ASSUME TypeInv
             PROVE  /\ Len(logs) \in Nat \ {0} /\ DOMAIN logs = 1 .. Len(logs)
                    /\ Current \in DOMAIN logs
                    /\ \A i \in DOMAIN logs :
                         /\ logs[i] \in Seq(Nat)
                         /\ Len(logs[i]) \in Nat
                         /\ DOMAIN logs[i] = 1 .. Len(logs[i])
                         /\ \A m \in DOMAIN logs[i] : logs[i][m] \in Nat
  OBVIOUS
<1>1. logs \in Seq(Seq(Nat)) /\ Len(logs) >= 1
  BY DEF TypeInv
<1>2. Len(logs) \in Nat \ {0} /\ DOMAIN logs = 1 .. Len(logs)
  BY <1>1, LenProperties
<1>3. ASSUME NEW i \in DOMAIN logs
      PROVE  /\ logs[i] \in Seq(Nat)
             /\ Len(logs[i]) \in Nat /\ DOMAIN logs[i] = 1 .. Len(logs[i])
             /\ \A m \in DOMAIN logs[i] : logs[i][m] \in Nat
  <2>1. logs[i] \in Seq(Nat)
    BY <1>1, <1>2, ElementOfSeq
  <2>. QED
    BY <2>1, LenProperties, ElementOfSeq
<1>. QED
  BY <1>2, <1>3 DEF Current

LEMMA RowTypes ==
  TypeInv =>
    /\ Len(rows) \in Nat /\ DOMAIN rows = 1 .. Len(rows)
    /\ flushed \in Nat /\ flushed <= Len(rows)
    /\ \A k \in DOMAIN rows : rows[k] \in StoredLine
<1> SUFFICES ASSUME TypeInv
             PROVE  /\ Len(rows) \in Nat /\ DOMAIN rows = 1 .. Len(rows)
                    /\ flushed \in Nat /\ flushed <= Len(rows)
                    /\ \A k \in DOMAIN rows : rows[k] \in StoredLine
  OBVIOUS
<1>. QED
  BY LenProperties, ElementOfSeq DEF TypeInv

LEMMA Written ==
  ASSUME TypeInv, Write
  PROVE  /\ logs' \in Seq(Seq(Nat)) /\ Len(logs') = Len(logs)
         /\ DOMAIN logs' = DOMAIN logs
         /\ \A i \in DOMAIN logs : i # Current => logs'[i] = logs[i]
         /\ Len(logs'[Current]) = Len(logs[Current]) + 1
         /\ DOMAIN logs'[Current] = 1 .. Len(logs[Current]) + 1
         /\ \A m \in DOMAIN logs[Current] :
              logs'[Current][m] = logs[Current][m]
         /\ logs'[Current][Len(logs[Current]) + 1] = clock
<1> DEFINE log == Append(logs[Current], clock)
<1>1. /\ Current \in 1 .. Len(logs) /\ DOMAIN logs = 1 .. Len(logs)
      /\ logs[Current] \in Seq(Nat) /\ clock \in Nat
      /\ DOMAIN logs[Current] = 1 .. Len(logs[Current])
  BY LogTypes DEF TypeInv
<1>2. /\ log \in Seq(Nat) /\ Len(log) = Len(logs[Current]) + 1
      /\ \A m \in 1 .. Len(logs[Current]) : log[m] = logs[Current][m]
      /\ log[Len(logs[Current]) + 1] = clock
  BY <1>1, AppendProperties
<1>3. logs' = [logs EXCEPT ![Current] = log]
  BY DEF Write
<1>4. logs \in Seq(Seq(Nat))
  BY DEF TypeInv
<1>5. DOMAIN log = 1 .. Len(logs[Current]) + 1
  BY <1>2, LenProperties
<1> HIDE DEF log
<1>6. /\ logs' \in Seq(Seq(Nat)) /\ Len(logs') = Len(logs)
      /\ \A i \in 1 .. Len(logs) :
           logs'[i] = IF i = Current THEN log ELSE logs[i]
  BY <1>1, <1>2, <1>3, <1>4, ExceptSeq
<1>7. DOMAIN logs' = 1 .. Len(logs)
  BY <1>6, LenProperties
<1>. QED
  BY <1>1, <1>2, <1>5, <1>6, <1>7

LEMMA Restarted ==
  ASSUME TypeInv, Restart
  PROVE  /\ logs' \in Seq(Seq(Nat)) /\ Len(logs') = Len(logs) + 1
         /\ DOMAIN logs' = 1 .. Len(logs) + 1
         /\ \A i \in DOMAIN logs : logs'[i] = logs[i]
         /\ logs'[Len(logs) + 1] = <<>>
<1>1. /\ logs \in Seq(Seq(Nat)) /\ <<>> \in Seq(Nat)
      /\ DOMAIN logs = 1 .. Len(logs)
  BY LogTypes, EmptySeq DEF TypeInv
<1>2. logs' = Append(logs, <<>>)
  BY DEF Restart
<1>3. /\ logs' \in Seq(Seq(Nat)) /\ Len(logs') = Len(logs) + 1
      /\ \A i \in 1 .. Len(logs) : logs'[i] = logs[i]
      /\ logs'[Len(logs) + 1] = <<>>
  BY <1>1, <1>2, AppendProperties
<1>. QED
  BY <1>1, <1>3, LenProperties

LEMMA GrowsStep ==
  ASSUME TypeInv, [Next]_vars
  PROVE  Grows
<1>1. /\ clock \in Nat /\ Len(logs) \in Nat \ {0}
      /\ DOMAIN logs = 1 .. Len(logs)
      /\ Current \in DOMAIN logs
      /\ DOMAIN logs[Current] = 1 .. Len(logs[Current])
      /\ Len(logs[Current]) \in Nat
  BY LogTypes DEF TypeInv
<1>2. CASE Tick
  BY <1>1, <1>2 DEF Tick, Grows
<1>3. CASE Write
  <2>1. clock' = clock
    BY <1>3 DEF Write
  <2>2. ASSUME NEW i \in DOMAIN logs
        PROVE  /\ DOMAIN logs[i] \subseteq DOMAIN logs'[i]
               /\ \A m \in DOMAIN logs[i] : logs'[i][m] = logs[i][m]
    <3>1. CASE i = Current
      BY <1>1, <1>3, <3>1, Written
    <3>2. CASE i # Current
      BY <1>3, <3>2, Written
    <3>. QED
      BY <3>1, <3>2
  <2>. QED
    BY <1>1, <1>3, <2>1, <2>2, Written DEF Grows
<1>4. CASE Restart
  <2>1. clock' = clock
    BY <1>4 DEF Restart
  <2>. QED
    BY <1>1, <1>4, <2>1, Restarted DEF Grows
<1>5. CASE UNCHANGED worldVars
  BY <1>1, <1>5 DEF worldVars, Grows
<1>6. \/ Tick \/ Write \/ Restart \/ UNCHANGED worldVars
  BY DEF Next, Flush, Exit, Start, Advance, OpenFails, Ingesting, OpenPrevious,
         Resolve, Open, Backoff, ReadPrevious, PreviousEnds, Read, StreamEnds,
         Ingest, OnlyTail, vars
<1>. QED
  BY <1>2, <1>3, <1>4, <1>5, <1>6

LEMMA Added ==
  ASSUME TypeInv, NEW src \in {"live", "previous"}, Ingest(src)
  PROVE  /\ rows' \in Seq(StoredLine) /\ Len(rows') = Len(rows) + 1
         /\ DOMAIN rows' = 1 .. Len(rows) + 1
         /\ \A k \in DOMAIN rows : rows'[k] = rows[k]
         /\ rows'[Len(rows) + 1] =
              [inst |-> stream.inst, line |-> stream.next,
               src |-> src, ts |-> clock]
         /\ stream' = [inst |-> stream.inst, next |-> stream.next + 1]
<1> DEFINE row == [inst |-> stream.inst, line |-> stream.next,
                   src |-> src, ts |-> clock]
<1>1. /\ rows \in Seq(StoredLine) /\ clock \in Nat
      /\ stream \in [inst : Nat, next : Nat \ {0}]
  BY DEF TypeInv
<1>2. row \in StoredLine
  BY <1>1 DEF StoredLine
<1>3. rows' = Append(rows, row)
  BY DEF Ingest
<1>4. stream' = [inst |-> stream.inst, next |-> stream.next + 1]
  BY <1>1 DEF Ingest
<1> HIDE DEF row
<1>5. /\ rows' \in Seq(StoredLine) /\ Len(rows') = Len(rows) + 1
      /\ \A k \in 1 .. Len(rows) : rows'[k] = rows[k]
      /\ rows'[Len(rows) + 1] = row
  BY <1>1, <1>2, <1>3, AppendProperties
<1>6. DOMAIN rows = 1 .. Len(rows) /\ DOMAIN rows' = 1 .. Len(rows) + 1
  BY <1>1, <1>5, LenProperties
<1>. QED
  BY <1>4, <1>5, <1>6 DEF row

LEMMA Lost ==
  ASSUME TypeInv, Exit
  PROVE  /\ rows' \in Seq(StoredLine) /\ Len(rows') = flushed
         /\ DOMAIN rows' = 1 .. flushed
         /\ DOMAIN rows' \subseteq DOMAIN rows
         /\ \A k \in DOMAIN rows' : rows'[k] = rows[k]
<1>1. /\ rows \in Seq(StoredLine) /\ flushed \in Nat /\ flushed <= Len(rows)
      /\ Len(rows) \in Nat /\ DOMAIN rows = 1 .. Len(rows)
      /\ rows' = SubSeq(rows, 1, flushed)
  BY RowTypes DEF TypeInv, Exit
<1>2. /\ rows' \in Seq(StoredLine) /\ Len(rows') = flushed
      /\ \A k \in 1 .. flushed : rows'[k] = rows[k]
  BY <1>1, SMT
<1>3. DOMAIN rows' = 1 .. flushed
  BY <1>2, LenProperties
<1>. QED
  BY <1>1, <1>2, <1>3

\* the types after a step of tailContainer that reads nothing
LEMMA TailTypes ==
  ASSUME TypeInv, UNCHANGED <<clock, logs, rows, flushed>>,
         marker' \in {Absent, Zero} \union 1 .. clock, at' \in Labels,
         stream' \in [inst : Nat, next : Nat \ {0}]
  PROVE  TypeInv'
BY DEF TypeInv

LEMMA TypeStep ==
  ASSUME TypeInv, RowsInOrder, [Next]_vars
  PROVE  TypeInv'
<1> USE DEF Labels
<1>1. /\ clock \in Nat \ {0} /\ Len(logs) \in Nat \ {0}
      /\ Current \in DOMAIN logs /\ Current \in Nat \ {0}
      /\ DOMAIN logs = 1 .. Len(logs)
      /\ \A i \in DOMAIN logs : Len(logs[i]) \in Nat /\ logs[i] \in Seq(Nat)
      /\ Len(rows) \in Nat /\ flushed \in Nat /\ flushed <= Len(rows)
      /\ DOMAIN rows = 1 .. Len(rows)
  <2>1. Current \in Nat \ {0}
    BY LogTypes DEF Current
  <2>. QED
    BY <2>1, LogTypes, RowTypes DEF TypeInv
<1>2. /\ marker \in {Absent, Zero} \union 1 .. clock /\ at \in Labels
      /\ stream \in [inst : Nat, next : Nat \ {0}]
      /\ NoStream \in [inst : Nat, next : Nat \ {0}]
  BY DEF TypeInv, NoStream
<1>3. CASE Tick
  BY <1>1, <1>2, <1>3 DEF TypeInv, Tick, storeVars, tailVars
<1>4. CASE Write
  <2>1. clock' = clock /\ UNCHANGED <<storeVars, tailVars>>
    BY <1>4 DEF Write
  <2>. QED
    BY <1>1, <1>4, <2>1, Written DEF TypeInv, storeVars, tailVars
<1>5. CASE Restart
  <2>1. clock' = clock /\ UNCHANGED <<storeVars, tailVars>>
    BY <1>5 DEF Restart
  <2>. QED
    BY <1>1, <1>5, <2>1, Restarted DEF TypeInv, storeVars, tailVars
<1>6. CASE Flush
  <2>1. /\ UNCHANGED <<clock, logs, rows, marker, at, stream>>
        /\ flushed' \in flushed + 1 .. Len(rows)
    BY <1>6 DEF Flush, worldVars, tailVars
  <2>. QED
    BY <1>1, <2>1 DEF TypeInv
<1>7. CASE Exit
  <2>1. /\ UNCHANGED <<clock, logs, flushed>>
        /\ marker' = Absent /\ at' = "none" /\ stream' = NoStream
    BY <1>7 DEF Exit, worldVars
  <2>. QED
    BY <1>1, <1>2, <1>7, <2>1, Lost DEF TypeInv
<1>8. CASE Start \/ OpenPrevious \/ OpenFails \/ Backoff
           \/ PreviousEnds \/ StreamEnds
  <2>1. UNCHANGED <<clock, logs, rows, flushed, marker>>
    BY <1>8 DEF Start, OpenPrevious, OpenFails, Backoff, PreviousEnds,
                StreamEnds, OnlyTail, worldVars, storeVars
  <2>2. at' \in Labels /\ stream' \in [inst : Nat, next : Nat \ {0}]
    <3>1. CASE Start \/ OpenFails \/ Backoff \/ PreviousEnds \/ StreamEnds
      BY <1>2, <3>1 DEF Start, OpenFails, Backoff, AfterBackoff, PreviousEnds,
                        StreamEnds, Goto
    <3>2. CASE OpenPrevious
      <4>1. CASE Goto("resolve")
        BY <1>2, <4>1 DEF Goto
      <4>2. CASE /\ Current > 1 /\ at' = "readPrev"
                 /\ stream' = [inst |-> Current - 1,
                               next |-> TailStart(Len(logs[Current - 1]))]
        <5>1. Current - 1 \in DOMAIN logs
          BY <1>1, <4>2
        <5>2. Len(logs[Current - 1]) \in Nat
          BY <1>1, <5>1
        <5>3. TailStart(Len(logs[Current - 1])) \in Nat \ {0}
          BY <5>2, MarkerAssumption DEF TailStart
        <5>. QED
          BY <1>1, <4>2, <5>1, <5>3
      <4>. QED
        BY <3>2, <4>1, <4>2 DEF OpenPrevious
    <3>. QED
      BY <1>8, <3>1, <3>2
  <2>. QED
    BY <1>2, <2>1, <2>2, TailTypes
<1>9. CASE Resolve
  <2>1. /\ UNCHANGED <<clock, logs, rows, flushed>>
        /\ at' = "open" /\ stream' = NoStream
    BY <1>9 DEF Resolve, OnlyTail, worldVars, storeVars, Goto
  <2>2. LastSeen \in {Absent, Zero} \union 1 .. clock
    BY <1>1 DEF LastSeen, RowsInOrder, Stamped
  <2>3. marker' \in {Absent, Zero} \union 1 .. clock
    BY <1>2, <1>9, <2>2 DEF Resolve
  <2>. QED
    BY <1>2, <2>1, <2>3, TailTypes
<1>10. CASE Open
  <2> DEFINE first == First(logs[Current], marker)
  <2>1. /\ UNCHANGED <<clock, logs, rows, flushed, marker>>
        /\ at' = "read" /\ stream' = [inst |-> Current, next |-> first]
    BY <1>10 DEF Open, First, worldVars, storeVars
  <2>2. marker \in Int
    BY <1>1, <1>2 DEF Absent, Zero
  <2>3. first \in Nat \ {0}
    BY <1>1, <2>2, FirstLine
  <2> HIDE DEF first
  <2>. QED
    BY <1>1, <1>2, <2>1, <2>3, TailTypes
<1>11. CASE ReadPrevious
  <2>1. /\ Ingest("previous")
        /\ UNCHANGED <<clock, logs, flushed, at, marker>>
    BY <1>11 DEF ReadPrevious, Ingest, worldVars
  <2>. QED
    BY <1>1, <1>2, <2>1, Added DEF TypeInv
<1>12. CASE Read
  <2>1. /\ Ingest("live") /\ marker' = clock
        /\ UNCHANGED <<clock, logs, flushed, at>>
    BY <1>12 DEF Read, SetMarker, Ingest, worldVars
  <2>. QED
    BY <1>1, <1>2, <2>1, Added DEF TypeInv
<1>13. CASE UNCHANGED vars
  BY <1>13 DEF TypeInv, vars, worldVars, storeVars, tailVars
<1>. QED
  BY <1>3, <1>4, <1>5, <1>6, <1>7, <1>8, <1>9, <1>10, <1>11, <1>12, <1>13
     DEF Next, Advance, Ingesting

-----------------------------------------------------------------------------
(***************************************************************************)
(* The logs.                                                               *)
(***************************************************************************)
LEMMA LogsStep ==
  ASSUME TypeInv, LogsInOrder, [Next]_vars
  PROVE  LogsInOrder'
<1>1. /\ clock \in Nat /\ Len(logs) \in Nat \ {0}
      /\ DOMAIN logs = 1 .. Len(logs) /\ Current \in DOMAIN logs
      /\ Current = Len(logs)
      /\ \A i \in DOMAIN logs :
           /\ Len(logs[i]) \in Nat /\ DOMAIN logs[i] = 1 .. Len(logs[i])
           /\ \A m \in DOMAIN logs[i] : logs[i][m] \in Nat
  BY LogTypes DEF TypeInv, Current
<1>2. CASE Tick
  <2>1. clock' = clock + 1 /\ logs' = logs
    BY <1>2 DEF Tick
  <2>2. \A i \in DOMAIN logs : \A m \in DOMAIN logs[i] :
          logs[i][m] <= clock + 1
    BY <1>1 DEF LogsInOrder
  <2>. QED
    BY <2>1, <2>2 DEF LogsInOrder
<1>3. CASE Write
  <2> DEFINE n0 == Len(logs[Current]) + 1
             Line(i, m) == m \in DOMAIN logs[i]
             New(i, m)  == i = Current /\ m = n0
  <2>1. /\ clock' = clock /\ DOMAIN logs' = DOMAIN logs
        /\ logs'[Current][n0] = clock
    BY <1>3, Written DEF Write
  <2>2. ASSUME NEW i \in DOMAIN logs, NEW m \in DOMAIN logs'[i]
        PROVE  \/ Line(i, m) /\ logs'[i][m] = logs[i][m]
               \/ New(i, m) /\ logs'[i][m] = clock
    <3>1. CASE i = Current
      <4>1. m \in 1 .. n0 /\ n0 - 1 \in Nat
        BY <1>1, <1>3, <3>1, Written
      <4>2. m \in 1 .. n0 - 1 \/ m = n0
        BY <4>1
      <4>3. m \in 1 .. n0 - 1 => Line(i, m) /\ logs'[i][m] = logs[i][m]
        BY <1>1, <1>3, <3>1, Written
      <4>. QED
        BY <2>1, <3>1, <4>2, <4>3, Zenon
    <3>2. CASE i # Current
      BY <1>3, <3>2, Written
    <3>. QED
      BY <3>1, <3>2
  <2>3. \A i \in DOMAIN logs : \A m \in DOMAIN logs'[i] :
          logs'[i][m] \in Nat /\ logs'[i][m] <= clock
    BY <1>1, <2>2 DEF LogsInOrder
  <2>4. ASSUME NEW i \in DOMAIN logs, NEW j \in DOMAIN logs,
               NEW m \in DOMAIN logs'[i], NEW n \in DOMAIN logs'[j],
               i < j \/ (i = j /\ m <= n)
        PROVE  logs'[i][m] <= logs'[j][n]
    <3>1. CASE New(j, n) /\ logs'[j][n] = clock
      BY <2>3, <3>1
    <3>2. CASE Line(j, n) /\ logs'[j][n] = logs[j][n]
      <4>1. CASE Line(i, m) /\ logs'[i][m] = logs[i][m]
        BY <2>4, <3>2, <4>1 DEF LogsInOrder
      <4>2. CASE New(i, m)
        BY <1>1, <2>4, <3>2, <4>2
      <4>. QED
        BY <2>2, <4>1, <4>2
    <3>. QED
      BY <2>2, <3>1, <3>2
  <2>. QED
    BY <2>1, <2>3, <2>4 DEF LogsInOrder
<1>4. CASE Restart
  <2>1. clock' = clock
    BY <1>4 DEF Restart
  <2>2. DOMAIN <<>> = {}
    OBVIOUS
  <2>3. ASSUME NEW i \in DOMAIN logs', NEW m \in DOMAIN logs'[i]
        PROVE  /\ i \in DOMAIN logs /\ m \in DOMAIN logs[i]
               /\ logs'[i][m] = logs[i][m]
    <3>1. i \in DOMAIN logs \/ i = Len(logs) + 1
      BY <1>1, <1>4, Restarted
    <3>2. i # Len(logs) + 1
      BY <1>4, <2>2, Restarted
    <3>. QED
      BY <1>4, <3>1, <3>2, Restarted
  <2>. QED
    BY <2>1, <2>3 DEF LogsInOrder
<1>5. CASE UNCHANGED worldVars
  BY <1>5 DEF worldVars, LogsInOrder
<1>6. \/ Tick \/ Write \/ Restart \/ UNCHANGED worldVars
  BY DEF Next, Flush, Exit, Start, Advance, OpenFails, Ingesting, OpenPrevious,
         Resolve, Open, Backoff, ReadPrevious, PreviousEnds, Read, StreamEnds,
         Ingest, OnlyTail, vars
<1>. QED
  BY <1>2, <1>3, <1>4, <1>5, <1>6

-----------------------------------------------------------------------------
(***************************************************************************)
(* The rows.  A step leaves them alone, adds one, or ends grepod and       *)
(* leaves those the store has.                                             *)
(***************************************************************************)
LEMMA RowsChange ==
  [Next]_vars =>
    \/ UNCHANGED rows
    \/ Exit
    \/ ReadPrevious
    \/ Read
BY DEF Next, Tick, Write, Restart, Flush, Start, Advance, OpenFails, Ingesting,
       OpenPrevious, Resolve, Open, Backoff, PreviousEnds, StreamEnds,
       OnlyTail, vars, storeVars

\* what makes a row Stamped in the next state
StampedNext(row) ==
  /\ row.inst \in DOMAIN logs'
  /\ row.line \in DOMAIN logs'[row.inst]
  /\ logs'[row.inst][row.line] <= row.ts
  /\ row.ts \in 1 .. clock'
  /\ row.src = "previous" => row.inst < Len(logs')

LEMMA StampedKept ==
  ASSUME TypeInv, Grows
  PROVE  \A row \in StoredLine : Stamped(row) => StampedNext(row)
<1> SUFFICES ASSUME NEW row \in StoredLine, Stamped(row)
             PROVE  StampedNext(row)
  OBVIOUS
<1>1. /\ row.inst \in Nat /\ row.line \in Nat /\ row.ts \in Nat
      /\ clock \in Nat /\ clock' \in Nat /\ clock <= clock'
      /\ Len(logs) \in Nat /\ Len(logs') \in Nat /\ Len(logs) <= Len(logs')
  BY LogTypes DEF StoredLine, TypeInv, Grows
<1>2. /\ row.inst \in DOMAIN logs'
      /\ row.line \in DOMAIN logs'[row.inst]
      /\ logs'[row.inst][row.line] = logs[row.inst][row.line]
  BY DEF Stamped, Grows
<1>3. row.ts \in 1 .. clock'
  BY <1>1 DEF Stamped
<1>4. row.src = "previous" => row.inst < Len(logs')
  BY <1>1 DEF Stamped, Current
<1>. QED
  BY <1>2, <1>3, <1>4 DEF Stamped, StampedNext

\* a row added by ingest
LEMMA NewStamped ==
  ASSUME TypeInv, LogsInOrder, StreamOfLog, NEW src \in {"live", "previous"},
         Ingest(src), at \in {"readPrev", "read"},
         src = "previous" => at = "readPrev"
  PROVE  StampedNext(rows'[Len(rows) + 1])
<1> DEFINE row == [inst |-> stream.inst, line |-> stream.next,
                   src |-> src, ts |-> clock]
<1>1. /\ rows'[Len(rows) + 1] = row
      /\ clock' = clock /\ logs' = logs
  BY Added DEF Ingest, worldVars
<1>2. /\ row.inst = stream.inst /\ row.line = stream.next
      /\ row.src = src /\ row.ts = clock
  OBVIOUS
<1> HIDE DEF row
<1>3. stream.inst \in DOMAIN logs /\ clock \in Nat \ {0}
      /\ stream.next \in Nat \ {0}
  BY DEF StreamOfLog, TypeInv
<1>4. stream.next <= Len(logs[stream.inst])
  BY DEF Ingest, Scannable, Unread
<1>5. stream.next \in DOMAIN logs[stream.inst]
  BY <1>3, <1>4, LogTypes
<1>6. logs[stream.inst][stream.next] <= clock
  BY <1>3, <1>5 DEF LogsInOrder
<1>7. src = "previous" => stream.inst < Len(logs)
  BY DEF StreamOfLog, Current
<1>. QED
  BY <1>1, <1>2, <1>3, <1>5, <1>6, <1>7 DEF StampedNext

LEMMA RowsStep ==
  ASSUME TypeInv, LogsInOrder, RowsInOrder, StreamOfLog, [Next]_vars
  PROVE  RowsInOrder'
<1>1. /\ Len(rows) \in Nat /\ DOMAIN rows = 1 .. Len(rows)
      /\ clock \in Nat \ {0}
      /\ \A k \in DOMAIN rows :
           rows[k] \in StoredLine /\ rows[k].ts \in Nat /\ rows[k].ts <= clock
  BY RowTypes DEF TypeInv, RowsInOrder, Stamped, StoredLine
<1>2. \A k \in DOMAIN rows : StampedNext(rows[k])
  BY <1>1, GrowsStep, StampedKept DEF RowsInOrder
<1>3. ASSUME \A k \in DOMAIN rows' : StampedNext(rows'[k])
      PROVE  \A k \in DOMAIN rows' : Stamped(rows[k])'
  BY <1>3 DEF StampedNext, Stamped, Current
<1>4. CASE UNCHANGED rows
  BY <1>2, <1>3, <1>4 DEF RowsInOrder
<1>5. CASE Exit
  <2>1. /\ DOMAIN rows' \subseteq DOMAIN rows
        /\ \A k \in DOMAIN rows' : rows'[k] = rows[k]
    BY <1>5, Lost
  <2>2. \A k \in DOMAIN rows' : Stamped(rows[k])'
    BY <1>2, <1>3, <2>1
  <2>. QED
    BY <2>1, <2>2 DEF RowsInOrder
<1>6. CASE ReadPrevious \/ Read
  <2>1. PICK src \in {"live", "previous"} :
          /\ Ingest(src) /\ at \in {"readPrev", "read"}
          /\ src = "previous" => at = "readPrev"
    BY <1>6 DEF ReadPrevious, Read
  <2>2. /\ DOMAIN rows' = 1 .. Len(rows) + 1
        /\ \A k \in DOMAIN rows : rows'[k] = rows[k]
        /\ rows'[Len(rows) + 1].ts = clock
    BY <2>1, Added
  <2>3. StampedNext(rows'[Len(rows) + 1])
    BY <2>1, NewStamped
  <2>4. \A k \in DOMAIN rows' : k \in DOMAIN rows \/ k = Len(rows) + 1
    BY <1>1, <2>2
  <2>5. \A k \in DOMAIN rows' : Stamped(rows[k])'
    BY <1>2, <1>3, <2>2, <2>3, <2>4
  <2>6. ASSUME NEW j \in DOMAIN rows', NEW k \in DOMAIN rows', j <= k
        PROVE  rows'[j].ts <= rows'[k].ts
    <3>1. CASE k \in DOMAIN rows
      <4>1. j \in DOMAIN rows
        BY <1>1, <2>2, <2>6, <3>1
      <4>. QED
        BY <2>2, <2>6, <3>1, <4>1 DEF RowsInOrder
    <3>2. CASE k = Len(rows) + 1
      <4>1. CASE j \in DOMAIN rows
        BY <1>1, <2>2, <3>2, <4>1
      <4>2. CASE j = Len(rows) + 1
        BY <1>1, <2>2, <3>2, <4>2
      <4>. QED
        BY <2>4, <4>1, <4>2
    <3>. QED
      BY <2>4, <3>1, <3>2
  <2>. QED
    BY <2>5, <2>6 DEF RowsInOrder
<1>. QED
  BY <1>4, <1>5, <1>6, RowsChange

-----------------------------------------------------------------------------
(***************************************************************************)
(* The stream and the marker.                                              *)
(***************************************************************************)
LEMMA StreamStep ==
  ASSUME TypeInv, StreamOfLog, [Next]_vars
  PROVE  StreamOfLog'
<1>1. /\ Len(logs) \in Nat \ {0} /\ DOMAIN logs = 1 .. Len(logs)
      /\ Len(logs') \in Nat /\ Len(logs) <= Len(logs')
      /\ DOMAIN logs \subseteq DOMAIN logs'
      /\ Current = Len(logs)
      /\ stream \in [inst : Nat, next : Nat \ {0}]
  BY LogTypes, GrowsStep DEF Grows, Current, TypeInv
<1>2. CASE at' = at /\ stream'.inst = stream.inst
  BY <1>1, <1>2 DEF StreamOfLog, Current
<1>3. CASE at' \notin {"readPrev", "read"}
  BY <1>3 DEF StreamOfLog
<1>4. CASE OpenPrevious
  <2>1. CASE Goto("resolve")
    BY <1>3, <2>1 DEF Goto
  <2>2. CASE /\ Current > 1 /\ at' = "readPrev"
             /\ stream' = [inst |-> Current - 1,
                           next |-> TailStart(Len(logs[Current - 1]))]
    <3>1. stream'.inst \in DOMAIN logs /\ stream'.inst < Len(logs')
      BY <1>1, <2>2
    <3>. QED
      BY <1>1, <2>2, <3>1 DEF StreamOfLog, Current
  <2>. QED
    BY <1>4, <2>1, <2>2 DEF OpenPrevious
<1>5. CASE Open
  <2>1. at' = "read" /\ stream'.inst = Current
    BY <1>5 DEF Open
  <2>. QED
    BY <1>1, <2>1 DEF StreamOfLog
<1>6. CASE ReadPrevious \/ Read
  <2>1. at' = at /\ stream'.inst = stream.inst
    BY <1>6, Added DEF ReadPrevious, Read, Ingest
  <2>. QED
    BY <1>2, <2>1
<1>7. CASE Tick \/ Write \/ Restart \/ Flush \/ UNCHANGED vars
  BY <1>2, <1>7 DEF Tick, Write, Restart, Flush, vars, tailVars
<1>8. CASE Exit \/ Start \/ OpenFails \/ Resolve \/ Backoff
           \/ PreviousEnds \/ StreamEnds
  BY <1>3, <1>8 DEF Exit, Start, OpenFails, Resolve, Backoff, AfterBackoff,
                    PreviousEnds, StreamEnds, Goto
<1>. QED
  BY <1>4, <1>5, <1>6, <1>7, <1>8 DEF Next, Advance, Ingesting

LEMMA MarkerStep ==
  ASSUME TypeInv, RowsInOrder, MarkerNewest, [Next]_vars
  PROVE  MarkerNewest'
<1> USE DEF Absent, Zero
<1>1. /\ Len(rows) \in Nat /\ DOMAIN rows = 1 .. Len(rows)
      /\ flushed \in Nat /\ flushed <= Len(rows)
      /\ clock \in Nat \ {0}
      /\ marker \in {Absent, Zero} \union 1 .. clock
      /\ \A k \in DOMAIN rows :
           rows[k].ts \in Nat \ {0} /\ rows[k].ts <= clock
  BY RowTypes DEF TypeInv, RowsInOrder, Stamped
<1>2. CASE /\ UNCHANGED <<rows, flushed, marker>>
           /\ at' \in {"open", "read", "backoff"} => marker # Absent
  BY <1>2 DEF MarkerNewest
<1>3. CASE Flush
  <2>1. /\ UNCHANGED <<rows, marker, at>>
        /\ flushed' \in flushed + 1 .. Len(rows)
    BY <1>3 DEF Flush, tailVars
  <2>2. ASSUME marker = Absent, NEW k \in DOMAIN rows, k > flushed'
        PROVE  rows[k].src = "previous"
    <3>1. k > flushed
      BY <1>1, <2>1, <2>2
    <3>. QED
      BY <2>2, <3>1 DEF MarkerNewest
  <2>. QED
    BY <2>1, <2>2 DEF MarkerNewest
<1>4. CASE Exit
  <2>1. marker' = Absent /\ at' = "none" /\ flushed' = flushed
    BY <1>4 DEF Exit
  <2>2. \A k \in DOMAIN rows' : ~ (k > flushed)
    BY <1>1, <1>4, Lost
  <2>. QED
    BY <2>1, <2>2 DEF MarkerNewest
<1>5. CASE Resolve
  <2>1. UNCHANGED <<rows, flushed>> /\ at' = "open"
    BY <1>5 DEF Resolve, OnlyTail, storeVars, Goto
  <2>2. CASE marker' = Zero
    BY <2>1, <2>2 DEF MarkerNewest
  <2>3. CASE marker # Absent /\ marker' = marker
    BY <2>1, <2>3 DEF MarkerNewest
  <2>4. CASE marker = Absent /\ flushed # 0 /\ marker' = rows[flushed].ts
    <3>1. flushed \in DOMAIN rows /\ marker' \in Nat \ {0}
      BY <1>1, <2>4
    <3>2. ASSUME NEW k \in DOMAIN rows, rows[k].src = "live"
          PROVE  rows[k].ts <= rows[flushed].ts
      <4>1. ~ (k > flushed)
        BY <2>4, <3>2 DEF MarkerNewest
      <4>2. k <= flushed
        BY <1>1, <4>1
      <4>. QED
        BY <3>1, <4>2 DEF RowsInOrder
    <3>. QED
      BY <2>1, <2>4, <3>1, <3>2 DEF MarkerNewest
  <2>. QED
    BY <1>5, <2>2, <2>3, <2>4 DEF Resolve, LastSeen
<1>6. CASE ReadPrevious
  <2>1. /\ Ingest("previous") /\ at = "readPrev" /\ marker' = marker
        /\ at' = at /\ flushed' = flushed
    BY <1>6 DEF ReadPrevious, Ingest
  <2>2. /\ DOMAIN rows' = 1 .. Len(rows) + 1
        /\ \A k \in DOMAIN rows : rows'[k] = rows[k]
        /\ rows'[Len(rows) + 1].src = "previous"
    BY <2>1, Added
  <2>3. \A k \in DOMAIN rows' : k \in DOMAIN rows \/ k = Len(rows) + 1
    BY <1>1, <2>2
  <2>4. ASSUME NEW k \in DOMAIN rows', rows'[k].src = "live"
        PROVE  k \in DOMAIN rows /\ rows'[k] = rows[k]
    BY <2>2, <2>3, <2>4
  <2>5. marker \notin {Absent, Zero} =>
          \A k \in DOMAIN rows' : rows'[k].src = "live" => rows'[k].ts <= marker
    BY <2>4 DEF MarkerNewest
  <2>6. marker = Absent =>
          \A k \in DOMAIN rows' : k > flushed => rows'[k].src = "previous"
    BY <2>2, <2>3 DEF MarkerNewest
  <2>. QED
    BY <2>1, <2>5, <2>6 DEF MarkerNewest
<1>7. CASE Read
  <2>1. Ingest("live") /\ marker' = clock
    BY <1>7 DEF Read, SetMarker
  <2>2. /\ DOMAIN rows' = 1 .. Len(rows) + 1
        /\ \A k \in DOMAIN rows : rows'[k] = rows[k]
        /\ rows'[Len(rows) + 1].ts = clock
    BY <2>1, Added
  <2>3. \A k \in DOMAIN rows' : k \in DOMAIN rows \/ k = Len(rows) + 1
    BY <1>1, <2>2
  <2>4. \A k \in DOMAIN rows' : rows'[k].ts <= clock
    BY <1>1, <2>2, <2>3
  <2>. QED
    BY <1>1, <2>1, <2>4 DEF MarkerNewest
<1>8. CASE Start \/ OpenPrevious \/ PreviousEnds \/ Tick \/ Write \/ Restart
           \/ UNCHANGED vars \/ Open \/ OpenFails \/ Backoff \/ StreamEnds
  <2>1. UNCHANGED <<rows, flushed, marker>>
    BY <1>8 DEF Start, OpenPrevious, PreviousEnds, Tick, Write, Restart, vars,
                Open, OpenFails, Backoff, StreamEnds, OnlyTail, storeVars,
                tailVars
  <2>2. \/ at' \notin {"open", "read", "backoff"}
        \/ at' = at
        \/ at \in {"open", "read", "backoff"}
    BY <1>8 DEF Start, OpenPrevious, PreviousEnds, Tick, Write, Restart, vars,
                Open, OpenFails, Backoff, StreamEnds, Goto, tailVars
  <2>. QED
    BY <1>2, <2>1, <2>2 DEF MarkerNewest
<1>. QED
  BY <1>3, <1>4, <1>5, <1>6, <1>7, <1>8 DEF Next, Advance, Ingesting

-----------------------------------------------------------------------------
(***************************************************************************)
(* The gaps.                                                               *)
(***************************************************************************)
\* the lines an opened stream leaves out, which nobody has read
LeftOut ==
  {<<Current, n>> : n \in {m \in 1 .. First(logs[Current], marker) - 1 :
                             ~Held(Current, m)}}

LEMMA Opened ==
  ASSUME Open
  PROVE  /\ UNCHANGED <<worldVars, storeVars, marker>> /\ at' = "read"
         /\ stream' = [inst |-> Current,
                       next |-> First(logs[Current], marker)]
         /\ skipped' = skipped \union LeftOut
BY DEF Open, First, LeftOut

LEMMA SkippedGrows ==
  [Next]_vars => skipped \subseteq skipped' /\ (~Open => skipped' = skipped)
BY DEF Next, Tick, Write, Restart, Flush, Exit, Start, Advance, OpenFails,
       Ingesting, OpenPrevious, Resolve, Open, Backoff, ReadPrevious,
       PreviousEnds, Read, StreamEnds, Ingest, OnlyTail, vars

LEMMA LiveGapsStep ==
  ASSUME TypeInv, LiveNoGaps, StreamNoGaps, [Next]_vars
  PROVE  LiveNoGaps'
<1>1. /\ Len(rows) \in Nat /\ DOMAIN rows = 1 .. Len(rows)
      /\ flushed \in Nat /\ flushed <= Len(rows)
  BY RowTypes
<1>2. skipped \subseteq skipped'
  BY SkippedGrows
<1>3. ASSUME NEW k \in DOMAIN rows, rows[k].src = "live",
             DOMAIN rows' \subseteq Nat, k \in DOMAIN rows',
             \A j \in DOMAIN rows : j <= k =>
               j \in DOMAIN rows' /\ rows'[j] = rows[j],
             NEW m \in 1 .. rows'[k].line - 1
      PROVE  <<rows'[k].inst, m>> \in skipped' \/ HeldBy(k, rows[k].inst, m)'
  <2>1. rows'[k] = rows[k]
    BY <1>1, <1>3
  <2>2. <<rows[k].inst, m>> \in skipped \/ HeldBy(k, rows[k].inst, m)
    BY <1>3, <2>1 DEF LiveNoGaps
  <2>3. CASE HeldBy(k, rows[k].inst, m)
    <3>1. PICK j \in DOMAIN rows :
            j < k /\ rows[j].inst = rows[k].inst /\ rows[j].line = m
      BY <2>3 DEF HeldBy
    <3>2. j \in DOMAIN rows' /\ rows'[j] = rows[j]
      BY <1>1, <1>3, <3>1
    <3>. QED
      BY <2>1, <3>1, <3>2 DEF HeldBy
  <2>. QED
    BY <1>2, <2>1, <2>2, <2>3
<1>4. CASE UNCHANGED rows
  <2>1. /\ DOMAIN rows' \subseteq Nat
        /\ \A j \in DOMAIN rows : j \in DOMAIN rows' /\ rows'[j] = rows[j]
    BY <1>1, <1>4
  <2>. QED
    BY <1>3, <1>4, <2>1 DEF LiveNoGaps
<1>5. CASE Exit
  <2>1. /\ DOMAIN rows' = 1 .. flushed /\ DOMAIN rows' \subseteq DOMAIN rows
        /\ \A k \in DOMAIN rows' : rows'[k] = rows[k]
    BY <1>5, Lost
  <2>2. ASSUME NEW k \in DOMAIN rows', NEW j \in DOMAIN rows, j <= k
        PROVE  j \in DOMAIN rows' /\ rows'[j] = rows[j]
    BY <1>1, <2>1, <2>2
  <2>. QED
    BY <1>1, <1>3, <2>1, <2>2 DEF LiveNoGaps
<1>6. CASE ReadPrevious \/ Read
  <2>1. PICK src \in {"live", "previous"} :
          Ingest(src) /\ (src = "live" => at = "read")
    BY <1>6 DEF ReadPrevious, Read
  <2>2. /\ DOMAIN rows' = 1 .. Len(rows) + 1
        /\ \A k \in DOMAIN rows : rows'[k] = rows[k]
        /\ rows'[Len(rows) + 1] = [inst |-> stream.inst, line |-> stream.next,
                                   src |-> src, ts |-> clock]
    BY <2>1, Added
  <2>3. /\ DOMAIN rows' \subseteq Nat
        /\ \A j \in DOMAIN rows : j \in DOMAIN rows' /\ rows'[j] = rows[j]
        /\ \A k \in DOMAIN rows' : k \in DOMAIN rows \/ k = Len(rows) + 1
    BY <1>1, <2>2
  <2> DEFINE HeldThen(k, i, n) ==
               \E j \in DOMAIN rows' :
                 j < k /\ rows'[j].inst = i /\ rows'[j].line = n
  <2>4. ASSUME src = "live", NEW m \in 1 .. stream.next - 1
        PROVE  \/ <<stream.inst, m>> \in skipped'
               \/ HeldThen(Len(rows) + 1, stream.inst, m)
    <3>1. <<stream.inst, m>> \in skipped \/ Held(stream.inst, m)
      BY <2>1, <2>4 DEF StreamNoGaps
    <3>2. CASE Held(stream.inst, m)
      <4>1. PICK j \in DOMAIN rows :
              rows[j].inst = stream.inst /\ rows[j].line = m
        BY <3>2 DEF Held
      <4>2. j < Len(rows) + 1
        BY <1>1
      <4>. QED
        BY <2>3, <4>1, <4>2
    <3>. QED
      BY <1>2, <3>1, <3>2
  <2>5. ASSUME NEW k \in DOMAIN rows', rows'[k].src = "live",
               NEW m \in 1 .. rows'[k].line - 1
        PROVE  <<rows'[k].inst, m>> \in skipped' \/ HeldThen(k, rows'[k].inst, m)
    <3>1. CASE k \in DOMAIN rows
      <4>1. rows'[k] = rows[k] /\ k \in DOMAIN rows'
        BY <2>3, <3>1
      <4>2. <<rows'[k].inst, m>> \in skipped' \/ HeldBy(k, rows[k].inst, m)'
        BY <1>3, <2>3, <2>5, <3>1, <4>1
      <4>. QED
        BY <4>2 DEF HeldBy
    <3>2. CASE k = Len(rows) + 1
      <4>1. /\ src = "live" /\ rows'[k].inst = stream.inst
            /\ rows'[k].line = stream.next
        BY <2>2, <2>5, <3>2
      <4>. QED
        BY <2>4, <2>5, <3>2, <4>1
    <3>. QED
      BY <2>3, <3>1, <3>2
  <2>. QED
    BY <2>5 DEF LiveNoGaps, HeldBy
<1>. QED
  BY <1>4, <1>5, <1>6, RowsChange

LEMMA StreamGapsStep ==
  ASSUME TypeInv, StreamNoGaps, [Next]_vars
  PROVE  StreamNoGaps'
<1>1. /\ Len(rows) \in Nat /\ DOMAIN rows = 1 .. Len(rows)
      /\ stream.next \in Nat \ {0}
  BY RowTypes DEF TypeInv
<1>2. skipped \subseteq skipped'
  BY SkippedGrows
<1>3. CASE at' # "read"
  BY <1>3 DEF StreamNoGaps
<1>4. CASE UNCHANGED <<rows, at, stream>>
  BY <1>2, <1>4 DEF StreamNoGaps, Held
<1>5. CASE Open
  <2>1. /\ rows' = rows /\ skipped' = skipped \union LeftOut
        /\ stream'.inst = Current
        /\ stream'.next = First(logs[Current], marker)
    BY <1>5, Opened DEF storeVars
  <2>2. ASSUME NEW m \in 1 .. stream'.next - 1
        PROVE  <<Current, m>> \in skipped' \/ Held(Current, m)
    BY <2>1, <2>2 DEF LeftOut
  <2>. QED
    BY <2>1, <2>2 DEF StreamNoGaps, Held
<1>6. CASE Read
  <2>1. Ingest("live") /\ at = "read"
    BY <1>6 DEF Read
  <2>2. /\ DOMAIN rows' = 1 .. Len(rows) + 1
        /\ \A k \in DOMAIN rows : rows'[k] = rows[k]
        /\ rows'[Len(rows) + 1].inst = stream.inst
        /\ rows'[Len(rows) + 1].line = stream.next
        /\ stream'.inst = stream.inst /\ stream'.next = stream.next + 1
    BY <2>1, Added
  <2>3. Len(rows) + 1 \in DOMAIN rows' /\ DOMAIN rows \subseteq DOMAIN rows'
    BY <1>1, <2>2
  <2>4. ASSUME NEW m \in 1 .. stream'.next - 1
        PROVE  \/ <<stream.inst, m>> \in skipped'
               \/ \E k \in DOMAIN rows' :
                    rows'[k].inst = stream.inst /\ rows'[k].line = m
    <3>1. m \in 1 .. stream.next - 1 \/ m = stream.next
      BY <1>1, <2>2, <2>4
    <3>2. CASE m = stream.next
      BY <2>2, <2>3, <3>2
    <3>3. CASE m \in 1 .. stream.next - 1
      <4>1. <<stream.inst, m>> \in skipped \/ Held(stream.inst, m)
        BY <2>1, <3>3 DEF StreamNoGaps
      <4>2. CASE Held(stream.inst, m)
        BY <2>2, <2>3, <4>2 DEF Held
      <4>. QED
        BY <1>2, <4>1, <4>2
    <3>. QED
      BY <3>1, <3>2, <3>3
  <2>. QED
    BY <2>2, <2>4 DEF StreamNoGaps, Held
<1>7. \/ at' # "read"
      \/ UNCHANGED <<rows, at, stream>>
      \/ Open
      \/ Read
  BY DEF Next, Tick, Write, Restart, Flush, Exit, Start, Advance, OpenFails,
         Ingesting, OpenPrevious, Resolve, Backoff, AfterBackoff, ReadPrevious,
         PreviousEnds, StreamEnds, Ingest, OnlyTail, Goto, vars, storeVars,
         tailVars
<1>. QED
  BY <1>3, <1>4, <1>5, <1>6, <1>7

-----------------------------------------------------------------------------
(***************************************************************************)
(* The invariant and the theorems.                                         *)
(***************************************************************************)
LEMMA MarkerInit == Init => MarkerInv
<1> SUFFICES ASSUME Init PROVE MarkerInv
  OBVIOUS
<1>1. /\ clock = 1 /\ logs = << <<>> >> /\ rows = <<>> /\ flushed = 0
      /\ marker = Absent /\ at = "none" /\ stream = NoStream
  BY DEF Init
<1>2. /\ logs \in Seq(Seq(Nat)) /\ Len(logs) = 1 /\ DOMAIN logs = {1}
      /\ DOMAIN logs[1] = {}
  BY <1>1, SMT
<1>3. rows \in Seq(StoredLine) /\ Len(rows) = 0 /\ DOMAIN rows = {}
  BY <1>1, SMT
<1>4. TypeInv
  BY <1>1, <1>2, <1>3 DEF TypeInv, NoStream, Labels
<1>5. LogsInOrder
  BY <1>2 DEF LogsInOrder
<1>6. RowsInOrder /\ MarkerNewest /\ StreamOfLog /\ LiveNoGaps /\ StreamNoGaps
  BY <1>1, <1>3 DEF RowsInOrder, MarkerNewest, StreamOfLog, LiveNoGaps,
                    StreamNoGaps
<1>. QED
  BY <1>4, <1>5, <1>6 DEF MarkerInv

LEMMA MarkerInvStep == MarkerInv /\ [Next]_vars => MarkerInv'
<1> SUFFICES ASSUME MarkerInv, [Next]_vars PROVE MarkerInv'
  OBVIOUS
<1>. QED
  BY TypeStep, LogsStep, RowsStep, StreamStep, MarkerStep, LiveGapsStep,
     StreamGapsStep DEF MarkerInv

LEMMA MarkerInvariant == Spec => []MarkerInv
BY MarkerInit, MarkerInvStep, PTL DEF Spec

\* a stream opened since a stamp that was read promptly leaves nothing out
LEMMA PromptSkipsNothing ==
  ASSUME MarkerInv, Open, ReadPromptly(marker), skipped' # skipped
  PROVE  FALSE
<1>1. /\ TypeInv /\ LogsInOrder /\ RowsInOrder /\ LiveNoGaps
  BY DEF MarkerInv
<1>2. /\ Len(logs) \in Nat \ {0} /\ DOMAIN logs = 1 .. Len(logs)
      /\ Current = Len(logs) /\ Current \in DOMAIN logs
      /\ logs[Current] \in Seq(Nat)
      /\ DOMAIN logs[Current] = 1 .. Len(logs[Current])
      /\ Len(logs[Current]) \in Nat
      /\ marker \in Int
  BY <1>1, LogTypes DEF TypeInv, Current, Absent, Zero
<1>3. PICK k \in DOMAIN rows :
        /\ rows[k].src = "live" /\ rows[k].ts = marker
        /\ logs[rows[k].inst][rows[k].line] = marker
  BY DEF ReadPromptly
<1>4. Stamped(rows[k]) /\ rows[k] \in StoredLine
  BY <1>1, RowTypes DEF RowsInOrder
<1> DEFINE i == rows[k].inst
           n == rows[k].line
<1>5. /\ i \in DOMAIN logs /\ n \in DOMAIN logs[i] /\ logs[i][n] = marker
      /\ i \in Nat /\ n \in Nat /\ i <= Current
  BY <1>2, <1>3, <1>4 DEF Stamped, StoredLine
<1>6. PICK m \in 1 .. First(logs[Current], marker) - 1 :
        ~Held(Current, m) /\ <<Current, m>> \notin skipped
  <2>1. skipped' = skipped \union LeftOut
    BY Opened
  <2>2. PICK line \in LeftOut : line \notin skipped
    BY <2>1
  <2>. QED
    BY <2>2 DEF LeftOut
<1>7. /\ logs[Current][m] < marker /\ m \in DOMAIN logs[Current]
      /\ m \in Nat \ {0}
  <2> DEFINE log   == logs[Current]
             first == First(log, marker)
  <2>1. /\ first \in 1 .. Len(log) + 1
        /\ \A l \in 1 .. first - 1 : log[l] < marker
    BY <1>2, FirstLine
  <2> HIDE DEF first
  <2>2. m \in 1 .. first - 1
    BY <1>6 DEF first
  <2>3. m \in Nat \ {0} /\ m <= Len(log)
    BY <1>2, <2>1, <2>2
  <2>. QED
    BY <1>2, <2>1, <2>2, <2>3
<1> HIDE DEF i, n
<1>8. CASE i < Current
  <2>1. logs[i][n] <= logs[Current][m]
    BY <1>1, <1>2, <1>5, <1>7, <1>8 DEF LogsInOrder
  <2>2. logs[Current][m] \in Nat
    BY <1>1, <1>2, <1>7, LogTypes
  <2>. QED
    BY <1>2, <1>5, <1>7, <2>1, <2>2
<1>9. CASE i = Current
  <2>1. ~ (n <= m)
    <3>1. SUFFICES ASSUME n <= m PROVE FALSE
      OBVIOUS
    <3>2. logs[i][n] <= logs[Current][m]
      BY <1>1, <1>2, <1>5, <1>7, <1>9, <3>1 DEF LogsInOrder
    <3>3. logs[Current][m] \in Nat
      BY <1>1, <1>2, <1>7, LogTypes
    <3>. QED
      BY <1>2, <1>5, <1>7, <3>2, <3>3
  <2>2. m \in 1 .. n - 1
    BY <1>5, <1>7, <2>1
  <2>3. <<Current, m>> \in skipped \/ HeldBy(k, Current, m)
    BY <1>1, <1>3, <1>9, <2>2 DEF LiveNoGaps, i, n
  <2>. QED
    BY <1>6, <2>3 DEF HeldBy, Held
<1>. QED
  BY <1>2, <1>5, <1>8, <1>9

(* What streamLogs relies on when it sends its own stamp as SinceTime       *)
(* (manager.go:405-413), for every schedule of restarts of the container,  *)
(* exits of grepod and faults: the stamp of a line read in the second it   *)
(* was written leaves no unread line out.                                  *)
THEOREM PromptNeverSkips == Spec => SkipsOnlyAfterLateRead
<1>1. MarkerInv /\ [Next]_vars => (skipped' # skipped => ~ReadPromptly(marker))
  <2> SUFFICES ASSUME MarkerInv, [Next]_vars, skipped' # skipped,
                      ReadPromptly(marker)
               PROVE  FALSE
    OBVIOUS
  <2>1. Open
    BY SkippedGrows
  <2>. QED
    BY <2>1, PromptSkipsNothing
<1>2. MarkerInv /\ [Next]_vars
        => [skipped' # skipped => ~ReadPromptly(marker)]_vars
  BY <1>1
<1>. QED
  BY <1>2, MarkerInvariant, PTL DEF Spec, SkipsOnlyAfterLateRead

(* What the marker is for (manager.go:402-404): a stream since some time   *)
(* repeats no line already enqueued but those of its first second, across  *)
(* reconnects and restarts of grepod.                                      *)
THEOREM RepeatsAlwaysBoundary == Spec => RepeatsOnlyBoundary
<1> DEFINE Repeats ==
             \A n \in stream'.next .. Len(logs[Current]) :
               Held(Current, n) => logs[Current][n] = marker
<1>1. MarkerInv /\ [Next]_vars => (Opens /\ marker # Zero => Repeats)
  <2> SUFFICES ASSUME MarkerInv, [Next]_vars, Opens, marker # Zero,
                      NEW n \in stream'.next .. Len(logs[Current]),
                      Held(Current, n)
               PROVE  logs[Current][n] = marker
    OBVIOUS
  <2>1. TypeInv /\ LogsInOrder /\ RowsInOrder /\ MarkerNewest
    BY DEF MarkerInv
  <2>2. Open
    BY DEF Opens, Next, Tick, Write, Restart, Flush, Exit, Start, Advance,
           OpenFails, Ingesting, OpenPrevious, Resolve, Backoff, ReadPrevious,
           PreviousEnds, Read, StreamEnds, Ingest, Goto, vars, tailVars
  <2> DEFINE log   == logs[Current]
             first == First(log, marker)
  <2>3. /\ stream'.next = first /\ Current \in DOMAIN logs
        /\ log \in Seq(Nat) /\ Len(log) \in Nat
        /\ DOMAIN log = 1 .. Len(log)
        /\ \A m \in DOMAIN log : log[m] \in Nat
        /\ marker \in Int
    BY <2>1, <2>2, Opened, LogTypes DEF TypeInv, Absent, Zero
  <2>4. /\ first \in 1 .. Len(log) + 1
        /\ first <= Len(log) => log[first] >= marker
    BY <2>3, FirstLine
  <2>5. Current \in Nat
    BY <2>1, LogTypes DEF Current
  <2> HIDE DEF first
  <2>6. /\ first \in Nat /\ first <= n /\ first \in DOMAIN log
        /\ n \in DOMAIN log /\ log[first] >= marker
    BY <2>3, <2>4
  <2>7. log[first] <= log[n]
    BY <2>1, <2>3, <2>5, <2>6 DEF LogsInOrder
  <2>8. PICK k \in DOMAIN rows : rows[k].inst = Current /\ rows[k].line = n
    BY DEF Held
  <2>9. /\ rows[k] \in StoredLine /\ log[n] <= rows[k].ts
        /\ rows[k].src = "previous" => rows[k].inst < Current
    BY <2>1, <2>8, RowTypes DEF RowsInOrder, Stamped
  <2>10. rows[k].src = "live"
    BY <2>5, <2>8, <2>9 DEF StoredLine
  <2>11. marker # Absent
    BY <2>1, <2>2 DEF MarkerNewest, Open
  <2>12. rows[k].ts <= marker /\ rows[k].ts \in Nat
    BY <2>1, <2>9, <2>10, <2>11 DEF MarkerNewest, StoredLine
  <2>. QED
    BY <2>3, <2>6, <2>7, <2>9, <2>12
<1>2. MarkerInv /\ [Next]_vars => [Opens /\ marker # Zero => Repeats]_vars
  BY <1>1
<1>. QED
  BY <1>2, MarkerInvariant, PTL DEF Spec, RepeatsOnlyBoundary

=============================================================================
