-------------------------- MODULE BatchQueueProofs --------------------------
(***************************************************************************)
(* Theorems about the ingestion queue for every number of goroutines and   *)
(* dates, every BATCH_SIZE and channel capacity.                           *)
(***************************************************************************)
EXTENDS BatchQueueLedger, SequenceTheorems, TLAPS

(***************************************************************************)
(* recordDrop inside the queue.  A step of the queue is a step of          *)
(* DropWarning or leaves its variables alone, so whatever that module      *)
(* proves of recordDrop holds in the queue.                                *)
(***************************************************************************)
THEOREM ImplementsDropWarning == Spec => Drop!Spec
<1>1. Init => Drop!Init
  BY DEF Init
<1>2. [Next]_vars => [Drop!Next]_(Drop!dropVars)
  <2> SUFFICES ASSUME [Next]_vars PROVE [Drop!Next]_(Drop!dropVars)
    OBVIOUS
  <2> USE DEF Drop!dropVars, dropVars
  <2>1. ASSUME NEW p \in Producers, Enqueue(p)
        PROVE  [Drop!Next]_(Drop!dropVars)
    BY <2>1 DEF Enqueue, Accept, Refuse, RecordDrop, Drop!Next
  <2>2. CASE Run
    BY <2>2 DEF Run, Receive, Tick, Done, DrainOne, DrainEnd, Insert,
                InsertFail, InsertGroup
  <2>3. CASE TimePasses
    BY <2>3 DEF TimePasses, Drop!Next
  <2>4. CASE Close \/ CloseReturn \/ UNCHANGED vars
    BY <2>4 DEF Close, CloseReturn, vars
  <2>. QED
    BY <2>1, <2>2, <2>3, <2>4 DEF Next
<1>. QED
  BY <1>1, <1>2, PTL DEF Spec, Drop!Spec

DropProofs == INSTANCE DropWarningProofs

LEMMA DropSpecs == Drop!Spec => DropProofs!Spec
<1>1. Drop!Init => DropProofs!Init
  BY DEF Drop!Init, DropProofs!Init
<1>2. [Drop!Next]_(Drop!dropVars) => [DropProofs!Next]_(DropProofs!dropVars)
  BY Zenon DEF Drop!Next, Drop!Begin, Drop!Continue, Drop!ReadClock,
         Drop!Load, Drop!CompareAndSwap, Drop!SwapAndWarn, Drop!Tick,
         Drop!Return, Drop!WithinWindow, Drop!Swappable, Drop!AfterWarning,
         Drop!dropVars,
         DropProofs!Next, DropProofs!Begin, DropProofs!Continue,
         DropProofs!ReadClock, DropProofs!Load, DropProofs!CompareAndSwap,
         DropProofs!SwapAndWarn, DropProofs!Tick, DropProofs!Return,
         DropProofs!WithinWindow, DropProofs!Swappable,
         DropProofs!AfterWarning, DropProofs!dropVars
<1>. QED
  BY <1>1, <1>2, PTL DEF Drop!Spec, DropProofs!Spec

(* recordDrop's accounts balance inside the queue: the lines Enqueue       *)
(* refuses are all reported or waiting in q.dropped.                       *)
THEOREM QueueDropsAccounted == Spec => []Drop!DropsAccounted
<1>1. DropProofs!Spec => []DropProofs!DropsAccounted
  BY QueueAssumption, DropProofs!DropsAlwaysAccounted DEF QueueAssumption
<1>2. DropProofs!DropsAccounted => Drop!DropsAccounted
  BY DEF DropProofs!DropsAccounted, Drop!DropsAccounted
<1>. QED
  BY <1>1, <1>2, ImplementsDropWarning, DropSpecs, PTL

LEMMA DropTypes == Spec => []Drop!TypeOK
<1>1. DropProofs!Spec => []DropProofs!TypeOK
  BY QueueAssumption, DropProofs!TypeCorrect DEF QueueAssumption
<1>2. DropProofs!TypeOK => Drop!TypeOK
  BY DEF DropProofs!TypeOK, DropProofs!Labels, Drop!TypeOK, Drop!Labels
<1>. QED
  BY <1>1, <1>2, ImplementsDropWarning, DropSpecs, PTL

-----------------------------------------------------------------------------
(***************************************************************************)
(* The queue's own state.                                                  *)
(***************************************************************************)
LEMMA LinesOfType ==
  ASSUME NEW s \in Seq(Line), NEW days
  PROVE  LinesOf(s, days) \subseteq Line
BY DEF LinesOf

LEMMA DaysOfType ==
  ASSUME NEW s \in Seq(Line)
  PROVE  DaysOf(s) \subseteq Days
<1>1. ASSUME NEW i \in DOMAIN s PROVE s[i].day \in Days
  <2>1. s[i] \in Line
    OBVIOUS
  <2>. QED
    BY <2>1 DEF Line
<1>. QED
  BY <1>1 DEF DaysOf

LEMMA TakeBatchType ==
  ASSUME NEW b \in Seq(Line), taken \in Seq(Line), TakeBatch(b)
  PROVE  /\ batch' \in Seq(Line) /\ buf' \in Seq(Line)
         /\ todo' \subseteq Days /\ taken' \in Seq(Line)
BY DaysOfType DEF TakeBatch

LEMMA QueueTypes == Spec => []QueueTypeOK
<1> USE DEF QueueTypeOK
<1>1. Init => QueueTypeOK
  BY QueueAssumption DEF QueueAssumption, Init, RunLabels, Cap
<1>2. QueueTypeOK /\ [Next]_vars => QueueTypeOK'
  <2> SUFFICES ASSUME QueueTypeOK, [Next]_vars PROVE QueueTypeOK'
    OBVIOUS
  <2>1. ASSUME NEW p \in Producers, Accept(p) PROVE QueueTypeOK'
    <3>1. PICK d \in Days :
            LET l == [id |-> Len(accepted) + 1, day |-> d]
            IN  chan' = Append(chan, l) /\ accepted' = Append(accepted, l)
      BY <2>1 DEF Accept
    <3> DEFINE l == [id |-> Len(accepted) + 1, day |-> d]
    <3>2. l \in Line
      BY DEF Line
    <3>3. chan' \in Seq(Line) /\ Len(chan') = Len(chan) + 1
      BY <3>1, <3>2
    <3>4. accepted' \in Seq(Line) /\ Len(accepted') = Len(accepted) + 1
      BY <3>1, <3>2
    <3>. QED
      BY <2>1, <3>3, <3>4, QueueAssumption
      DEF QueueAssumption, Accept, HasRoom, Cap, runVars, mainVars
  <2>2. ASSUME NEW p \in Producers, Refuse(p) \/ RecordDrop(p)
        PROVE  QueueTypeOK'
    BY <2>2 DEF Refuse, RecordDrop, runVars, mainVars, Cap
  <2>3. CASE Receive
    <3> DEFINE b == Append(buf, Head(chan))
    <3>1. b \in Seq(Line) /\ chan' \in Seq(Line) /\ Len(chan') <= Cap
      BY <2>3, QueueAssumption DEF Receive, Cap, QueueAssumption
    <3>2. CASE TakeBatch(b) /\ runPC' = "insert"
      BY <2>3, <3>1, <3>2, TakeBatchType DEF Receive, mainVars, Cap, RunLabels
    <3>3. CASE buf' = b /\ UNCHANGED <<batch, todo, runPC, taken>>
      BY <2>3, <3>1, <3>3 DEF Receive, mainVars, Cap
    <3>. QED
      BY <2>3, <3>2, <3>3 DEF Receive
  <2>4. CASE Tick
    BY <2>4, TakeBatchType DEF Tick, mainVars, Cap, RunLabels
  <2>5. CASE Done \/ Close \/ CloseReturn
    BY <2>5 DEF Done, Close, CloseReturn, mainVars, runVars, Cap, RunLabels
  <2>6. CASE DrainOne
    BY <2>6, QueueAssumption
    DEF QueueAssumption, DrainOne, mainVars, Cap
  <2>7. CASE DrainEnd
    BY <2>7, TakeBatchType DEF DrainEnd, mainVars, Cap, RunLabels
  <2>8. CASE Insert
    <3>1. batch' \in Seq(Line) /\ runPC' \in RunLabels
      <4>1. CASE EndFlush
        BY <4>1, EmptySeq DEF EndFlush, RunLabels
      <4>2. CASE UNCHANGED <<batch, runPC>>
        BY <4>2
      <4>. QED
        BY <2>8, <4>1, <4>2 DEF Insert, InsertFail, InsertGroup
    <3>2. /\ todo' \subseteq Days
          /\ stored' \subseteq Line /\ lost' \subseteq Line
      <4>1. CASE InsertFail
        BY <4>1, LinesOfType DEF InsertFail
      <4>2. ASSUME NEW d \in Days, InsertGroup(d)
            PROVE  /\ todo' \subseteq Days
                   /\ stored' \subseteq Line /\ lost' \subseteq Line
        <5>1. LinesOf(batch, {d}) \subseteq Line
          BY LinesOfType
        <5>. QED
          BY <4>2, <5>1 DEF InsertGroup
      <4>. QED
        BY <2>8, <4>1, <4>2 DEF Insert
    <3>3. UNCHANGED <<chan, accepted, buf, taken, mainVars>>
      BY <2>8 DEF Insert, InsertFail, InsertGroup
    <3>. QED
      BY <3>1, <3>2, <3>3 DEF mainVars, Cap
  <2>9. CASE TimePasses \/ UNCHANGED vars
    BY <2>9 DEF TimePasses, vars, runVars, mainVars, Cap
  <2>. QED
    BY <2>1, <2>2, <2>3, <2>4, <2>5, <2>6, <2>7, <2>8, <2>9
    DEF Next, Enqueue, Run
<1>. QED
  BY <1>1, <1>2, PTL DEF Spec

(* The queue keeps its types, and its channel its capacity.                *)
THEOREM TypeCorrect == Spec => []TypeOK
BY QueueTypes, DropTypes, PTL DEF TypeOK

-----------------------------------------------------------------------------
(***************************************************************************)
(* The order of the pipeline.  Lines only move from the head of a part to  *)
(* the end of the part before it.                                          *)
(***************************************************************************)
LEMMA MoveHead ==
  ASSUME QueueTypeOK, chan # <<>>
  PROVE  (taken \o Append(buf, Head(chan))) \o Tail(chan)
           = (taken \o buf) \o chan
<1> DEFINE h == <<Head(chan)>>
<1> USE DEF QueueTypeOK
<1>1. chan = h \o Tail(chan)
  BY SMT
<1>2. Head(chan) \in Line /\ h \in Seq(Line) /\ Tail(chan) \in Seq(Line)
  BY SMT
<1>3. taken \o Append(buf, Head(chan)) = (taken \o buf) \o h
  BY <1>2, SMT
<1>4. ((taken \o buf) \o h) \o Tail(chan) = (taken \o buf) \o (h \o Tail(chan))
  <2> DEFINE t == taken \o buf
             c == Tail(chan)
  <2>1. t \in Seq(Line) /\ h \in Seq(Line) /\ c \in Seq(Line)
    BY <1>2, ConcatProperties
  <2> HIDE DEF t, h, c, QueueTypeOK
  <2>2. (t \o h) \o c = t \o (h \o c)
    BY <2>1, ConcatAssociative
  <2>. QED
    BY <2>2 DEF t, c
<1>. QED
  BY <1>1, <1>3, <1>4

LEMMA AppendLast ==
  ASSUME NEW S, NEW t \in Seq(S), NEW c \in Seq(S), NEW e \in S
  PROVE  t \o Append(c, e) = Append(t \o c, e)
BY SMT

LEMMA ConcatEmpty ==
  ASSUME NEW S, NEW t \in Seq(S)
  PROVE  t \o <<>> = t
BY SMT

(* The pipeline is in the order of Enqueue for every capacity, batch size  *)
(* and schedule, across Close.                                             *)
THEOREM PipelineAlwaysInOrder == Spec => []PipelineInOrder
<1>1. Init => PipelineInOrder
  BY DEF Init, PipelineInOrder
<1>2. QueueTypeOK /\ PipelineInOrder /\ [Next]_vars => PipelineInOrder'
  <2> SUFFICES ASSUME QueueTypeOK, PipelineInOrder, [Next]_vars
               PROVE  PipelineInOrder'
    OBVIOUS
  <2> USE DEF QueueTypeOK, PipelineInOrder
  <2>1. ASSUME NEW p \in Producers, Accept(p) PROVE PipelineInOrder'
    <3>1. PICK d \in Days :
            LET l == [id |-> Len(accepted) + 1, day |-> d]
            IN  chan' = Append(chan, l) /\ accepted' = Append(accepted, l)
      BY <2>1 DEF Accept
    <3> DEFINE l == [id |-> Len(accepted) + 1, day |-> d]
    <3>2. l \in Line /\ taken \o buf \in Seq(Line)
      BY ConcatProperties DEF Line
    <3>3. (taken \o buf) \o Append(chan, l) = Append(accepted, l)
      BY <3>2, AppendLast
    <3>. QED
      BY <2>1, <3>1, <3>3 DEF Accept, runVars
  <2>2. ASSUME NEW b, TakeBatch(b), b \in Seq(Line),
               accepted' = (taken \o b) \o chan'
        PROVE  PipelineInOrder'
    <3>1. taken' \o buf' = taken'
      BY <2>2, ConcatProperties, ConcatEmpty DEF TakeBatch
    <3>. QED
      BY <2>2, <3>1 DEF TakeBatch
  <2>3. CASE Receive
    <3> DEFINE b == Append(buf, Head(chan))
    <3>1. chan # <<>> /\ chan' = Tail(chan) /\ accepted' = accepted
      BY <2>3 DEF Receive
    <3>2. b \in Seq(Line)
      BY <3>1, HeadTailProperties, AppendProperties
    <3>3. accepted' = (taken \o b) \o chan'
      BY <3>1, MoveHead
    <3>4. CASE TakeBatch(b)
      BY <2>2, <3>2, <3>3, <3>4
    <3>5. CASE buf' = b /\ taken' = taken
      BY <3>3, <3>5
    <3>. QED
      BY <2>3, <3>4, <3>5 DEF Receive
  <2>4. CASE Tick
    BY <2>2, <2>4 DEF Tick
  <2>5. CASE DrainOne
    <3>1. chan # <<>> /\ chan' = Tail(chan) /\ accepted' = accepted
          /\ buf' = Append(buf, Head(chan)) /\ taken' = taken
      BY <2>5 DEF DrainOne
    <3>. QED
      BY <3>1, MoveHead
  <2>6. CASE DrainEnd
    <3>1. CASE TakeBatch(buf)
      BY <2>2, <2>6, <3>1 DEF DrainEnd
    <3>2. CASE UNCHANGED <<buf, taken>>
      BY <2>6, <3>2 DEF DrainEnd
    <3>. QED
      BY <2>6, <3>1, <3>2 DEF DrainEnd
  <2>7. CASE Done \/ Insert
    BY <2>7 DEF Done, Insert, InsertFail, InsertGroup
  <2>8. ASSUME \/ \E p \in Producers : Refuse(p) \/ RecordDrop(p)
               \/ Close \/ CloseReturn \/ TimePasses \/ UNCHANGED vars
        PROVE  PipelineInOrder'
    BY <2>8 DEF Refuse, RecordDrop, Close, CloseReturn, TimePasses, vars,
                runVars
  <2>. QED
    BY <2>1, <2>3, <2>4, <2>5, <2>6, <2>7, <2>8 DEF Next, Enqueue, Run
<1>. QED
  BY <1>1, <1>2, QueueTypes, PTL DEF Spec

-----------------------------------------------------------------------------
(***************************************************************************)
(* What Close drains.  Once the run goroutine has seen q.done, Close has   *)
(* fixed closedAt, and leaving drainChannel with an empty channel means    *)
(* that everything accepted so far is in q.buf or was taken before.        *)
(***************************************************************************)
Draining ==
  /\ runPC \in {"drain", "final", "stopped"} => closer # "open"
  /\ runPC \in {"final", "stopped"} => Len(taken) >= closedAt

LEMMA EmptyChannelDrained ==
  ASSUME QueueTypeOK, PipelineInOrder, chan = <<>>
  PROVE  Len(taken \o buf) >= closedAt
<1>1. taken \o buf \in Seq(Line)
  BY ConcatProperties DEF QueueTypeOK
<1>2. accepted = taken \o buf
  BY <1>1, ConcatEmpty DEF PipelineInOrder
<1>. QED
  BY <1>2, LenProperties DEF QueueTypeOK

LEMMA DrainingInvariant == Spec => []Draining
<1>1. Init => Draining
  BY DEF Init, Draining
<1>2. QueueTypeOK /\ PipelineInOrder /\ Draining /\ [Next]_vars => Draining'
  <2> SUFFICES ASSUME QueueTypeOK, PipelineInOrder, Draining, [Next]_vars
               PROVE  Draining'
    OBVIOUS
  <2> USE DEF Draining
  <2>1. CASE DrainEnd
    <3>1. Len(taken \o buf) >= closedAt /\ UNCHANGED mainVars
      BY <2>1, EmptyChannelDrained DEF DrainEnd, Drained
    <3>2. CASE buf = <<>> /\ UNCHANGED taken
      <4>1. taken \o buf = taken
        BY <3>2, ConcatEmpty DEF QueueTypeOK
      <4>. QED
        BY <2>1, <3>1, <3>2, <4>1 DEF DrainEnd, mainVars
    <3>3. CASE TakeBatch(buf)
      BY <2>1, <3>1, <3>3 DEF DrainEnd, TakeBatch, mainVars
    <3>. QED
      BY <2>1, <3>2, <3>3 DEF DrainEnd
  <2>2. CASE Receive \/ Tick
    BY <2>2 DEF Receive, Tick, mainVars
  <2>3. CASE Done \/ DrainOne
    BY <2>3 DEF Done, DoneClosed, DrainOne, mainVars
  <2>4. CASE Insert
    BY <2>4 DEF Insert, InsertFail, InsertGroup, EndFlush, Flushing, mainVars
  <2>5. CASE Close
    BY <2>5 DEF Close, runVars
  <2>6. CASE CloseReturn
    BY <2>6 DEF CloseReturn, runVars
  <2>7. ASSUME \/ \E p \in Producers : Enqueue(p)
               \/ TimePasses \/ UNCHANGED vars
        PROVE  Draining'
    BY <2>7 DEF Enqueue, Accept, Refuse, RecordDrop, TimePasses, vars,
                runVars, mainVars
  <2>. QED
    BY <2>1, <2>2, <2>3, <2>4, <2>5, <2>6, <2>7 DEF Next, Run
<1>. QED
  BY <1>1, <1>2, QueueTypes, PipelineAlwaysInOrder, PTL DEF Spec

(* Close leaves no line accepted before it in memory, for every capacity,  *)
(* every number of goroutines still calling Enqueue, and every choice of   *)
(* the select.                                                             *)
THEOREM CloseAlwaysDrains == Spec => []CloseDrains
<1>1. Draining => CloseDrains
  BY DEF Draining, CloseDrains
<1>. QED
  BY <1>1, DrainingInvariant, PTL

-----------------------------------------------------------------------------
(***************************************************************************)
(* What run holds outside Close.  A buffer of BATCH_SIZE lines is taken in *)
(* the step that fills it, and nothing is received during a flush, so      *)
(* either q.buf is short of a batch or it is empty and a batch is out.     *)
(***************************************************************************)
ShortBuffer ==
  /\ runPC = "select" => batch = <<>> /\ Len(buf) < Size
  /\ runPC = "insert" => buf = <<>> /\ Len(batch) <= Size

LEMMA ShortBufferInvariant == Spec => []ShortBuffer
<1>1. Init => ShortBuffer
  BY QueueAssumption DEF QueueAssumption, Init, ShortBuffer
<1>2. QueueTypeOK /\ ShortBuffer /\ [Next]_vars => ShortBuffer'
  <2> SUFFICES ASSUME QueueTypeOK, ShortBuffer, [Next]_vars
               PROVE  ShortBuffer'
    OBVIOUS
  <2> USE DEF ShortBuffer
  <2>1. CASE Receive
    <3> DEFINE b == Append(buf, Head(chan))
    <3>1. Len(b) = Len(buf) + 1 /\ Len(buf) \in Nat
      BY <2>1 DEF Receive, QueueTypeOK
    <3>2. CASE TakeBatch(b) /\ runPC' = "insert"
      BY <2>1, <3>1, <3>2, QueueAssumption
      DEF QueueAssumption, Receive, TakeBatch
    <3>3. CASE ~BufferFull(b) /\ buf' = b /\ UNCHANGED <<batch, runPC>>
      BY <2>1, <3>1, <3>3, QueueAssumption
      DEF QueueAssumption, Receive, BufferFull
    <3>. QED
      BY <2>1, <3>2, <3>3 DEF Receive
  <2>2. CASE Tick
    BY <2>2, QueueAssumption
    DEF QueueAssumption, QueueTypeOK, Tick, TakeBatch
  <2>3. CASE Done \/ DrainOne \/ DrainEnd
    BY <2>3 DEF Done, DrainOne, DrainEnd
  <2>4. CASE Insert
    <3>1. Flushing /\ buf' = buf /\ (EndFlush \/ UNCHANGED <<batch, runPC>>)
      BY <2>4 DEF Insert, InsertFail, InsertGroup
    <3>2. CASE UNCHANGED <<batch, runPC>>
      BY <3>1, <3>2
    <3>3. CASE EndFlush /\ runPC = "final"
      BY <3>3 DEF EndFlush
    <3>4. CASE EndFlush /\ runPC = "insert"
      BY <3>1, <3>4, EmptySeq, QueueAssumption
      DEF QueueAssumption, EndFlush
    <3>. QED
      BY <3>1, <3>2, <3>3, <3>4 DEF Flushing
  <2>5. ASSUME \/ \E p \in Producers : Enqueue(p)
               \/ Close \/ CloseReturn \/ TimePasses \/ UNCHANGED vars
        PROVE  ShortBuffer'
    BY <2>5 DEF Enqueue, Accept, Refuse, RecordDrop, Close, CloseReturn,
                TimePasses, vars, runVars
  <2>. QED
    BY <2>1, <2>2, <2>3, <2>4, <2>5 DEF Next, Run
<1>. QED
  BY <1>1, <1>2, QueueTypes, PTL DEF Spec

(* While the queue is open it never holds more than its channel's capacity *)
(* and one batch, for every BATCH_SIZE and any rate of Enqueue.            *)
THEOREM MemoryAlwaysBounded == Spec => []MemoryBounded
<1>1. QueueTypeOK /\ ShortBuffer => MemoryBounded
  BY EmptySeq, QueueAssumption
  DEF QueueAssumption, QueueTypeOK, ShortBuffer, MemoryBounded
<1>. QED
  BY <1>1, QueueTypes, ShortBufferInvariant, PTL

-----------------------------------------------------------------------------
(***************************************************************************)
(* Where the lines are.  A line is identified by its place in the order of *)
(* acceptance, so the lines of a new batch are none of those taken before. *)
(***************************************************************************)
Numbered == \A i \in DOMAIN accepted : accepted[i].id = i
Settled  == ~Flushing => todo = {}

LEMMA NumberedInvariant == Spec => []Numbered
<1>1. Init => Numbered
  BY DEF Init, Numbered
<1>2. QueueTypeOK /\ Numbered /\ [Next]_vars => Numbered'
  <2> SUFFICES ASSUME QueueTypeOK, Numbered, [Next]_vars PROVE Numbered'
    OBVIOUS
  <2>1. ASSUME NEW p \in Producers, Accept(p) PROVE Numbered'
    <3>1. PICK d \in Days :
            accepted' = Append(accepted,
                               [id |-> Len(accepted) + 1, day |-> d])
      BY <2>1 DEF Accept
    <3>. QED
      BY <3>1 DEF Numbered, QueueTypeOK
  <2>2. CASE UNCHANGED accepted
    BY <2>2 DEF Numbered
  <2>3. [Next]_vars => UNCHANGED accepted \/ \E p \in Producers : Accept(p)
    BY DEF Next, Enqueue, Refuse, RecordDrop, Run, Receive, Tick, Done,
           DrainOne, DrainEnd, Insert, InsertFail, InsertGroup, Close,
           CloseReturn, TimePasses, vars
  <2>. QED
    BY <2>1, <2>2, <2>3
<1>. QED
  BY <1>1, <1>2, QueueTypes, PTL DEF Spec

LEMMA ConcatPrefix ==
  ASSUME NEW S, NEW s \in Seq(S), NEW t \in Seq(S)
  PROVE  /\ Len(s \o t) = Len(s) + Len(t)
         /\ \A i \in 1 .. Len(s) : (s \o t)[i] = s[i]
BY SMT

LEMMA BatchIsNew ==
  ASSUME QueueTypeOK, Numbered, NEW b \in Seq(Line), NEW c \in Seq(Line),
         accepted = (taken \o b) \o c
  PROVE  /\ ToSet(taken \o b) = ToSet(taken) \union ToSet(b)
         /\ ToSet(taken) \intersect ToSet(b) = {}
<1> DEFINE P == taken \o b
<1>1. /\ P \in Seq(Line) /\ Len(P) = Len(taken) + Len(b)
      /\ Len(taken) \in Nat /\ Len(b) \in Nat
      /\ DOMAIN taken = 1 .. Len(taken) /\ DOMAIN b = 1 .. Len(b)
      /\ DOMAIN P = 1 .. Len(P)
  BY ConcatProperties, LenProperties DEF QueueTypeOK
<1>2. \A i \in 1 .. Len(taken) : P[i] = taken[i]
  BY SMT DEF QueueTypeOK
<1>3. \A j \in 1 .. Len(b) : P[Len(taken) + j] = b[j]
  BY SMT DEF QueueTypeOK
<1>4. \A i \in 1 .. Len(P) : P[i].id = i
  <2> HIDE DEF P
  <2> SUFFICES ASSUME NEW i \in 1 .. Len(P) PROVE P[i].id = i
    OBVIOUS
  <2>1. accepted = P \o c
    BY DEF P
  <2>2. (P \o c)[i] = P[i] /\ Len(P \o c) = Len(P) + Len(c)
    BY <1>1, ConcatPrefix
  <2>3. i \in DOMAIN accepted
    BY <1>1, <2>1, <2>2, LenProperties DEF QueueTypeOK
  <2>. QED
    BY <2>1, <2>2, <2>3 DEF Numbered
<1> HIDE DEF P
<1>5. \A i \in 1 .. Len(taken) : taken[i].id = i
  BY <1>1, <1>2, <1>4
<1>6. \A j \in 1 .. Len(b) : b[j].id = Len(taken) + j
  <2> TAKE j \in 1 .. Len(b)
  <2>1. Len(taken) + j \in 1 .. Len(P)
    BY <1>1
  <2>2. P[Len(taken) + j].id = Len(taken) + j
    BY <1>4, <2>1
  <2>. QED
    BY <1>3, <2>2
<1>7. ToSet(taken) \intersect ToSet(b) = {}
  <2> SUFFICES ASSUME NEW i \in 1 .. Len(taken), NEW j \in 1 .. Len(b),
                      taken[i] = b[j]
               PROVE  FALSE
    BY <1>1 DEF ToSet
  <2>1. i = Len(taken) + j
    BY <1>5, <1>6
  <2>. QED
    BY <1>1, <2>1
<1>8. ToSet(P) \subseteq ToSet(taken) \union ToSet(b)
  <2> SUFFICES ASSUME NEW i \in 1 .. Len(P)
               PROVE  P[i] \in ToSet(taken) \union ToSet(b)
    BY <1>1 DEF ToSet
  <2>1. CASE i \in 1 .. Len(taken)
    BY <1>1, <1>2, <2>1 DEF ToSet
  <2>2. CASE i \notin 1 .. Len(taken)
    <3>1. i - Len(taken) \in 1 .. Len(b) /\ i = Len(taken) + (i - Len(taken))
      BY <1>1, <2>2
    <3>2. P[i] = b[i - Len(taken)]
      BY <1>3, <3>1
    <3>. QED
      BY <1>1, <3>1, <3>2 DEF ToSet
  <2>. QED
    BY <2>1, <2>2
<1>9. ToSet(taken) \subseteq ToSet(P)
  <2> SUFFICES ASSUME NEW i \in 1 .. Len(taken) PROVE taken[i] \in ToSet(P)
    BY <1>1 DEF ToSet
  <2>1. i \in 1 .. Len(P)
    BY <1>1
  <2>. QED
    BY <1>1, <1>2, <2>1 DEF ToSet
<1>10. ToSet(b) \subseteq ToSet(P)
  <2> SUFFICES ASSUME NEW j \in 1 .. Len(b) PROVE b[j] \in ToSet(P)
    BY <1>1 DEF ToSet
  <2>1. Len(taken) + j \in 1 .. Len(P)
    BY <1>1
  <2>. QED
    BY <1>1, <1>3, <2>1 DEF ToSet
<1>. QED
  BY <1>7, <1>8, <1>9, <1>10 DEF P

LEMMA LinesOfAll ==
  ASSUME NEW s \in Seq(Line)
  PROVE  LinesOf(s, DaysOf(s)) = ToSet(s)
BY DEF LinesOf, DaysOf, ToSet

LEMMA TakenInvariant == Spec => [](TakenOnce /\ Settled)
<1> DEFINE Inv == TakenOnce /\ Settled
<1>1. Init => Inv
  BY DEF Init, TakenOnce, Settled, Pending, LinesOf, ToSet
<1>2. /\ QueueTypeOK /\ PipelineInOrder /\ PipelineInOrder' /\ Numbered
      /\ QueueTypeOK' /\ Inv /\ [Next]_vars
      => Inv'
  <2> SUFFICES ASSUME QueueTypeOK, PipelineInOrder, PipelineInOrder', Numbered,
                      QueueTypeOK', Inv, [Next]_vars
               PROVE  Inv'
    OBVIOUS
  <2>1. ASSUME NEW b \in Seq(Line), TakeBatch(b), ~Flushing,
               runPC' \in {"insert", "final"},
               UNCHANGED <<accepted, stored, lost>>
        PROVE  Inv'
    <3>1. accepted = (taken \o b) \o chan'
      <4>1. taken' = taken \o b /\ buf' = <<>> /\ taken \o b \in Seq(Line)
        BY <2>1, ConcatProperties DEF TakeBatch, QueueTypeOK
      <4>2. (taken \o b) \o <<>> = taken \o b
        BY <4>1, ConcatEmpty
      <4>. QED
        BY <2>1, <4>1, <4>2 DEF PipelineInOrder
    <3>2. chan' \in Seq(Line)
      BY DEF QueueTypeOK
    <3>3. /\ ToSet(taken') = ToSet(taken) \union ToSet(b)
          /\ ToSet(taken) \intersect ToSet(b) = {}
      BY <2>1, <3>1, <3>2, BatchIsNew DEF TakeBatch
    <3>4. Pending' = ToSet(b)
      BY <2>1, LinesOfAll DEF TakeBatch, Pending
    <3>5. Pending = {}
      BY <2>1 DEF Settled, Pending, LinesOf
    <3>6. TakenOnce'
      BY <2>1, <3>3, <3>4, <3>5 DEF TakenOnce
    <3>. QED
      BY <2>1, <3>6 DEF Settled, Flushing
  <2>2. CASE Receive
    <3> DEFINE b == Append(buf, Head(chan))
    <3>1. chan # <<>> /\ ~Flushing /\ UNCHANGED <<accepted, stored, lost>>
      BY <2>2 DEF Receive, Flushing
    <3>2. b \in Seq(Line)
      BY <3>1, HeadTailProperties, AppendProperties DEF QueueTypeOK
    <3>3. CASE TakeBatch(b) /\ runPC' = "insert"
      BY <2>1, <3>1, <3>2, <3>3
    <3>4. CASE UNCHANGED <<batch, todo, runPC, taken>>
      BY <3>1, <3>4 DEF TakenOnce, Settled, Pending, Flushing
    <3>. QED
      BY <2>2, <3>3, <3>4 DEF Receive
  <2>3. CASE Tick
    BY <2>1, <2>3 DEF Tick, Flushing, QueueTypeOK
  <2>4. CASE DrainEnd
    <3>1. ~Flushing /\ UNCHANGED <<accepted, stored, lost>>
      BY <2>4 DEF DrainEnd, Flushing
    <3>2. CASE TakeBatch(buf) /\ runPC' = "final"
      BY <2>1, <3>1, <3>2 DEF QueueTypeOK
    <3>3. CASE UNCHANGED <<batch, todo, taken>>
      BY <3>1, <3>3 DEF TakenOnce, Settled, Pending, Flushing
    <3>. QED
      BY <2>4, <3>2, <3>3 DEF DrainEnd
  <2>5. CASE InsertFail
    <3>1. /\ lost' = lost \union Pending /\ Pending' = {}
          /\ UNCHANGED <<taken, stored>> /\ todo' = {}
      BY <2>5 DEF InsertFail, Pending, EndFlush, LinesOf
    <3>. QED
      BY <3>1 DEF TakenOnce, Settled
  <2>6. ASSUME NEW d \in Days, InsertGroup(d) PROVE Inv'
    <3> DEFINE G == LinesOf(batch, {d})
    <3>1. /\ stored' = stored \union G
          /\ todo' = todo \ {d} /\ d \in todo
          /\ UNCHANGED <<taken, lost>>
      BY <2>6 DEF InsertGroup
    <3>2. /\ Pending = G \union LinesOf(batch, todo')
          /\ G \intersect LinesOf(batch, todo') = {}
      BY <3>1 DEF Pending, LinesOf
    <3>3. Pending' = LinesOf(batch, todo')
      <4>1. CASE UNCHANGED batch
        BY <4>1 DEF Pending
      <4>2. CASE todo' = {}
        BY <4>2 DEF Pending, LinesOf
      <4>. QED
        BY <2>6, <4>1, <4>2 DEF InsertGroup
    <3>4. TakenOnce'
      BY <3>1, <3>2, <3>3 DEF TakenOnce
    <3>5. Settled'
      BY <2>6 DEF InsertGroup, EndFlush, Settled, Flushing
    <3>. QED
      BY <3>4, <3>5
  <2>7. CASE Done \/ DrainOne
    BY <2>7 DEF Done, DrainOne, TakenOnce, Settled, Pending, Flushing
  <2>8. ASSUME \/ \E p \in Producers : Enqueue(p)
               \/ Close \/ CloseReturn \/ TimePasses \/ UNCHANGED vars
        PROVE  Inv'
    BY <2>8 DEF Enqueue, Accept, Refuse, RecordDrop, Close, CloseReturn,
                TimePasses, vars, runVars, TakenOnce, Settled, Pending,
                Flushing
  <2>. QED
    BY <2>2, <2>3, <2>4, <2>5, <2>6, <2>7, <2>8 DEF Next, Run, Insert
<1>. QED
  BY <1>1, <1>2, QueueTypes, PipelineAlwaysInOrder, NumberedInvariant, PTL
  DEF Spec

(* A line a flush has taken is stored, lost with a failed batch or still   *)
(* being inserted, and never two of these, for every number of dates in a  *)
(* batch and every point at which InsertBatch gives up.                    *)
THEOREM TakenAlwaysOnce == Spec => []TakenOnce
BY TakenInvariant, PTL

-----------------------------------------------------------------------------
(***************************************************************************)
(* What Close promises to a caller that has stopped every producer first.  *)
(***************************************************************************)
StoppedStoresAll ==
  runPC = "stopped" /\ Len(accepted) = closedAt
    => ToSet(accepted) = stored \union lost

LEMMA NothingLeft ==
  ASSUME QueueTypeOK, PipelineInOrder, Len(taken) >= Len(accepted)
  PROVE  accepted = taken
<1> DEFINE head == taken \o buf
<1>1. /\ head \in Seq(Line) /\ Len(head) = Len(taken) + Len(buf)
      /\ Len(taken) \in Nat /\ Len(buf) \in Nat /\ Len(chan) \in Nat
  BY ConcatProperties, LenProperties DEF QueueTypeOK
<1>2. Len(head \o chan) = Len(head) + Len(chan)
  <2> HIDE DEF head
  <2>. QED
    BY <1>1, ConcatProperties DEF QueueTypeOK
<1>3. Len(buf) = 0 /\ Len(chan) = 0
  BY <1>1, <1>2 DEF PipelineInOrder
<1>4. buf = <<>> /\ chan = <<>>
  BY <1>3, EmptySeq DEF QueueTypeOK
<1>5. head = taken
  BY <1>4, ConcatEmpty DEF QueueTypeOK
<1>6. head \o chan = head
  <2> HIDE DEF head
  <2>. QED
    BY <1>1, <1>4, ConcatEmpty
<1>. QED
  BY <1>5, <1>6 DEF PipelineInOrder

(* When nothing is accepted after Close is called, the queue that has      *)
(* stopped has stored every line it ever accepted, but for those of a      *)
(* flush that failed: none is left in the channel or in q.buf.             *)
THEOREM StoppedAlwaysStoresAll == Spec => []StoppedStoresAll
<1>1. /\ QueueTypeOK /\ PipelineInOrder /\ CloseDrains
      /\ TakenOnce /\ Settled
      => StoppedStoresAll
  <2> SUFFICES ASSUME QueueTypeOK, PipelineInOrder, CloseDrains, TakenOnce,
                      Settled, runPC = "stopped", Len(accepted) = closedAt
               PROVE  ToSet(accepted) = stored \union lost
    BY DEF StoppedStoresAll
  <2>1. accepted = taken
    BY NothingLeft DEF CloseDrains
  <2>2. Pending = {}
    BY DEF Settled, Flushing, Pending, LinesOf
  <2>. QED
    BY <2>1, <2>2 DEF TakenOnce
<1>. QED
  BY <1>1, QueueTypes, PipelineAlwaysInOrder, CloseAlwaysDrains,
     TakenInvariant, PTL

-----------------------------------------------------------------------------
(***************************************************************************)
(* The queue implements the ledger: the initial states map to the initial  *)
(* state, and each step maps to a step of the ledger or a stutter.         *)
(*                                                                         *)
(* First, the elements of the sequences through which a line passes.       *)
(***************************************************************************)
LEMMA AppendSet ==
  ASSUME NEW S, NEW s \in Seq(S), NEW e \in S
  PROVE  ToSet(Append(s, e)) = ToSet(s) \union {e}
<1>1. /\ Len(s) \in Nat /\ DOMAIN s = 1 .. Len(s)
      /\ DOMAIN Append(s, e) = 1 .. Len(s) + 1
      /\ Append(s, e)[Len(s) + 1] = e
  BY SMT
<1>2. \A i \in 1 .. Len(s) : Append(s, e)[i] = s[i]
  BY SMT
<1>3. \A i \in 1 .. Len(s) + 1 : i \in 1 .. Len(s) \/ i = Len(s) + 1
  BY <1>1
<1>. QED
  BY <1>1, <1>2, <1>3 DEF ToSet

LEMMA HeadTailSet ==
  ASSUME NEW S, NEW s \in Seq(S), s # <<>>
  PROVE  ToSet(s) = {Head(s)} \union ToSet(Tail(s))
<1>1. /\ Len(s) \in Nat \ {0} /\ Head(s) = s[1] /\ DOMAIN s = 1 .. Len(s)
      /\ DOMAIN Tail(s) = 1 .. Len(s) - 1
  BY SMT
<1>2. \A i \in 1 .. Len(s) - 1 : Tail(s)[i] = s[i + 1]
  BY SMT
<1>3. \A i \in 1 .. Len(s) : i = 1 \/ (i - 1 \in 1 .. Len(s) - 1
                                       /\ i = (i - 1) + 1)
  BY <1>1
<1>4. \A i \in 1 .. Len(s) - 1 : i + 1 \in 1 .. Len(s)
  BY <1>1
<1>5. ToSet(s) \subseteq {Head(s)} \union ToSet(Tail(s))
  <2> SUFFICES ASSUME NEW i \in 1 .. Len(s)
               PROVE  s[i] \in {Head(s)} \union ToSet(Tail(s))
    BY <1>1 DEF ToSet
  <2>1. CASE i = 1
    BY <1>1, <2>1
  <2>2. CASE i - 1 \in 1 .. Len(s) - 1 /\ i = (i - 1) + 1
    <3>1. s[i] = Tail(s)[i - 1]
      BY <1>2, <2>2
    <3>. QED
      BY <1>1, <2>2, <3>1 DEF ToSet
  <2>. QED
    BY <1>3, <2>1, <2>2
<1>6. {Head(s)} \union ToSet(Tail(s)) \subseteq ToSet(s)
  BY <1>1, <1>2, <1>4 DEF ToSet
<1>. QED
  BY <1>5, <1>6

LEMMA JoinElements ==
  ASSUME NEW S, NEW s \in Seq(S), NEW t \in Seq(S)
  PROVE  /\ Len(s \o t) = Len(s) + Len(t)
         /\ \A i \in 1 .. Len(s) : (s \o t)[i] = s[i]
         /\ \A j \in 1 .. Len(t) : (s \o t)[Len(s) + j] = t[j]
BY SMT

(***************************************************************************)
(* A line's number tells where it is: the lines taken by a flush are       *)
(* numbered up to Len(taken), those in q.buf and the channel beyond.       *)
(***************************************************************************)
LEMMA NumbersTell ==
  ASSUME QueueTypeOK, PipelineInOrder, Numbered
  PROVE  /\ \A l \in ToSet(taken) : l \in Line /\ l.id \in 1 .. Len(taken)
         /\ \A l \in ToSet(buf) \union ToSet(chan) :
              l \in Line /\ l.id \in Len(taken) + 1 .. Len(accepted)
         /\ Len(taken) \in 0 .. Len(accepted)
<1> DEFINE P == taken \o buf
<1>1. /\ taken \in Seq(Line) /\ buf \in Seq(Line) /\ chan \in Seq(Line)
      /\ accepted \in Seq(Line) /\ P \in Seq(Line)
  BY ConcatProperties DEF QueueTypeOK
<1>2. /\ Len(taken) \in Nat /\ Len(buf) \in Nat /\ Len(chan) \in Nat
      /\ DOMAIN taken = 1 .. Len(taken) /\ DOMAIN buf = 1 .. Len(buf)
      /\ DOMAIN chan = 1 .. Len(chan)
      /\ DOMAIN accepted = 1 .. Len(accepted)
  BY <1>1, LenProperties
<1>3. Len(P) = Len(taken) + Len(buf)
  BY <1>1, JoinElements
<1>4. \A i \in 1 .. Len(taken) : P[i] = taken[i]
  BY <1>1, JoinElements
<1>5. \A j \in 1 .. Len(buf) : P[Len(taken) + j] = buf[j]
  BY <1>1, JoinElements
<1> HIDE DEF P
<1>6. accepted = P \o chan
  BY DEF PipelineInOrder, P
<1>7. /\ Len(accepted) = Len(P) + Len(chan)
      /\ \A i \in 1 .. Len(P) : accepted[i] = P[i]
      /\ \A k \in 1 .. Len(chan) : accepted[Len(P) + k] = chan[k]
  BY <1>1, <1>6, JoinElements
<1>8. \A i \in 1 .. Len(taken) : taken[i] \in Line /\ taken[i].id = i
  <2> SUFFICES ASSUME NEW i \in 1 .. Len(taken)
               PROVE  taken[i] \in Line /\ taken[i].id = i
    OBVIOUS
  <2>1. i \in 1 .. Len(P) /\ i \in DOMAIN accepted
    BY <1>2, <1>3, <1>7
  <2>2. accepted[i] = taken[i]
    BY <1>4, <1>7, <2>1
  <2>. QED
    BY <1>1, <2>1, <2>2 DEF Numbered
<1>9. \A j \in 1 .. Len(buf) : buf[j] \in Line /\ buf[j].id = Len(taken) + j
  <2> SUFFICES ASSUME NEW j \in 1 .. Len(buf)
               PROVE  buf[j] \in Line /\ buf[j].id = Len(taken) + j
    OBVIOUS
  <2>1. Len(taken) + j \in 1 .. Len(P) /\ Len(taken) + j \in DOMAIN accepted
    BY <1>2, <1>3, <1>7
  <2>2. accepted[Len(taken) + j] = buf[j]
    BY <1>5, <1>7, <2>1
  <2>. QED
    BY <1>1, <2>1, <2>2 DEF Numbered
<1>10. \A k \in 1 .. Len(chan) : chan[k] \in Line /\ chan[k].id = Len(P) + k
  <2> SUFFICES ASSUME NEW k \in 1 .. Len(chan)
               PROVE  chan[k] \in Line /\ chan[k].id = Len(P) + k
    OBVIOUS
  <2>1. Len(P) + k \in DOMAIN accepted
    BY <1>2, <1>3, <1>7
  <2>2. accepted[Len(P) + k] = chan[k]
    BY <1>7
  <2>. QED
    BY <1>1, <2>1, <2>2 DEF Numbered
<1>11. \A l \in ToSet(taken) : l \in Line /\ l.id \in 1 .. Len(taken)
  BY <1>2, <1>8 DEF ToSet
<1>12. \A l \in ToSet(buf) :
         l \in Line /\ l.id \in Len(taken) + 1 .. Len(accepted)
  BY <1>2, <1>3, <1>7, <1>9 DEF ToSet
<1>13. \A l \in ToSet(chan) :
         l \in Line /\ l.id \in Len(taken) + 1 .. Len(accepted)
  BY <1>2, <1>3, <1>7, <1>10 DEF ToSet
<1>. QED
  BY <1>2, <1>3, <1>7, <1>11, <1>12, <1>13

LEMMA PendingTaken ==
  ASSUME QueueTypeOK, PipelineInOrder, Numbered, TakenOnce
  PROVE  /\ \A l \in Pending \union stored \union lost :
              l \in Line /\ l.id \in 1 .. Len(taken)
         /\ Pending \intersect (ToSet(buf) \union ToSet(chan)) = {}
<1>1. \A l \in Pending \union stored \union lost :
        l \in Line /\ l.id \in 1 .. Len(taken)
  BY NumbersTell DEF TakenOnce
<1>2. \A l \in ToSet(buf) \union ToSet(chan) : l.id \notin 1 .. Len(taken)
  BY NumbersTell
<1>. QED
  BY <1>1, <1>2

-----------------------------------------------------------------------------
(***************************************************************************)
(* The steps of the ledger.                                                *)
(***************************************************************************)
QueueInv == QueueTypeOK /\ PipelineInOrder /\ Numbered /\ TakenOnce /\ Settled

\* a line moves on inside the queue
LEMMA Stutter ==
  ASSUME InMemory' = InMemory, UNCHANGED <<stored, lost>>
  PROVE  UNCHANGED Ledger!vars
BY DEF Ledger!vars

LEMMA AcceptStep ==
  ASSUME QueueInv, NEW p \in Producers, Accept(p)
  PROVE  Ledger!Accept
<1>1. PICK d \in Days :
        LET l == [id |-> Len(accepted) + 1, day |-> d]
        IN  chan' = Append(chan, l)
  BY DEF Accept
<1> DEFINE l == [id |-> Len(accepted) + 1, day |-> d]
<1>2. UNCHANGED <<stored, lost, batch, todo, buf>>
  BY DEF Accept, runVars
<1>3. l \in Line /\ chan \in Seq(Line) /\ Len(accepted) \in Nat
  BY DEF QueueInv, QueueTypeOK, Line
<1>4. ToSet(chan') = ToSet(chan) \union {l}
  BY <1>1, <1>3, AppendSet
<1>5. InMemory' = InMemory \union {l}
  BY <1>2, <1>4 DEF InMemory, Pending
<1>6. \A m \in InMemory \union stored \union lost : m.id < l.id
  <2>1. \A m \in Pending \union stored \union lost :
          m.id \in 1 .. Len(taken)
    BY PendingTaken DEF QueueInv
  <2>2. /\ \A m \in ToSet(buf) \union ToSet(chan) :
             m.id \in Len(taken) + 1 .. Len(accepted)
        /\ Len(taken) \in 0 .. Len(accepted)
    BY NumbersTell DEF QueueInv
  <2>. QED
    BY <1>3, <2>1, <2>2 DEF InMemory
<1>7. l \notin InMemory
  BY <1>3, <1>6
<1>. QED
  BY <1>2, <1>3, <1>5, <1>6, <1>7 DEF Ledger!Accept, Ledger!Line, Line

LEMMA ReceiveStep ==
  ASSUME QueueInv, Receive
  PROVE  InMemory' = InMemory /\ UNCHANGED <<stored, lost>>
<1> DEFINE b == Append(buf, Head(chan))
<1>1. /\ chan \in Seq(Line) /\ buf \in Seq(Line) /\ chan # <<>>
      /\ chan' = Tail(chan) /\ UNCHANGED <<stored, lost>>
  BY DEF Receive, QueueInv, QueueTypeOK
<1>2. Head(chan) \in Line /\ b \in Seq(Line)
  BY <1>1, HeadTailProperties, AppendProperties
<1>3. /\ ToSet(b) = ToSet(buf) \union {Head(chan)}
      /\ ToSet(chan) = {Head(chan)} \union ToSet(chan')
  BY <1>1, <1>2, AppendSet, HeadTailSet
<1>4. Pending = {}
  BY DEF Receive, QueueInv, Settled, Flushing, Pending, LinesOf
<1>5. CASE TakeBatch(b)
  <2>. HIDE DEF b
  <2>1. LinesOf(b, DaysOf(b)) = ToSet(b)
    BY <1>2, LinesOfAll
  <2>2. Pending' = ToSet(b)
    BY <1>5, <2>1 DEF TakeBatch, Pending
  <2>3. ToSet(buf') = {}
    BY <1>5 DEF TakeBatch, ToSet
  <2>. QED
    BY <1>1, <1>3, <1>4, <2>2, <2>3 DEF InMemory
<1>6. CASE buf' = b /\ UNCHANGED <<batch, todo>>
  <2>1. Pending' = Pending
    BY <1>6 DEF Pending
  <2>. QED
    BY <1>1, <1>3, <1>6, <2>1 DEF InMemory
<1>. QED
  BY <1>5, <1>6 DEF Receive

LEMMA FlushStep ==
  ASSUME QueueInv, ~Flushing, TakeBatch(buf), UNCHANGED chan
  PROVE  InMemory' = InMemory
<1>1. buf \in Seq(Line)
  BY DEF QueueInv, QueueTypeOK
<1>2. Pending = {}
  BY DEF QueueInv, Settled, Pending, LinesOf
<1>3. Pending' = ToSet(buf) /\ ToSet(buf') = {}
  BY <1>1, LinesOfAll DEF TakeBatch, Pending, ToSet
<1>. QED
  BY <1>2, <1>3 DEF InMemory

LEMMA DrainStep ==
  ASSUME QueueInv, DrainOne
  PROVE  InMemory' = InMemory /\ UNCHANGED <<stored, lost>>
<1>1. /\ chan \in Seq(Line) /\ buf \in Seq(Line) /\ chan # <<>>
      /\ chan' = Tail(chan) /\ buf' = Append(buf, Head(chan))
      /\ UNCHANGED <<stored, lost, batch, todo>>
  BY DEF DrainOne, QueueInv, QueueTypeOK
<1>2. Head(chan) \in Line
  BY <1>1, HeadTailProperties
<1>3. /\ ToSet(buf') = ToSet(buf) \union {Head(chan)}
      /\ ToSet(chan) = {Head(chan)} \union ToSet(chan')
  BY <1>1, <1>2, AppendSet, HeadTailSet
<1>. QED
  BY <1>1, <1>3 DEF InMemory, Pending

LEMMA CommitStep ==
  ASSUME QueueInv, NEW d \in Days, InsertGroup(d)
  PROVE  Ledger!Commit(d)
<1> DEFINE S == LinesOf(batch, {d})
           Waiting == ToSet(buf) \union ToSet(chan)
<1>1. /\ d \in todo /\ todo' = todo \ {d}
      /\ stored' = stored \union S
      /\ UNCHANGED <<lost, buf, chan>>
  BY DEF InsertGroup
<1>2. Pending' = Pending \ S /\ S \subseteq Pending
  <2>1. Pending \ S = LinesOf(batch, todo')
    BY <1>1 DEF Pending, LinesOf
  <2>2. CASE UNCHANGED batch
    BY <1>1, <2>1, <2>2 DEF Pending, LinesOf
  <2>3. CASE todo' = {}
    BY <1>1, <2>1, <2>3 DEF Pending, LinesOf
  <2>. QED
    BY <2>2, <2>3 DEF InsertGroup
<1>3. Pending \intersect Waiting = {}
  BY PendingTaken DEF QueueInv
<1>4. InMemory' = InMemory \ S /\ S \in SUBSET InMemory
  BY <1>1, <1>2, <1>3 DEF InMemory
<1>5. \A l \in S, m \in InMemory \ S : m.day = d => l.id < m.id
  <2> SUFFICES ASSUME NEW l \in S, NEW m \in InMemory \ S, m.day = d
               PROVE  l.id < m.id
    OBVIOUS
  <2>1. m \notin Pending
    BY DEF Pending, LinesOf
  <2>2. m \in Waiting
    BY <2>1 DEF InMemory
  <2>3. l.id \in 1 .. Len(taken)
    BY <1>2, PendingTaken DEF QueueInv
  <2>4. /\ m.id \in Len(taken) + 1 .. Len(accepted)
        /\ Len(taken) \in 0 .. Len(accepted) /\ Len(accepted) \in Nat
    BY <2>2, NumbersTell DEF QueueInv, QueueTypeOK
  <2>. QED
    BY <2>3, <2>4
<1>6. \A l \in S : l.day = d
  BY DEF LinesOf
<1>. QED
  BY <1>1, <1>4, <1>5, <1>6 DEF Ledger!Commit, Ledger!OldestOfDay

LEMMA LoseStep ==
  ASSUME QueueInv, InsertFail
  PROVE  Ledger!Lose
<1>1. /\ lost' = lost \union Pending /\ todo' = {}
      /\ UNCHANGED <<stored, buf, chan>>
  BY DEF InsertFail, Pending
<1>2. Pending' = {}
  BY <1>1 DEF Pending, LinesOf
<1>3. Pending \intersect (ToSet(buf) \union ToSet(chan)) = {}
  BY PendingTaken DEF QueueInv
<1>4. InMemory' = InMemory \ Pending /\ Pending \in SUBSET InMemory
  BY <1>1, <1>2, <1>3 DEF InMemory
<1>. QED
  BY <1>1, <1>4 DEF Ledger!Lose

LEMMA QueueInvariant == Spec => []QueueInv
BY QueueTypes, PipelineAlwaysInOrder, NumberedInvariant, TakenInvariant, PTL
DEF QueueInv

(* The queue implements the ledger: an accepted line moves exactly once,   *)
(* to its day's shard or to the lines of a failed flush, and each shard    *)
(* gets the lines of its day oldest first.                                 *)
THEOREM QueueImplementsLedger == Spec => ImplementsLedger
<1>1. Init => Ledger!Init
  BY DEF Init, Ledger!Init, InMemory, Pending, LinesOf, ToSet
<1>2. QueueInv /\ [Next]_vars => [Ledger!Next]_(Ledger!vars)
  <2> SUFFICES ASSUME QueueInv, [Next]_vars
               PROVE  Ledger!Next \/ UNCHANGED Ledger!vars
    OBVIOUS
  <2>1. ASSUME NEW p \in Producers, Accept(p)
        PROVE  Ledger!Next
    BY <2>1, AcceptStep DEF Ledger!Next
  <2>2. ASSUME NEW p \in Producers, Refuse(p) \/ RecordDrop(p)
        PROVE  UNCHANGED Ledger!vars
    BY <2>2, Stutter DEF Refuse, RecordDrop, runVars, InMemory, Pending
  <2>3. CASE Receive \/ DrainOne
    BY <2>3, ReceiveStep, DrainStep, Stutter
  <2>4. CASE Tick
    BY <2>4, FlushStep, Stutter DEF Tick, Flushing
  <2>5. CASE DrainEnd
    <3>1. ~Flushing /\ UNCHANGED <<chan, stored, lost>>
      BY <2>5 DEF DrainEnd, Flushing
    <3>2. CASE TakeBatch(buf)
      BY <3>1, <3>2, FlushStep, Stutter
    <3>3. CASE UNCHANGED <<buf, batch, todo>>
      BY <3>1, <3>3, Stutter DEF InMemory, Pending
    <3>. QED
      BY <2>5, <3>2, <3>3 DEF DrainEnd
  <2>6. CASE Done \/ Close \/ CloseReturn \/ TimePasses \/ UNCHANGED vars
    BY <2>6, Stutter
    DEF Done, Close, CloseReturn, TimePasses, vars, runVars, InMemory, Pending
  <2>7. CASE Insert
    BY <2>7, CommitStep, LoseStep DEF Insert, Ledger!Next
  <2>. QED
    BY <2>1, <2>2, <2>3, <2>4, <2>5, <2>6, <2>7 DEF Next, Enqueue, Run
<1>. QED
  BY <1>1, <1>2, QueueInvariant, PTL DEF Spec, ImplementsLedger, Ledger!Spec
=============================================================================
