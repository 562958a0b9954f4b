---------------------------- MODULE GrepodProofs ----------------------------
(***************************************************************************)
(* Theorems about the process for every number of tailers and of HTTP      *)
(* clients, every batch size and capacity: what waitForShutdown and the    *)
(* order of main's deferred calls guarantee.                               *)
(***************************************************************************)
EXTENDS Grepod, FiniteSetTheorems, TLAPS

QueueProofs == INSTANCE BatchQueueProofs

(***************************************************************************)
(* The queue inside the process.  A step of the process is a step of       *)
(* BatchQueue or leaves its variables alone.  QueueProofs has definitions  *)
(* of its own of the queue's steps, which are those of Queue.              *)
(***************************************************************************)
LEMMA ProducerSteps ==
  ASSUME NEW p \in Producers
  PROVE  /\ Queue!Accept(p) => QueueProofs!Accept(p)
         /\ Queue!Refuse(p) => QueueProofs!Refuse(p)
         /\ Queue!RecordDrop(p) => QueueProofs!RecordDrop(p)
<1> USE DEF Queue!runVars, QueueProofs!runVars, Queue!mainVars,
            QueueProofs!mainVars, Queue!dropVars, QueueProofs!dropVars,
            Queue!HasRoom, QueueProofs!HasRoom, Queue!Cap, QueueProofs!Cap
<1>1. Queue!Accept(p) => QueueProofs!Accept(p)
  BY DEF Queue!Accept, QueueProofs!Accept
<1>2. Queue!Refuse(p) => QueueProofs!Refuse(p)
  BY DEF Queue!Refuse, QueueProofs!Refuse, Queue!Drop!Begin,
         QueueProofs!Drop!Begin
<1>3. Queue!Drop!Continue(p) => QueueProofs!Drop!Continue(p)
  BY Zenon DEF
    Queue!Drop!Continue, Queue!Drop!ReadClock, Queue!Drop!Load,
    Queue!Drop!CompareAndSwap, Queue!Drop!SwapAndWarn, Queue!Drop!Return,
    Queue!Drop!WithinWindow, Queue!Drop!Swappable, Queue!Drop!AfterWarning,
    QueueProofs!Drop!Continue, QueueProofs!Drop!ReadClock,
    QueueProofs!Drop!Load, QueueProofs!Drop!CompareAndSwap,
    QueueProofs!Drop!SwapAndWarn, QueueProofs!Drop!Return,
    QueueProofs!Drop!WithinWindow, QueueProofs!Drop!Swappable,
    QueueProofs!Drop!AfterWarning
<1>4. Queue!RecordDrop(p) => QueueProofs!RecordDrop(p)
  BY <1>3 DEF Queue!RecordDrop, QueueProofs!RecordDrop
<1>. QED
  BY <1>1, <1>2, <1>4

LEMMA QueueSteps ==
  /\ Queue!Receive => QueueProofs!Receive
  /\ Queue!Tick => QueueProofs!Tick
  /\ Queue!Done => QueueProofs!Done
  /\ Queue!DrainOne => QueueProofs!DrainOne
  /\ Queue!DrainEnd => QueueProofs!DrainEnd
  /\ Queue!Insert => QueueProofs!Insert
  /\ Queue!Close => QueueProofs!Close
  /\ Queue!CloseReturn => QueueProofs!CloseReturn
  /\ Queue!TimePasses => QueueProofs!TimePasses
<1> USE DEF Queue!runVars, QueueProofs!runVars, Queue!mainVars,
            QueueProofs!mainVars, Queue!dropVars, QueueProofs!dropVars
<1>1. \A b : Queue!TakeBatch(b) <=> QueueProofs!TakeBatch(b)
  BY DEF Queue!TakeBatch, QueueProofs!TakeBatch, Queue!DaysOf,
         QueueProofs!DaysOf
<1>2. Queue!Receive => QueueProofs!Receive
  BY <1>1, Zenon DEF Queue!Receive, QueueProofs!Receive, Queue!BufferFull,
         QueueProofs!BufferFull
<1>3. Queue!Tick => QueueProofs!Tick
  BY <1>1 DEF Queue!Tick, QueueProofs!Tick, Queue!TickFlushes,
         QueueProofs!TickFlushes
<1>4. Queue!Done => QueueProofs!Done
  BY DEF Queue!Done, QueueProofs!Done, Queue!DoneClosed,
         QueueProofs!DoneClosed
<1>5. Queue!DrainOne => QueueProofs!DrainOne
  BY DEF Queue!DrainOne, QueueProofs!DrainOne
<1>6. Queue!DrainEnd => QueueProofs!DrainEnd
  BY <1>1 DEF Queue!DrainEnd, QueueProofs!DrainEnd, Queue!Drained,
         QueueProofs!Drained
<1>7. Queue!Insert => QueueProofs!Insert
  BY Zenon DEF Queue!Insert, QueueProofs!Insert, Queue!InsertFail,
         QueueProofs!InsertFail, Queue!InsertGroup, QueueProofs!InsertGroup,
         Queue!EndFlush, QueueProofs!EndFlush, Queue!Flushing,
         QueueProofs!Flushing, Queue!LinesOf, QueueProofs!LinesOf
<1>8. Queue!Close => QueueProofs!Close
  BY DEF Queue!Close, QueueProofs!Close
<1>9. Queue!CloseReturn => QueueProofs!CloseReturn
  BY DEF Queue!CloseReturn, QueueProofs!CloseReturn
<1>10. Queue!TimePasses => QueueProofs!TimePasses
  BY DEF Queue!TimePasses, QueueProofs!TimePasses, Queue!Drop!Tick,
         QueueProofs!Drop!Tick
<1>. QED
  BY <1>2, <1>3, <1>4, <1>5, <1>6, <1>7, <1>8, <1>9, <1>10

LEMMA StepOfQueue ==
  ASSUME [Next]_vars
  PROVE  \/ \E p \in Producers : \/ Queue!Accept(p) \/ Queue!Refuse(p)
                                 \/ Queue!RecordDrop(p)
         \/ Queue!Receive \/ Queue!Tick \/ Queue!Done
         \/ Queue!DrainOne \/ Queue!DrainEnd \/ Queue!Insert
         \/ Queue!Close \/ Queue!CloseReturn \/ Queue!TimePasses
         \/ UNCHANGED queueVars
<1>1. CASE Startup \/ Signal
  BY <1>1 DEF Startup, StartManager, StartServer, Abort, Bind, Signal,
              OnlyMain
<1>2. CASE Stopping
  BY <1>2 DEF Stopping, Shutdown, ShutdownReturns, Join, CloseQueue,
              CloseQueueReturns, CloseStore, OnlyMain
<1>3. ASSUME NEW p \in Producers, Enqueue(p) \/ Tailer(p)
      PROVE  \/ Queue!Accept(p) \/ Queue!Refuse(p) \/ Queue!RecordDrop(p)
             \/ UNCHANGED queueVars
  BY <1>3 DEF Enqueue, Tailer, RecordDrop, Publish
<1>4. CASE \/ Receive \/ Tick \/ Done \/ Drain \/ Insert \/ TimePasses
  BY <1>4 DEF Receive, Tick, Done, Drain, Insert, TimePasses, QueueStep
<1>5. CASE ManagerReturns \/ \E c \in Clients : Connect(c) \/ RequestEnds(c)
  BY <1>5 DEF ManagerReturns, Connect, RequestEnds
<1>6. CASE UNCHANGED vars
  BY <1>6 DEF vars
<1>. QED
  BY <1>1, <1>2, <1>3, <1>4, <1>5, <1>6 DEF Next

(* The queue that main composes is the queue: whatever main, the manager,  *)
(* the clients and a signal do, it takes steps of BatchQueue only.         *)
THEOREM ImplementsQueue == Spec => Queue!Spec
<1>1. Init => Queue!Init
  BY DEF Init
<1>2. [Next]_vars => [Queue!Next]_(Queue!vars)
  BY StepOfQueue
  DEF queueVars, Queue!vars, Queue!runVars, Queue!mainVars, Queue!dropVars,
      Queue!Next, Queue!Enqueue, Queue!Run
<1>. QED
  BY <1>1, <1>2, PTL DEF Spec, Queue!Spec

LEMMA QueueSpecs == Spec => QueueProofs!Spec
<1>1. Init => QueueProofs!Init
  BY DEF Init, Queue!Init, QueueProofs!Init, Queue!Drop!Init,
         QueueProofs!Drop!Init
<1>2. [Next]_vars => [QueueProofs!Next]_(QueueProofs!vars)
  <2> SUFFICES ASSUME [Next]_vars
               PROVE  [QueueProofs!Next]_(QueueProofs!vars)
    OBVIOUS
  <2>1. ASSUME NEW p \in Producers,
               Queue!Accept(p) \/ Queue!Refuse(p) \/ Queue!RecordDrop(p)
        PROVE  QueueProofs!Next
    BY <2>1, ProducerSteps DEF QueueProofs!Next, QueueProofs!Enqueue
  <2>2. CASE \/ Queue!Receive \/ Queue!Tick \/ Queue!Done
             \/ Queue!DrainOne \/ Queue!DrainEnd \/ Queue!Insert
             \/ Queue!Close \/ Queue!CloseReturn \/ Queue!TimePasses
    BY <2>2, QueueSteps DEF QueueProofs!Next, QueueProofs!Run
  <2>3. CASE UNCHANGED queueVars
    BY <2>3 DEF queueVars, QueueProofs!vars, QueueProofs!runVars,
                QueueProofs!mainVars, QueueProofs!dropVars
  <2>. QED
    BY <2>1, <2>2, <2>3, StepOfQueue
<1>. QED
  BY <1>1, <1>2, PTL DEF Spec, QueueProofs!Spec

\* the assumption of the modules whose theorems are used
LEMMA SameAssumption ==
  /\ Size \in Nat \ {0} /\ CapFactor \in Nat \ {0} /\ MaxLines \in Nat
  /\ Interval \in Nat \ {0} /\ MaxClock \in Nat \ {0} /\ MaxDrops \in Nat
  /\ WallClock \in BOOLEAN
BY GrepodAssumption DEF GrepodAssumption

(* What StoppedStoresAll is in BatchQueueProofs.                           *)
QueueStoresAll ==
  runPC = "stopped" /\ Len(accepted) = closedAt
    => ToSet(accepted) = stored \union lost

LEMMA QueueTypes == Spec => []Queue!TypeOK
<1>1. QueueProofs!Spec => []QueueProofs!TypeOK
  BY SameAssumption, QueueProofs!TypeCorrect
<1>2. QueueProofs!TypeOK => Queue!TypeOK
  <2>1. QueueProofs!QueueTypeOK => Queue!QueueTypeOK
    BY DEF QueueProofs!QueueTypeOK, Queue!QueueTypeOK, QueueProofs!Line,
           Queue!Line, QueueProofs!Cap, Queue!Cap, QueueProofs!RunLabels,
           Queue!RunLabels
  <2>2. QueueProofs!Drop!TypeOK => Queue!Drop!TypeOK
    BY DEF QueueProofs!Drop!TypeOK, QueueProofs!Drop!Labels,
           Queue!Drop!TypeOK, Queue!Drop!Labels
  <2>. QED
    BY <2>1, <2>2 DEF QueueProofs!TypeOK, Queue!TypeOK
<1>. QED
  BY <1>1, <1>2, QueueSpecs, PTL

LEMMA QueueStored == Spec => []QueueStoresAll
<1>1. QueueProofs!Spec => []QueueProofs!StoppedStoresAll
  BY SameAssumption, QueueProofs!StoppedAlwaysStoresAll
<1>2. QueueProofs!StoppedStoresAll => QueueStoresAll
  BY DEF QueueProofs!StoppedStoresAll, QueueStoresAll, QueueProofs!ToSet, ToSet
<1>. QED
  BY <1>1, <1>2, QueueSpecs, PTL

-----------------------------------------------------------------------------
(***************************************************************************)
(* The process.                                                            *)
(***************************************************************************)

(* Types of the process: where main, the manager, the server and each      *)
(* tailer and connection are, with those of the queue's state.             *)
THEOREM TypeCorrect == Spec => []TypeOK
<1>1. Init /\ Queue!TypeOK => TypeOK
  <2> SUFFICES ASSUME Init, Queue!TypeOK PROVE TypeOK
    OBVIOUS
  <2>1. /\ conns \in [Clients -> {"none", "search", "tail"}]
        /\ feed \in [Producers -> {"idle", "publish"}]
    BY DEF Init
  <2>. QED
    BY <2>1 DEF Init, TypeOK, MainLabels
<1>2. TypeOK /\ Queue!TypeOK' /\ [Next]_vars => TypeOK'
  <2> SUFFICES ASSUME TypeOK, Queue!TypeOK', [Next]_vars PROVE TypeOK'
    OBVIOUS
  <2> USE DEF TypeOK, MainLabels
  <2>1. CASE Startup \/ Signal
    BY <2>1 DEF Startup, StartManager, StartServer, Abort, Bind, Signal,
                OnlyMain, feedVars
  <2>2. CASE Stopping
    BY <2>2 DEF Stopping, Shutdown, ShutdownReturns, Join, CloseQueue,
                CloseQueueReturns, CloseStore, OnlyMain, feedVars
  <2>3. ASSUME NEW p \in Producers, Enqueue(p) \/ Tailer(p)
        PROVE  TypeOK'
    BY <2>3 DEF Enqueue, Tailer, RecordDrop, Publish, Others, procVars,
                feedVars
  <2>4. CASE Receive \/ Tick \/ Done \/ Drain \/ Insert \/ TimePasses
    BY <2>4 DEF Receive, Tick, Done, Drain, Insert, TimePasses, QueueStep,
                Others, procVars, feedVars
  <2>5. CASE ManagerReturns \/ \E c \in Clients : Connect(c) \/ RequestEnds(c)
    BY <2>5 DEF ManagerReturns, Connect, RequestEnds, feedVars
  <2>6. CASE UNCHANGED vars
    BY <2>6 DEF vars, procVars, feedVars
  <2>. QED
    BY <2>1, <2>2, <2>3, <2>4, <2>5, <2>6 DEF Next
<1>. QED
  BY <1>1, <1>2, QueueTypes, PTL DEF Spec

(* The order of the wind-down.  main closes the queue only past the join   *)
(* with the manager, and goes on to the store only when Close has          *)
(* returned; from then on no tailer can call Enqueue.                      *)
WindDown ==
  /\ closer # "open" =>
       /\ main \in {"closing", "closeStore", "exited", "aborted"}
       /\ mgr = "done"
       /\ Len(accepted) = closedAt
  /\ main \in {"close", "closing", "closeStore", "exited"} => mgr = "done"
  /\ main \in {"closeStore", "exited"} => closer = "closed"
  /\ closer = "closed" => runPC = "stopped"

LEMMA WindDownInvariant == Spec => []WindDown
<1>1. Init => WindDown
  BY DEF Init, WindDown, Queue!Init
<1>2. TypeOK /\ WindDown /\ [Next]_vars => WindDown'
  <2> SUFFICES ASSUME TypeOK, WindDown, [Next]_vars PROVE WindDown'
    OBVIOUS
  <2> USE DEF WindDown
  <2>1. CASE Startup \/ Signal
    BY <2>1 DEF Startup, StartManager, StartServer, Abort, Bind, Signal,
                OnlyMain, queueVars, Alive
  <2>2. CASE Shutdown \/ ShutdownReturns \/ Join \/ CloseStore
    BY <2>2 DEF Shutdown, ShutdownReturns, Join, Joined, CloseStore,
                StoreClosable, OnlyMain, queueVars
  <2>3. CASE CloseQueue
    BY <2>3 DEF CloseQueue, Queue!Close, Queue!runVars
  <2>4. CASE CloseQueueReturns
    BY <2>4 DEF CloseQueueReturns, Queue!CloseReturn, Queue!runVars
  <2>5. ASSUME NEW p \in Producers, Enqueue(p)
        PROVE  WindDown'
    <3>1. mgr = "run" /\ UNCHANGED procVars
      BY <2>5 DEF Enqueue, Others
    <3>2. UNCHANGED <<closer, closedAt, runPC>>
      BY <2>5 DEF Enqueue, Queue!Accept, Queue!Refuse, Queue!mainVars,
                  Queue!runVars
    <3>. QED
      BY <3>1, <3>2 DEF procVars
  <2>6. ASSUME NEW p \in Producers, Tailer(p)
        PROVE  WindDown'
    BY <2>6 DEF Tailer, RecordDrop, Publish, Others, procVars, queueVars,
                Queue!RecordDrop, Queue!mainVars, Queue!runVars
  <2>7. CASE Receive \/ Tick \/ Done \/ Drain \/ Insert \/ TimePasses
    <3>1. UNCHANGED <<procVars, closer, closedAt, accepted>>
      BY <2>7 DEF Receive, Tick, Done, Drain, Insert, TimePasses, QueueStep,
                  Others, Queue!Receive, Queue!Tick, Queue!Done,
                  Queue!DrainOne, Queue!DrainEnd, Queue!Insert,
                  Queue!InsertFail, Queue!InsertGroup, Queue!TimePasses,
                  Queue!mainVars
    <3>2. runPC = "stopped" => UNCHANGED runPC
      BY <2>7 DEF Receive, Tick, Done, Drain, Insert, TimePasses, QueueStep,
                  Queue!Receive, Queue!Tick, Queue!Done,
                  Queue!DrainOne, Queue!DrainEnd, Queue!Insert,
                  Queue!InsertFail, Queue!InsertGroup, Queue!Flushing,
                  Queue!TimePasses, Queue!runVars
    <3>. QED
      BY <3>1, <3>2 DEF procVars
  <2>8. CASE ManagerReturns \/ \E c \in Clients : Connect(c) \/ RequestEnds(c)
    BY <2>8 DEF ManagerReturns, Connect, RequestEnds, queueVars
  <2>9. CASE UNCHANGED vars
    BY <2>9 DEF vars, queueVars, procVars
  <2>. QED
    BY <2>1, <2>2, <2>3, <2>4, <2>5, <2>6, <2>7, <2>8, <2>9
    DEF Next, Stopping
<1>. QED
  BY <1>1, <1>2, TypeCorrect, PTL DEF Spec

(* No line is accepted once main has called queue.Close, for every number  *)
(* of tailers, wherever the signal finds them and main.                    *)
THEOREM AcceptedAlwaysFinal == Spec => []AcceptedIsFinal
<1>1. WindDown => AcceptedIsFinal
  BY DEF WindDown, AcceptedIsFinal
<1>. QED
  BY <1>1, WindDownInvariant, PTL

(* A process whose main returns has stored every line that was ever        *)
(* accepted, but for those of a flush that failed.                         *)
THEOREM ExitAlwaysStoresAll == Spec => []ExitStoresAll
<1>1. WindDown /\ QueueStoresAll => ExitStoresAll
  BY DEF WindDown, QueueStoresAll, ExitStoresAll
<1>. QED
  BY <1>1, WindDownInvariant, QueueStored, PTL

-----------------------------------------------------------------------------
(***************************************************************************)
(* The two halves of fanoutSink.Enqueue.  A line that is in the first half *)
(* but not yet in the second belongs to a tailer that is between them, and *)
(* there is none of those once the manager is done.                        *)
(***************************************************************************)
Between == {p \in Producers : feed[p] = "publish"}

Fanout ==
  /\ IsFiniteSet(Between)
  /\ published + Cardinality(Between) = Len(accepted) + total
  /\ mgr = "done" => Between = {}

LEMMA FanoutUnchanged ==
  ASSUME Fanout, UNCHANGED <<feed, published, accepted, total>>,
         mgr' = mgr \/ Between = {}
  PROVE  Fanout'
BY DEF Fanout, Between

LEMMA FanoutInvariant == Spec => []Fanout
<1>1. Init => Fanout
  <2> SUFFICES ASSUME Init PROVE Fanout
    OBVIOUS
  <2>1. Between = {}
    BY DEF Init, Between
  <2>2. published = 0 /\ accepted = <<>> /\ total = 0 /\ mgr = "none"
    BY DEF Init, Queue!Init, Queue!Drop!Init
  <2>. QED
    BY <2>1, <2>2, FS_EmptySet DEF Fanout
<1>2. TypeOK /\ Fanout /\ [Next]_vars => Fanout'
  <2> SUFFICES ASSUME TypeOK, Fanout, [Next]_vars PROVE Fanout'
    OBVIOUS
  <2>1. /\ IsFiniteSet(Between) /\ Cardinality(Between) \in Nat
        /\ published \in Nat /\ total \in Nat /\ Len(accepted) \in Nat
        /\ feed \in [Producers -> {"idle", "publish"}]
    BY FS_CardinalityType
    DEF Fanout, TypeOK, Queue!TypeOK, Queue!QueueTypeOK, Queue!Drop!TypeOK
  <2>2. ASSUME NEW p \in Producers, Enqueue(p)
        PROVE  Fanout'
    <3>1. Between' = Between \union {p} /\ p \notin Between
      BY <2>1, <2>2 DEF Enqueue, Between
    <3>2. /\ IsFiniteSet(Between')
          /\ Cardinality(Between') = Cardinality(Between) + 1
      BY <2>1, <3>1, FS_AddElement
    <3>3. Len(accepted') + total' = Len(accepted) + total + 1
      <4>1. CASE Queue!Accept(p)
        <5>1. accepted \in Seq(Queue!Line)
          BY DEF TypeOK, Queue!TypeOK, Queue!QueueTypeOK
        <5>2. \E l : accepted' = Append(accepted, l)
          BY <4>1 DEF Queue!Accept
        <5>3. Len(accepted') = Len(accepted) + 1
          BY <5>1, <5>2
        <5>4. total' = total
          BY <4>1 DEF Queue!Accept, Queue!dropVars
        <5>. QED
          BY <2>1, <5>3, <5>4
      <4>2. CASE Queue!Refuse(p)
        BY <2>1, <4>2 DEF Queue!Refuse, Queue!Drop!Begin
      <4>. QED
        BY <2>2, <4>1, <4>2 DEF Enqueue
    <3>4. published' = published /\ mgr = "run" /\ mgr' = mgr
      BY <2>2 DEF Enqueue, Others, procVars
    <3>. QED
      BY <2>1, <3>2, <3>3, <3>4 DEF Fanout
  <2>3. ASSUME NEW p \in Producers, Publish(p)
        PROVE  Fanout'
    <3>1. Between' = Between \ {p} /\ p \in Between
      BY <2>1, <2>3 DEF Publish, Between
    <3>2. /\ IsFiniteSet(Between')
          /\ Cardinality(Between') = Cardinality(Between) - 1
      BY <2>1, <3>1, FS_RemoveElement
    <3>3. /\ published' = published + 1
          /\ UNCHANGED <<accepted, total, mgr>>
      BY <2>3 DEF Publish, Others, procVars, queueVars
    <3>. QED
      BY <2>1, <3>1, <3>2, <3>3 DEF Fanout
  <2>4. ASSUME NEW p \in Producers, RecordDrop(p)
        PROVE  Fanout'
    <3>1. UNCHANGED <<feed, published, accepted, mgr, total>>
      BY <2>4 DEF RecordDrop, Others, procVars, feedVars, Queue!RecordDrop,
                  Queue!Drop!Continue, Queue!Drop!ReadClock, Queue!Drop!Load,
                  Queue!Drop!CompareAndSwap, Queue!Drop!SwapAndWarn
    <3>. QED
      BY <3>1, FanoutUnchanged
  <2>5. CASE ManagerReturns
    <3>1. Between = {}
      BY <2>5 DEF ManagerReturns, TailersDone, Between
    <3>. QED
      BY <2>5, <3>1, FanoutUnchanged DEF ManagerReturns, feedVars, queueVars
  <2>6. CASE StartManager
    <3>1. mgr' = "run" /\ UNCHANGED <<feed, published, accepted, total>>
      BY <2>6 DEF StartManager, OnlyMain, feedVars, queueVars
    <3>. QED
      BY <3>1 DEF Fanout, Between
  <2>7. CASE StartServer \/ Abort \/ Bind \/ Signal \/ Stopping
    <3>1. UNCHANGED <<feed, published, accepted, mgr, total>>
      BY <2>7 DEF StartServer, Abort, Bind, Signal, Stopping, Shutdown,
                  ShutdownReturns, Join, CloseQueue, CloseQueueReturns,
                  CloseStore, OnlyMain, feedVars, queueVars, Queue!Close,
                  Queue!CloseReturn, Queue!dropVars
    <3>. QED
      BY <3>1, FanoutUnchanged
  <2>8. CASE Receive \/ Tick \/ Done \/ Drain \/ Insert \/ TimePasses
    <3>1. UNCHANGED <<feed, published, accepted, mgr, total>>
      BY <2>8 DEF Receive, Tick, Done, Drain, Insert, TimePasses, QueueStep,
                  Others, procVars, feedVars, Queue!Receive, Queue!Tick,
                  Queue!Done, Queue!DrainOne, Queue!DrainEnd, Queue!Insert,
                  Queue!InsertFail, Queue!InsertGroup, Queue!TimePasses,
                  Queue!Drop!Tick, Queue!dropVars
    <3>. QED
      BY <3>1, FanoutUnchanged
  <2>9. CASE \/ \E c \in Clients : Connect(c) \/ RequestEnds(c)
             \/ UNCHANGED vars
    BY <2>9, FanoutUnchanged
    DEF Connect, RequestEnds, vars, procVars, feedVars, queueVars
  <2>. QED
    BY <2>2, <2>3, <2>4, <2>5, <2>6, <2>7, <2>8, <2>9
    DEF Next, Startup, Tailer
<1>. QED
  BY <1>1, <1>2, TypeCorrect, PTL DEF Spec

(* When the manager is done every line a tailer ingested, accepted or      *)
(* dropped, has been published, for any number of tailers.                 *)
THEOREM FanoutAlwaysComplete == Spec => []FanoutComplete
<1>1. TypeOK /\ Fanout => FanoutComplete
  BY FS_EmptySet DEF TypeOK, Fanout, FanoutComplete
<1>. QED
  BY <1>1, TypeCorrect, FanoutInvariant, PTL
=============================================================================
