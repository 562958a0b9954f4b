------------------------------- MODULE Grepod -------------------------------
(***************************************************************************)
(* The process (cmd/server/main.go): main starts the parts one after the   *)
(* other, waits for a signal, and takes them down again in the order that  *)
(* is to lose no line; a part that cannot start ends the process at once.  *)
(*                                                                         *)
(* The queue is BatchQueue itself.  Of the manager only what main relies   *)
(* on is here: tailers ingest from the start of Run until some time after  *)
(* ctx is cancelled, and Run returns when the last of them has (Manager).  *)
(* Of an HTTP request only when it ends is here (Broadcaster, SearchPages, *)
(* ShardStore).  The retention cron, for which nothing waits, is left out: *)
(* ShardStore lets the process exit at any point of a pass.                *)
(***************************************************************************)
EXTENDS Integers, Sequences, SequencesExt

CONSTANTS
  Producers, Days, Size, CapFactor, MaxLines,
  Interval, MaxClock, MaxDrops, WallClock,   \* of BatchQueue
  Clients       \* connections to the HTTP server

ASSUME GrepodAssumption ==
  /\ {Size, CapFactor, Interval, MaxClock} \subseteq Nat \ {0}
  /\ {MaxLines, MaxDrops} \subseteq Nat
  /\ WallClock \in BOOLEAN

VARIABLES
  chan, buf, batch, todo, runPC, closer, stored, lost, accepted, taken,
  closedAt,
  dropped, lastWarnedAt, clock, pc, now, last, total, reported,
  warnings      \* of BatchQueue

VARIABLES
  main,         \* where main is
  ctxDone,      \* cancel() has been called
  mgr,          \* the manager's Run: "none", "run" or "done" (mgrDone)
  http,         \* srv.ListenAndServe
  conns,        \* what each connection is waiting for
  feed,         \* where each tailer is in fanoutSink.Enqueue
  published     \* history: number of lines Publish was called with

Queue == INSTANCE BatchQueue

queueVars == <<chan, buf, batch, todo, runPC, closer, stored, lost, accepted,
               taken, closedAt, dropped, lastWarnedAt, clock, pc, now, last,
               total, reported, warnings>>
feedVars  == <<feed, published>>
procVars  == <<main, ctxDone, mgr, http, conns>>
vars      == <<queueVars, feedVars, procVars>>

MainLabels == {"setup", "wire", "serve", "cancelled", "shutdown", "join",
               "close", "closing", "closeStore", "exited", "aborted"}

TypeOK ==
  /\ Queue!TypeOK
  /\ main \in MainLabels
  /\ ctxDone \in BOOLEAN
  /\ mgr \in {"none", "run", "done"}
  /\ http \in {"none", "binding", "listening", "down"}
  /\ conns \in [Clients -> {"none", "search", "tail"}]
  /\ feed \in [Producers -> {"idle", "publish"}]
  /\ published \in Nat

Alive == main \notin {"exited", "aborted"}

Init ==
  /\ Queue!Init
  /\ main = "setup" /\ ctxDone = FALSE
  /\ mgr = "none" /\ http = "none"
  /\ conns = [c \in Clients |-> "none"]
  /\ feed = [p \in Producers |-> "idle"] /\ published = 0

-----------------------------------------------------------------------------
(***************************************************************************)
(* main, up to <-sigCh.                                                    *)
(***************************************************************************)
OnlyMain == UNCHANGED <<queueVars, feedVars, conns>>

StartManager ==
  /\ main = "setup"
  /\ main' = "wire"
  /\ mgr' = "run"
  /\ OnlyMain /\ UNCHANGED <<ctxDone, http>>

StartServer ==
  /\ main = "wire"
  /\ main' = "serve"
  /\ http' = "binding"
  /\ OnlyMain /\ UNCHANGED <<ctxDone, mgr>>

(* The Kubernetes client or the handler cannot be made, or ListenAndServe  *)
(* fails, at once or while it accepts: os.Exit runs no deferred call.      *)
Abort ==
  /\ Alive
  /\ main \in {"setup", "wire"} \/ http \in {"binding", "listening"}
  /\ main' = "aborted"
  /\ OnlyMain /\ UNCHANGED <<ctxDone, mgr, http>>

\* ListenAndServe, which finds the server already shut down or not
Bind ==
  /\ Alive
  /\ http = "binding"
  /\ http' = IF main \in {"serve", "cancelled"} THEN "listening" ELSE "down"
  /\ OnlyMain /\ UNCHANGED <<main, ctxDone, mgr>>

-----------------------------------------------------------------------------
(***************************************************************************)
(* waitForShutdown, and main's deferred calls.                             *)
(***************************************************************************)
Signal ==
  /\ main = "serve"
  /\ main' = "cancelled"
  /\ ctxDone' = TRUE
  /\ OnlyMain /\ UNCHANGED <<mgr, http>>

\* srv.Shutdown takes no more connections
Shutdown ==
  /\ main = "cancelled"
  /\ main' = "shutdown"
  /\ http' = IF http = "listening" THEN "down" ELSE http
  /\ OnlyMain /\ UNCHANGED <<ctxDone, mgr>>

Answered == \A c \in Clients : conns[c] = "none"

\* Mutant: srv.Shutdown(context.Background()).
GivesUp_Never == FALSE

\* ten seconds may be over, whatever the requests are waiting for
GivesUp == TRUE

ShutdownReturns ==
  /\ main = "shutdown"
  /\ Answered \/ GivesUp
  /\ main' = "join"
  /\ OnlyMain /\ UNCHANGED <<ctxDone, mgr, http>>

\* Mutant: main does not wait for mgrDone.
Joined_Always == TRUE

Joined == mgr = "done"

Join ==
  /\ main = "join"
  /\ Joined
  /\ main' = "close"
  /\ OnlyMain /\ UNCHANGED <<ctxDone, mgr, http>>

CloseQueue ==
  /\ main = "close"
  /\ main' = "closing"
  /\ Queue!Close
  /\ UNCHANGED <<feedVars, ctxDone, mgr, http, conns>>

CloseQueueReturns ==
  /\ main = "closing"
  /\ main' = "closeStore"
  /\ Queue!CloseReturn
  /\ UNCHANGED <<feedVars, ctxDone, mgr, http, conns>>

\* Mutant: Close only signals q.done, and store.Close runs at once.
StoreClosable_AtOnce == main \in {"closing", "closeStore"}

StoreClosable == main = "closeStore"

\* store.Close, and main returns
CloseStore ==
  /\ StoreClosable
  /\ main' = "exited"
  /\ OnlyMain /\ UNCHANGED <<ctxDone, mgr, http>>

-----------------------------------------------------------------------------
(***************************************************************************)
(* The other goroutines, which end with the process.                       *)
(***************************************************************************)
Others == Alive /\ UNCHANGED procVars

\* fanoutSink.Enqueue: the queue, where a line may be refused
Enqueue(p) ==
  /\ Others
  /\ mgr = "run"
  /\ feed[p] = "idle"
  /\ Queue!Accept(p) \/ Queue!Refuse(p)
  /\ feed' = [feed EXCEPT ![p] = "publish"]
  /\ UNCHANGED published

RecordDrop(p) ==
  /\ Others
  /\ Queue!RecordDrop(p)
  /\ UNCHANGED feedVars

\* and then the broadcaster
Publish(p) ==
  /\ Others
  /\ feed[p] = "publish" /\ pc[p] = "idle"
  /\ feed' = [feed EXCEPT ![p] = "idle"]
  /\ published' = published + 1
  /\ UNCHANGED queueVars

\* Mutant: Run does not wait for its tailers.
TailersDone_AtOnce == TRUE

TailersDone == \A p \in Producers : feed[p] = "idle"

\* m.wg.Wait, after which no tailer calls Enqueue; close(mgrDone)
ManagerReturns ==
  /\ Alive
  /\ mgr = "run" /\ ctxDone
  /\ TailersDone
  /\ mgr' = "done"
  /\ UNCHANGED <<queueVars, feedVars, main, ctxDone, http, conns>>

QueueStep(A) == Others /\ A /\ UNCHANGED feedVars

Receive == QueueStep(Queue!Receive)
Tick    == QueueStep(Queue!Tick)
Done    == QueueStep(Queue!Done)
Drain   == QueueStep(Queue!DrainOne \/ Queue!DrainEnd)
Insert  == QueueStep(Queue!Insert)
TimePasses == QueueStep(Queue!TimePasses)

(* A request is taken while the server listens.  A search is answered; a   *)
(* tail ends when its client leaves, which it need not do, and not because *)
(* of Shutdown or ctx: nothing cancels the request's context.              *)
Connect(c) ==
  /\ Alive
  /\ http = "listening"
  /\ conns[c] = "none"
  /\ \E kind \in {"search", "tail"} : conns' = [conns EXCEPT ![c] = kind]
  /\ UNCHANGED <<queueVars, feedVars, main, ctxDone, mgr, http>>

RequestEnds(c) ==
  /\ Alive
  /\ conns[c] # "none"
  /\ conns' = [conns EXCEPT ![c] = "none"]
  /\ UNCHANGED <<queueVars, feedVars, main, ctxDone, mgr, http>>

-----------------------------------------------------------------------------
Tailer(p) == RecordDrop(p) \/ Publish(p)
Startup   == StartManager \/ StartServer \/ Abort \/ Bind
Stopping  == Shutdown \/ ShutdownReturns \/ Join
             \/ CloseQueue \/ CloseQueueReturns \/ CloseStore

Next ==
  \/ Startup \/ Signal \/ Stopping
  \/ \E p \in Producers : Enqueue(p) \/ Tailer(p)
  \/ ManagerReturns
  \/ Receive \/ Tick \/ Done \/ Drain \/ Insert \/ TimePasses
  \/ \E c \in Clients : Connect(c) \/ RequestEnds(c)

Spec == Init /\ [][Next]_vars

(* Goroutines that can run do.  The queue's are BatchQueue's, no tail      *)
(* request has to end, and a tailer whose context is cancelled has only    *)
(* what its scanner holds to ingest (MaxLines and MaxDrops bound it).      *)
Fairness ==
  /\ WF_vars(Stopping)
  /\ \A p \in Producers : WF_vars(Tailer(p))
  /\ WF_vars(ManagerReturns)
  /\ SF_vars(Receive) /\ SF_vars(Tick) /\ SF_vars(Done)
  /\ WF_vars(Drain) /\ WF_vars(Insert)

FairSpec == Spec /\ Fairness

-----------------------------------------------------------------------------
(***************************************************************************)
(* Properties                                                              *)
(***************************************************************************)

(* Why waitForShutdown waits for mgrDone (main.go:154-158): queue.Close    *)
(* cannot race a tailer still calling Enqueue, so no line is accepted once *)
(* it is called, whenever the signal finds the tailers.                    *)
AcceptedIsFinal == closer # "open" => Len(accepted) = closedAt

(* Every line a tailer ingested has also gone to the live tail when the    *)
(* manager is done, the lines the queue dropped among them (main.go:186).  *)
FanoutComplete == mgr = "done" => published = Len(accepted) + total

(* What the order of main's deferred calls is for (queue.go:211-215): a    *)
(* process that returns from main has written every line it ever accepted, *)
(* but for those of a flush that failed.                                   *)
ExitStoresAll == main = "exited" => ToSet(accepted) = stored \union lost

(* A signal ends the process, also when the clients of /api/tail stay for  *)
(* ever, a flush fails or the tailers have lines left to ingest.           *)
ShutdownEnds == main = "cancelled" ~> ~Alive
=============================================================================
