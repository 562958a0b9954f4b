------------------------------- MODULE Manager -------------------------------
(***************************************************************************)
(* The lifecycle of tailer goroutines (internal/tailer/manager.go): the    *)
(* informer delivers pod events one at a time to reconcilePod and stopPod, *)
(* which start and cancel one goroutine per container; a goroutine reads   *)
(* the logs of the previous container instance, resolves its marker, then  *)
(* streams with retries until it is cancelled; Run waits for all of them   *)
(* on shutdown.                                                            *)
(*                                                                         *)
(* A critical section of m.mu or m.markersMu is one step.  What a log line *)
(* says is left out: reading one is stamping it with the clock and calling *)
(* Sink.Enqueue.  Backoff is a timer that may fire at any time.  A pod's   *)
(* name identifies it, so a deleted pod may come back (a StatefulSet's).   *)
(***************************************************************************)
EXTENDS Integers, Sequences, SequencesExt

CONSTANTS
  Pods,         \* names of the namespace's pods
  Containers,   \* names of the containers watched in each pod
  SelfPod,      \* POD_NAME: this pod is never tailed
  MaxChanges,   \* bound: restarts, deletions and creations in the cluster
  MaxClock      \* bound: the clock reads 1 .. MaxClock

ASSUME ManagerAssumption ==
  /\ IsFiniteSet(Containers)
  /\ MaxChanges \in Nat
  /\ MaxClock \in Nat \ {0}

Key == Pods \X Containers

Absent == -1   \* no entry for a key in a map
Zero   == 0    \* Go's zero time: a marker that holds no timestamp

VARIABLES
  \* the cluster, as the API server knows it
  exists,         \* the pods that exist
  reported,       \* the containers a pod's status lists
  restarts,       \* the RestartCount of every container
  deleted,        \* the pods deleted since their last event
  changes,        \* number of changes so far
  clock,          \* time.Now()
  \* the informer's handler goroutine
  seen,           \* the pods whose last event was an add or an update
  status,         \* the RestartCounts its events have told of
  step,           \* where the handler is
  pod,            \* the pod its event is about
  queue,          \* the containers its loop has not finished, in order
  held,           \* the goroutine stopContainer has yet to cancel
  \* Manager
  cancels,        \* m.cancels: the goroutine whose cancel is registered
  restartCounts,  \* m.restartCounts
  markers,        \* m.markers, of which only ts matters
  routine,        \* the goroutines started, in order
  ctxDone,        \* Run's context is cancelled
  run             \* where Run is: "sync", "serve", "wait" or "returned"

clusterVars == <<exists, reported, restarts, deleted, changes>>
handlerVars == <<seen, status, step, pod, queue, held>>
managerVars == <<cancels, restartCounts>>
runVars     == <<ctxDone, run>>
vars == <<clusterVars, clock, handlerVars, managerVars, markers, routine,
          runVars>>

HandlerSteps ==
  {"idle", "check", "stop", "cancel", "start", "spawn", "delStop", "delCancel",
   "delMarker"}

RoutineSteps ==
  {"prev", "readPrev", "resolve", "lookup", "put", "loop", "open", "read",
   "mark", "retry", "backoff", "done"}

Routine ==
  [key : Key, count : Nat, cancelled : BOOLEAN, at : RoutineSteps,
   ts : 0 .. MaxClock]

Ids == 1 .. Len(routine)

TypeOK ==
  /\ exists \subseteq Pods
  /\ reported \subseteq Key
  /\ restarts \in [Key -> Nat]
  /\ deleted \subseteq Pods
  /\ changes \in 0 .. MaxChanges
  /\ clock \in 1 .. MaxClock
  /\ seen \subseteq Pods
  /\ status \in [Key -> Nat \union {Absent}]
  /\ step \in HandlerSteps
  /\ pod \in Pods
  /\ queue \in Seq(Containers)
  /\ held \in Nat \union {Absent}
  /\ cancels \in [Key -> Nat \union {Absent}]
  /\ \A k \in Key : cancels[k] # Absent => cancels[k] \in 1 .. Len(routine) + 1
  /\ restartCounts \in [Key -> Nat \union {Absent}]
  /\ markers \in [Key -> {Absent} \union 0 .. MaxClock]
  /\ routine \in Seq(Routine)
  /\ ctxDone \in BOOLEAN
  /\ run \in {"sync", "serve", "wait", "returned"}

Init ==
  /\ exists \in SUBSET Pods
  /\ reported \in SUBSET (exists \X Containers)
  /\ restarts = [k \in Key |-> 0]
  /\ deleted = {}
  /\ changes = 0
  /\ clock = 1
  /\ seen = {}
  /\ status = [k \in Key |-> Absent]
  /\ step = "idle"
  /\ pod \in Pods
  /\ queue = <<>>
  /\ held = Absent
  /\ cancels = [k \in Key |-> Absent]
  /\ restartCounts = [k \in Key |-> Absent]
  /\ markers = [k \in Key |-> Absent]
  /\ routine = <<>>
  /\ ctxDone = FALSE
  /\ run = "sync"

-----------------------------------------------------------------------------
(***************************************************************************)
(* The cluster and the clock, which no code of the program controls.       *)
(***************************************************************************)
Change ==
  /\ changes < MaxChanges
  /\ changes' = changes + 1
  /\ UNCHANGED <<clock, handlerVars, managerVars, markers, routine, runVars>>

\* the kubelet adds a container to its pod's ContainerStatuses
ContainerReported(k) ==
  /\ k[1] \in exists
  /\ k \notin reported
  /\ reported' = reported \union {k}
  /\ UNCHANGED <<exists, restarts, deleted, changes, clock, handlerVars,
                 managerVars, markers, routine, runVars>>

ContainerRestarts(k) ==
  /\ k \in reported
  /\ restarts' = [restarts EXCEPT ![k] = @ + 1]
  /\ UNCHANGED <<exists, reported, deleted>>
  /\ Change

PodDeleted(p) ==
  /\ p \in exists
  /\ exists' = exists \ {p}
  /\ reported' = {k \in reported : k[1] # p}
  /\ deleted' = deleted \union {p}
  /\ UNCHANGED restarts
  /\ Change

PodCreated(p) ==
  /\ p \notin exists
  /\ exists' = exists \union {p}
  /\ restarts' = [k \in Key |-> IF k[1] = p THEN 0 ELSE restarts[k]]
  /\ UNCHANGED <<reported, deleted>>
  /\ Change

Tick ==
  /\ clock < MaxClock
  /\ clock' = clock + 1
  /\ UNCHANGED <<clusterVars, handlerVars, managerVars, markers, routine,
                 runVars>>

-----------------------------------------------------------------------------
(***************************************************************************)
(* The informer's handler.  It is not told about every change: an event    *)
(* carries the pod as it is when the event is delivered, the periodic      *)
(* resync delivers an update of an unchanged pod too, and after a relist a *)
(* pod deleted and created again is an update.  A pod's status may not     *)
(* list all of its containers yet: the others are left as they are.        *)
(* Events are handled whether or not ctx is done, because the handlers     *)
(* never look at it.                                                       *)
(***************************************************************************)

\* AddFunc, UpdateFunc: reconcilePod, which does nothing for grepod's own pod
PodEvent(p) ==
  /\ step = "idle"
  /\ p \in exists
  /\ p # SelfPod
  /\ seen' = seen \union {p}
  /\ deleted' = deleted \ {p}
  /\ LET listed == {c \in Containers : <<p, c>> \in reported}
     IN  /\ status' = [k \in Key |-> IF k[1] = p /\ k[2] \in listed
                                      THEN restarts[k] ELSE status[k]]
         /\ queue' \in SetToSeqs(listed)
  /\ pod' = p
  /\ step' = IF queue' = <<>> THEN "idle" ELSE "check"
  /\ UNCHANGED <<exists, reported, restarts, changes, clock, held, managerVars,
                 markers, routine, runVars>>

Registered(p) == {c \in Containers : cancels[<<p, c>>] # Absent}

\* DeleteFunc: stopPod collects the pod's keys
DeleteEvent(p) ==
  /\ step = "idle"
  /\ p \in seen \intersect deleted
  /\ seen' = seen \ {p}
  /\ deleted' = deleted \ {p}
  /\ status' = [k \in Key |-> IF k[1] = p THEN Absent ELSE status[k]]
  /\ pod' = p
  /\ queue' \in SetToSeqs(Registered(p))
  /\ step' = IF queue' = <<>> THEN "idle" ELSE "delStop"
  /\ UNCHANGED <<exists, reported, restarts, changes, clock, held, managerVars,
                 markers, routine, runVars>>

CurrentKey == <<pod, Head(queue)>>

\* The loop goes on with the next container, or the handler returns.
NextContainer(label) ==
  /\ queue' = Tail(queue)
  /\ step' = IF Len(queue) = 1 THEN "idle" ELSE label

Goto(label) == step' = label /\ UNCHANGED queue

\* Mutant: the restart count is not compared.
AlreadyTailing_AnyCount(k) == cancels[k] # Absent

\* running && seen && lastCount == cs.RestartCount
AlreadyTailing(k) == cancels[k] # Absent /\ restartCounts[k] = status[k]

Check ==
  /\ step = "check"
  /\ \/ AlreadyTailing(CurrentKey) /\ NextContainer("check")
     \/ ~AlreadyTailing(CurrentKey) /\ Goto("stop")
  /\ UNCHANGED <<clusterVars, clock, seen, status, pod, held, managerVars,
                 markers, routine, runVars>>

(* stopContainer: the cancel function is taken out of m.cancels under m.mu *)
(* and then called; its goroutine is not waited for.                       *)
TakeCancel(k) ==
  /\ held' = cancels[k]
  /\ cancels' = [cancels EXCEPT ![k] = Absent]
  /\ UNCHANGED <<clusterVars, clock, seen, status, pod, restartCounts, markers,
                 routine, runVars>>

\* Mutant: the entry is deleted but its cancel function is not called.
Cancelling_Nobody(i) == FALSE

\* if ok: there was an entry
Cancelling(i) == i = held

CallCancel ==
  /\ routine' = [i \in Ids |-> [routine[i] EXCEPT !.cancelled =
                                   @ \/ Cancelling(i)]]
  /\ held' = Absent
  /\ UNCHANGED <<clusterVars, clock, seen, status, pod, managerVars, markers,
                 runVars>>

Stop   == step = "stop" /\ TakeCancel(CurrentKey) /\ Goto("cancel")
Cancel == step = "cancel" /\ CallCancel /\ Goto("start")

\* startContainer up to the unlock of m.mu: the goroutine is not started yet
Start ==
  /\ step = "start"
  /\ cancels' = [cancels EXCEPT ![CurrentKey] = Len(routine) + 1]
  /\ restartCounts' = [restartCounts EXCEPT ![CurrentKey] = status[CurrentKey]]
  /\ Goto("spawn")
  /\ UNCHANGED <<clusterVars, clock, seen, status, pod, held, markers, routine,
                 runVars>>

\* wg.Add(1) and go m.tailContainer
Spawn ==
  /\ step = "spawn"
  /\ routine' = Append(routine,
                  [key |-> CurrentKey, count |-> status[CurrentKey],
                   cancelled |-> FALSE, at |-> "prev", ts |-> Zero])
  /\ NextContainer("check")
  /\ UNCHANGED <<clusterVars, clock, seen, status, pod, held, managerVars,
                 markers, runVars>>

\* stopPod: stopContainer, then deleteMarker, for every key collected
DeleteStop   == step = "delStop" /\ TakeCancel(CurrentKey) /\ Goto("delCancel")
DeleteCancel == step = "delCancel" /\ CallCancel /\ Goto("delMarker")

DeleteMarker ==
  /\ step = "delMarker"
  /\ markers' = [markers EXCEPT ![CurrentKey] = Absent]
  /\ NextContainer("delStop")
  /\ UNCHANGED <<clusterVars, clock, seen, status, pod, held, managerVars,
                 routine, runVars>>

-----------------------------------------------------------------------------
(***************************************************************************)
(* A goroutine's tailContainer.  Opening a stream fails once the context   *)
(* is cancelled; an open stream may still yield what it has buffered, but  *)
(* it ends.                                                                *)
(***************************************************************************)

\* Mutant: a goroutine's context is not derived from Run's.
Cancelled_Detached(i) == routine[i].cancelled

Cancelled(i) == routine[i].cancelled \/ ctxDone

Goes(i, from, to) ==
  /\ routine[i].at = from
  /\ routine' = [routine EXCEPT ![i].at = to]

GoesWith(i, from, to, ts) ==
  /\ routine[i].at = from
  /\ routine' = [routine EXCEPT ![i].at = to, ![i].ts = ts]

OnlyRoutine == UNCHANGED <<clusterVars, clock, handlerVars, managerVars,
                           runVars>>

\* fetchPreviousLogs: req.Stream
OpenPrevious(i) ==
  /\ \/ ~Cancelled(i) /\ Goes(i, "prev", "readPrev")
     \/ Goes(i, "prev", "resolve")
  /\ OnlyRoutine /\ UNCHANGED markers

\* ingest with trackMarker false: Enqueue, no marker
ReadPrevious(i) ==
  /\ Goes(i, "readPrev", "readPrev")
  /\ OnlyRoutine /\ UNCHANGED markers

PreviousEnds(i) ==
  /\ Goes(i, "readPrev", "resolve")
  /\ OnlyRoutine /\ UNCHANGED markers

KeyOf(i) == routine[i].key

\* resolveMarker: the first critical section
Resolve(i) ==
  /\ \/ markers[KeyOf(i)] # Absent /\ Goes(i, "resolve", "loop")
     \/ markers[KeyOf(i)] = Absent /\ Goes(i, "resolve", "lookup")
  /\ OnlyRoutine /\ UNCHANGED markers

\* LastSeen: a timestamp of the past, or none, or an error
Lookup(i) ==
  /\ \E ts \in 0 .. clock : GoesWith(i, "lookup", "put", ts)
  /\ OnlyRoutine /\ UNCHANGED markers

\* Mutant: the looked up marker overwrites what setMarker has put.
Put_Overwrites(i) ==
  /\ GoesWith(i, "put", "loop", Zero)
  /\ markers' = [markers EXCEPT ![KeyOf(i)] = routine[i].ts]
  /\ OnlyRoutine

\* resolveMarker: the second critical section
Put(i) ==
  /\ GoesWith(i, "put", "loop", Zero)
  /\ markers' = IF markers[KeyOf(i)] = Absent
                  THEN [markers EXCEPT ![KeyOf(i)] = routine[i].ts]
                  ELSE markers
  /\ OnlyRoutine

\* ctx.Err() at the head of the loop, else markerSince for the next stream
Loop(i) ==
  /\ \/ Cancelled(i) /\ Goes(i, "loop", "done")
     \/ ~Cancelled(i) /\ Goes(i, "loop", "open")
  /\ OnlyRoutine /\ UNCHANGED markers

\* streamLogs: req.Stream
Open(i) ==
  /\ \/ ~Cancelled(i) /\ Goes(i, "open", "read")
     \/ Goes(i, "open", "retry")
  /\ OnlyRoutine /\ UNCHANGED markers

\* Mutant: the stamp is ahead of the clock.
Stamp_Ahead == clock + 1

Stamp == clock

\* ingest with trackMarker true: stamp the line and Enqueue it
Read(i) ==
  /\ GoesWith(i, "read", "mark", Stamp)
  /\ OnlyRoutine /\ UNCHANGED markers

\* setMarker
Mark(i) ==
  /\ GoesWith(i, "mark", "read", Zero)
  /\ markers' = [markers EXCEPT ![KeyOf(i)] =
                   IF routine[i].ts > @ THEN routine[i].ts ELSE @]
  /\ OnlyRoutine

StreamEnds(i) ==
  /\ Goes(i, "read", "retry")
  /\ OnlyRoutine /\ UNCHANGED markers

\* ctx.Err() after streamLogs
Retry(i) ==
  /\ \/ Cancelled(i) /\ Goes(i, "retry", "done")
     \/ ~Cancelled(i) /\ Goes(i, "retry", "backoff")
  /\ OnlyRoutine /\ UNCHANGED markers

\* the backoff's select: the timer or ctx.Done
Backoff(i) ==
  /\ \/ Goes(i, "backoff", "loop")
     \/ Cancelled(i) /\ Goes(i, "backoff", "done")
  /\ OnlyRoutine /\ UNCHANGED markers

-----------------------------------------------------------------------------
(***************************************************************************)
(* Run, after the handlers are added.                                      *)
(***************************************************************************)
OnlyRun == UNCHANGED <<clusterVars, clock, handlerVars, managerVars, markers,
                       routine>>

\* WaitForCacheSync returns: synced, or given up because ctx is done
Synced ==
  /\ run = "sync"
  /\ run' = "serve"
  /\ UNCHANGED ctxDone /\ OnlyRun

\* main's cancel, or the cancelled parent of a test
CancelContext ==
  /\ ~ctxDone
  /\ ctxDone' = TRUE
  /\ UNCHANGED run /\ OnlyRun

\* <-ctx.Done()
StartWaiting ==
  /\ run = "serve"
  /\ ctxDone
  /\ run' = "wait"
  /\ UNCHANGED ctxDone /\ OnlyRun

\* Mutant: Run does not wait for the goroutines.
AllExited_NotWaited == TRUE

AllExited == \A i \in Ids : routine[i].at = "done"

\* wg.Wait()
Return ==
  /\ run = "wait"
  /\ AllExited
  /\ run' = "returned"
  /\ UNCHANGED ctxDone /\ OnlyRun

-----------------------------------------------------------------------------
Cluster ==
  \/ \E k \in Key : ContainerReported(k) \/ ContainerRestarts(k)
  \/ \E p \in Pods : PodDeleted(p) \/ PodCreated(p)
  \/ Tick

Handle ==
  \/ Check \/ Stop \/ Cancel \/ Start \/ Spawn
  \/ DeleteStop \/ DeleteCancel \/ DeleteMarker

Events == \E p \in Pods : PodEvent(p) \/ DeleteEvent(p)

Advance(i) ==
  \/ OpenPrevious(i) \/ Resolve(i) \/ Lookup(i) \/ Put(i) \/ Loop(i)
  \/ Open(i) \/ Mark(i) \/ Retry(i) \/ Backoff(i)

Ingest(i) == ReadPrevious(i) \/ Read(i)

EndOfStream(i) == PreviousEnds(i) \/ StreamEnds(i)

RunSteps == Synced \/ StartWaiting \/ Return

Next ==
  \/ Cluster
  \/ Events
  \/ Handle
  \/ \E i \in Ids : Advance(i) \/ Ingest(i) \/ EndOfStream(i)
  \/ RunSteps
  \/ CancelContext

Spec == Init /\ [][Next]_vars

(* The handler and every goroutine keep running; a log stream need not end *)
(* before its context is cancelled, but then it does, after the lines it   *)
(* has buffered; the informer goes on delivering events (its resync); the  *)
(* clock, the cluster and cancel are free.  No goroutine is started twice  *)
(* for one change, which bounds their number.                              *)
MaxRoutines == Cardinality(Key) * (1 + MaxChanges)

Fairness ==
  /\ WF_vars(Handle) /\ WF_vars(RunSteps)
  /\ \A p \in Pods : SF_vars(PodEvent(p)) /\ SF_vars(DeleteEvent(p))
  /\ \A i \in 1 .. MaxRoutines :
       /\ WF_vars(i \in Ids /\ Advance(i))
       /\ SF_vars(i \in Ids /\ Cancelled(i) /\ EndOfStream(i))

FairSpec == Spec /\ Fairness

-----------------------------------------------------------------------------
(***************************************************************************)
(* Properties                                                              *)
(***************************************************************************)
Live(i) == routine[i].at # "done" /\ ~Cancelled(i)

(* A goroutine that is not cancelled is the one whose cancel function the  *)
(* Manager holds, in m.cancels or in the hands of stopContainer, and not   *)
(* both: none is leaked, and no container has two of them, however         *)
(* restarts, deletions and reconciliations follow one another.             *)
OneTailer ==
  \A i \in Ids : Live(i) =>
    \/ cancels[routine[i].key] = i
    \/ cancels[routine[i].key] = Absent /\ held = i

(* Between two events the goroutine registered for a container was started *)
(* for the RestartCount last seen, so it has read, or will read, the log   *)
(* of the instance before it: no restart the informer reported is missed.  *)
RestartFollowed ==
  step = "idle" =>
    \A k \in Key :
      IF status[k] = Absent
        THEN cancels[k] = Absent
        ELSE /\ cancels[k] \in Ids
             /\ routine[cancels[k]].count = status[k]

(* What main relies on when it closes the queue after Run has returned     *)
(* (manager.go:112-116): no goroutine is reading a stream, so none can     *)
(* call Sink.Enqueue, although the handler may still start goroutines.     *)
NoEnqueueAfterRun ==
  run = "returned" =>
    \A i \in Ids : routine[i].at \notin {"readPrev", "read", "mark"}

(* resolveMarker's race with setMarker is settled in setMarker's favour:   *)
(* while a container keeps its marker the marker never goes back, whoever  *)
(* of an old and a new goroutine writes it and whatever the store answers. *)
MarkersAdvance ==
  [][ \A k \in Key :
        markers[k] # Absent /\ markers'[k] # Absent
          => markers'[k] >= markers[k] ]_vars

(* Shutdown ends: once ctx is cancelled Run returns, whatever stream, retry *)
(* or backoff its goroutines are in.                                        *)
RunReturns == ctxDone ~> (run = "returned")

(* Every container of the namespace is tailed: when its pod is there to    *)
(* stay and lists it in its status, a live goroutine started for the       *)
(* instance that runs follows it for ever, whatever restarts and deletions *)
(* came before.                                                            *)
Tailed(k, n) ==
  \E i \in Ids : routine[i].key = k /\ routine[i].count = n /\ Live(i)

EventuallyTailed ==
  \A k \in Key :
    <>[](k \in reported /\ k[1] # SelfPod /\ ~ctxDone)
      => <>[]Tailed(k, restarts[k])
=============================================================================
