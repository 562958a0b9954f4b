---------------------------- MODULE ManagerProofs ----------------------------
(***************************************************************************)
(* Theorems about the tailer manager for all pods, all containers and any  *)
(* number of restarts, deletions and goroutines.                           *)
(***************************************************************************)
EXTENDS Manager, FiniteSetTheorems, SequenceTheorems,
        TLAPS

(***************************************************************************)
(* The inductive invariant.                                                *)
(***************************************************************************)

Reconciling == {"check", "stop", "cancel", "start", "spawn"}
Deleting    == {"delStop", "delCancel", "delMarker"}

(* The handler has containers left exactly while it is handling an event,  *)
(* and while it reconciles a pod it has their RestartCounts.               *)
Looping ==
  /\ step = "idle" <=> queue = <<>>
  /\ step \in Reconciling =>
       \A c \in ToSet(queue) : status[<<pod, c>>] \in Nat

\* the containers of the event's pod that the loop has not finished
InHand(k) == k[1] = pod /\ k[2] \in ToSet(queue)

(* A registered goroutine was started for its key, for the RestartCount    *)
(* remembered with it; between startContainer's unlock and its go          *)
(* statement the one registered is the next to be started.                 *)
RegisteredOK ==
  /\ \A k \in Key :
       /\ cancels[k] \in Ids =>
            /\ routine[cancels[k]].key = k
            /\ routine[cancels[k]].count = restartCounts[k]
       /\ cancels[k] = Len(routine) + 1 => step = "spawn" /\ k = CurrentKey
  /\ step = "spawn" =>
       /\ cancels[CurrentKey] = Len(routine) + 1
       /\ restartCounts[CurrentKey] = status[CurrentKey]
  /\ step \in {"cancel", "start", "delCancel", "delMarker"} =>
       cancels[CurrentKey] = Absent
  /\ held # Absent => step \in {"cancel", "delCancel"}

\* Cancelling is what takes a goroutine out of stopContainer's hands, and
\* stopContainer what takes it out of m.cancels.
NotLeaked ==
  \A i \in Ids :
    \/ routine[i].cancelled
    \/ cancels[routine[i].key] = i
    \/ cancels[routine[i].key] = Absent /\ held = i

\* RestartFollowed, of every key that is not in the handler's hands
Followed ==
  /\ step \in Deleting => \A k \in Key : k[1] = pod => status[k] = Absent
  /\ \A k \in Key :
       \/ InHand(k)
       \/ /\ status[k] # Absent
          /\ cancels[k] \in Ids
          /\ routine[cancels[k]].count = status[k]
       \/ /\ status[k] = Absent
          /\ cancels[k] = Absent

(* Run returns with its context done and every goroutine gone; one that is *)
(* started later finds the context done and never opens a stream.          *)
Stopped ==
  /\ run \in {"wait", "returned"} => ctxDone
  /\ NoEnqueueAfterRun

Followers == Looping /\ RegisteredOK /\ NotLeaked /\ Followed

-----------------------------------------------------------------------------
(***************************************************************************)
(* The handler's queue of containers.                                      *)
(***************************************************************************)
LEMMA TakeHead ==
  ASSUME NEW S, NEW s \in Seq(S), s # <<>>
  PROVE  /\ Head(s) \in S /\ Tail(s) \in Seq(S)
         /\ ToSet(s) = {Head(s)} \union ToSet(Tail(s))
         /\ Len(s) = 1 <=> Tail(s) = <<>>
<1>1. /\ Len(s) \in Nat \ {0} /\ DOMAIN s = 1 .. Len(s)
      /\ Len(Tail(s)) = Len(s) - 1 /\ Tail(s) \in Seq(S) /\ Head(s) \in S
      /\ DOMAIN Tail(s) = 1 .. Len(s) - 1 /\ Head(s) = s[1]
  BY EmptySeq, LenProperties, HeadTailProperties
<1>2. ASSUME NEW i \in 1 .. Len(s)
      PROVE  s[i] \in {Head(s)} \union ToSet(Tail(s))
  <2>1. CASE i = 1
    BY <1>1, <2>1
  <2>2. CASE i # 1
    <3>1. i - 1 \in 1 .. Len(Tail(s)) /\ (i - 1) + 1 = i
      BY <1>1, <2>2
    <3>2. Tail(s)[i - 1] = s[i]
      BY <3>1, HeadTailProperties
    <3>. QED
      BY <1>1, <3>1, <3>2 DEF ToSet
  <2>. QED
    BY <2>1, <2>2
<1>4. \A i \in 1 .. Len(Tail(s)) : Tail(s)[i] = s[i + 1] /\ i + 1 \in 1 .. Len(s)
  BY <1>1, HeadTailProperties
<1>5. ToSet(Tail(s)) \subseteq ToSet(s) /\ Head(s) \in ToSet(s)
  BY <1>1, <1>4 DEF ToSet
<1>3. Len(s) = 1 <=> Tail(s) = <<>>
  <2>1. Tail(s) = <<>> <=> Len(Tail(s)) = 0
    BY <1>1, EmptySeq, Zenon
  <2>. QED
    BY <1>1, <2>1
<1>6. ToSet(s) \subseteq {Head(s)} \union ToSet(Tail(s))
  BY <1>1, <1>2 DEF ToSet
<1>. QED
  BY <1>1, <1>3, <1>5, <1>6

LEMMA Listing ==
  ASSUME NEW S, IsFiniteSet(S), NEW s \in SetToSeqs(S)
  PROVE  s \in Seq(S) /\ ToSet(s) = S
<1> DEFINE n == Cardinality(S)
<1>1. n \in Nat
  BY FS_CardinalityType
<1>2. s \in [1 .. n -> S] /\ (\A i, j \in 1 .. n : i # j => s[i] # s[j])
  BY DEF SetToSeqs
<1>3. s \in Injection(1 .. n, S)
  BY <1>2 DEF Injection, IsInjective
<1>4. Cardinality(1 .. n) = n
  BY <1>1, FS_Interval
<1>5. s \in Surjection(1 .. n, S)
  BY <1>3, <1>4, FS_Injection
<1>6. \A x \in S : \E i \in 1 .. n : s[i] = x
  BY <1>5 DEF Surjection
<1>7. DOMAIN s = 1 .. n /\ s \in Seq(S)
  BY <1>1, <1>2
<1>. QED
  BY <1>2, <1>6, <1>7 DEF ToSet

LEMMA InHandAgain ==
  ASSUME TypeOK, Looping, step # "idle", NEW label, label # "idle",
         label \in Reconciling => step \in Reconciling,
         NextContainer(label), pod' = pod, status' = status
  PROVE  /\ queue' \in Seq(Containers)
         /\ Looping'
         /\ CurrentKey \in Key
         /\ step' \in {"idle", label}
         /\ \A k \in Key : InHand(k) => InHand(k)' \/ k = CurrentKey
<1>1. queue \in Seq(Containers) /\ queue # <<>>
  BY DEF TypeOK, Looping
<1>2. /\ Head(queue) \in Containers /\ Tail(queue) \in Seq(Containers)
      /\ ToSet(queue) = {Head(queue)} \union ToSet(Tail(queue))
      /\ Len(queue) = 1 <=> Tail(queue) = <<>>
  BY <1>1, TakeHead
<1>3. \A k \in Key : k = <<k[1], k[2]>>
  BY DEF Key
<1>4. CurrentKey \in Key
  BY <1>2 DEF CurrentKey, Key, TypeOK
<1>5. \A c \in ToSet(queue') : c \in ToSet(queue)
  BY <1>2 DEF NextContainer
<1>6. Looping'
  BY <1>2, <1>5 DEF NextContainer, Looping, Reconciling
<1>. QED
  BY <1>2, <1>3, <1>4, <1>6 DEF NextContainer, InHand, CurrentKey

-----------------------------------------------------------------------------
(***************************************************************************)
(* What a step of a goroutine does to m.routine: it moves one goroutine on *)
(* and leaves what the Manager knows it by; and once Run's context is done *)
(* no step leads into a stream.                                            *)
(***************************************************************************)
Reading == {"readPrev", "read", "mark"}

RoutineStep(i) == Advance(i) \/ Ingest(i) \/ EndOfStream(i)

SameTailers ==
  /\ Len(routine') = Len(routine)
  /\ \A j \in Ids : /\ routine'[j].key = routine[j].key
                    /\ routine'[j].count = routine[j].count
                    /\ routine'[j].cancelled = routine[j].cancelled

Moved(i, to) ==
  /\ routine' \in Seq(Routine)
  /\ SameTailers
  /\ \A j \in Ids : routine'[j].at = IF j = i THEN to ELSE routine[j].at

LEMMA RoutineType ==
  ASSUME TypeOK, NEW i \in Ids
  PROVE  routine \in Seq(Routine) /\ routine[i] \in Routine
BY LenProperties, ElementOfSeq DEF TypeOK, Ids

LEMMA GoesMoves ==
  ASSUME TypeOK, NEW i \in Ids, NEW from, NEW to \in RoutineSteps,
         Goes(i, from, to)
  PROVE  Moved(i, to) /\ routine[i].at = from
<1> DEFINE r == [routine[i] EXCEPT !.at = to]
<1>1. routine \in Seq(Routine) /\ routine[i] \in Routine
  BY RoutineType
<1>2. /\ r \in Routine /\ r.at = to /\ r.key = routine[i].key
      /\ r.count = routine[i].count /\ r.cancelled = routine[i].cancelled
  BY <1>1 DEF Routine
<1>3. routine' = [routine EXCEPT ![i] = r] /\ routine[i].at = from
  BY DEF Goes
<1> HIDE DEF r
<1>4. /\ routine' \in Seq(Routine) /\ Len(routine') = Len(routine)
      /\ \A j \in Ids : routine'[j] = IF j = i THEN r ELSE routine[j]
  BY <1>1, <1>2, <1>3, ExceptSeq DEF Ids
<1>. QED
  BY <1>2, <1>3, <1>4 DEF Moved, SameTailers

LEMMA GoesWithMoves ==
  ASSUME TypeOK, NEW i \in Ids, NEW from, NEW to \in RoutineSteps,
         NEW ts \in 0 .. MaxClock, GoesWith(i, from, to, ts)
  PROVE  Moved(i, to) /\ routine[i].at = from
<1> DEFINE r == [routine[i] EXCEPT !.at = to, !.ts = ts]
<1>1. routine \in Seq(Routine) /\ routine[i] \in Routine
  BY RoutineType
<1>2. /\ r \in Routine /\ r.at = to /\ r.key = routine[i].key
      /\ r.count = routine[i].count /\ r.cancelled = routine[i].cancelled
  BY <1>1 DEF Routine
<1>3. routine' = [routine EXCEPT ![i] = r] /\ routine[i].at = from
  BY DEF GoesWith
<1> HIDE DEF r
<1>4. /\ routine' \in Seq(Routine) /\ Len(routine') = Len(routine)
      /\ \A j \in Ids : routine'[j] = IF j = i THEN r ELSE routine[j]
  BY <1>1, <1>2, <1>3, ExceptSeq DEF Ids
<1>. QED
  BY <1>2, <1>3, <1>4 DEF Moved, SameTailers

LEMMA RoutineStepMoves ==
  ASSUME TypeOK, NEW i \in Ids, RoutineStep(i)
  PROVE  /\ OnlyRoutine
         /\ markers' \in [Key -> {Absent} \union 0 .. MaxClock]
         /\ \E to \in RoutineSteps :
              /\ Moved(i, to)
              /\ ctxDone /\ routine[i].at \notin Reading => to \notin Reading
<1>1. /\ routine[i] \in Routine /\ KeyOf(i) \in Key
      /\ routine[i].ts \in 0 .. MaxClock
  BY RoutineType DEF Routine, KeyOf
<1>2. OnlyRoutine
  BY DEF RoutineStep, Advance, Ingest, EndOfStream, OpenPrevious, ReadPrevious,
         PreviousEnds, Resolve, Lookup, Put, Loop, Open, Read, Mark, StreamEnds,
         Retry, Backoff
<1>3. markers' \in [Key -> {Absent} \union 0 .. MaxClock]
  <2>1. CASE Put(i)
    BY <1>1, <2>1 DEF Put, TypeOK
  <2>2. CASE Mark(i)
    BY <1>1, <2>2 DEF Mark, TypeOK
  <2>3. CASE UNCHANGED markers
    BY <2>3 DEF TypeOK
  <2>. QED
    BY <2>1, <2>2, <2>3
       DEF RoutineStep, Advance, Ingest, EndOfStream, OpenPrevious,
           ReadPrevious, PreviousEnds, Resolve, Lookup, Loop, Open, Read,
           StreamEnds, Retry, Backoff
<1>4. \E from, to \in RoutineSteps :
        /\ \/ Goes(i, from, to)
           \/ \E ts \in 0 .. MaxClock : GoesWith(i, from, to, ts)
        /\ ctxDone /\ from \notin Reading => to \notin Reading
  <2> USE DEF RoutineSteps, Reading
  <2>1. CASE OpenPrevious(i)
    BY <2>1 DEF OpenPrevious, Cancelled
  <2>2. CASE Resolve(i) \/ Loop(i) \/ Open(i) \/ Retry(i) \/ Backoff(i)
    BY <2>2 DEF Resolve, Loop, Open, Retry, Backoff, Cancelled
  <2>3. CASE Lookup(i)
    <3>1. PICK ts \in 0 .. clock : GoesWith(i, "lookup", "put", ts)
      BY <2>3 DEF Lookup
    <3>2. ts \in 0 .. MaxClock
      BY ManagerAssumption DEF TypeOK
    <3>. QED
      BY <3>1, <3>2
  <2>4. CASE Put(i) \/ Mark(i)
    <3>1. Zero \in 0 .. MaxClock
      BY ManagerAssumption DEF Zero
    <3>. QED
      BY <2>4, <3>1 DEF Put, Mark
  <2>5. CASE Read(i)
    <3>1. Stamp \in 0 .. MaxClock
      BY ManagerAssumption DEF Stamp, TypeOK
    <3>. QED
      BY <2>5, <3>1 DEF Read
  <2>6. CASE ReadPrevious(i) \/ PreviousEnds(i) \/ StreamEnds(i)
    BY <2>6 DEF ReadPrevious, PreviousEnds, StreamEnds
  <2>. QED
    BY <2>1, <2>2, <2>3, <2>4, <2>5, <2>6
       DEF RoutineStep, Advance, Ingest, EndOfStream
<1>. QED
  BY <1>2, <1>3, <1>4, GoesMoves, GoesWithMoves

(***************************************************************************)
(* What the handler does to m.routine.                                     *)
(***************************************************************************)
LEMMA CallCancelStops ==
  ASSUME TypeOK, CallCancel
  PROVE  /\ routine' \in Seq(Routine)
         /\ Len(routine') = Len(routine)
         /\ \A j \in Ids :
              /\ routine'[j].key = routine[j].key
              /\ routine'[j].count = routine[j].count
              /\ routine'[j].at = routine[j].at
              /\ routine'[j].cancelled <=> routine[j].cancelled \/ j = held
<1> DEFINE r(j) == [routine[j] EXCEPT !.cancelled = @ \/ Cancelling(j)]
<1>1. routine \in Seq(Routine) /\ Len(routine) \in Nat
  BY LenProperties DEF TypeOK
<1>2. ASSUME NEW j \in Ids
      PROVE  /\ r(j) \in Routine
             /\ r(j).key = routine[j].key
             /\ r(j).count = routine[j].count
             /\ r(j).at = routine[j].at
             /\ r(j).cancelled <=> routine[j].cancelled \/ j = held
  <2>1. routine[j] \in Routine /\ Cancelling(j) \in BOOLEAN
    BY RoutineType DEF Cancelling
  <2>2. routine[j].cancelled \in BOOLEAN
    BY <2>1 DEF Routine
  <2>. QED
    BY <2>1, <2>2 DEF Routine, Cancelling
<1>3. routine' = [j \in 1 .. Len(routine) |-> r(j)]
  BY DEF CallCancel, Ids
<1> HIDE DEF r
<1>4. routine' \in Seq(Routine)
  BY <1>1, <1>2, <1>3, IsASeq DEF Ids
<1>5. Len(routine') = Len(routine)
  BY <1>1, <1>3, <1>4, LenProperties
<1>6. \A j \in Ids : routine'[j] = r(j)
  BY <1>3 DEF Ids
<1>. QED
  BY <1>2, <1>4, <1>5, <1>6

LEMMA SpawnAppends ==
  ASSUME TypeOK, Looping, Spawn
  PROVE  /\ routine' \in Seq(Routine)
         /\ Len(routine') = Len(routine) + 1
         /\ \A j \in Ids : routine'[j] = routine[j]
         /\ routine'[Len(routine) + 1] =
              [key |-> CurrentKey, count |-> status[CurrentKey],
               cancelled |-> FALSE, at |-> "prev", ts |-> Zero]
<1> DEFINE r == [key |-> CurrentKey, count |-> status[CurrentKey],
                 cancelled |-> FALSE, at |-> "prev", ts |-> Zero]
<1>1. CurrentKey \in Key /\ status[CurrentKey] \in Nat
  <2>1. step = "spawn" /\ queue \in Seq(Containers) /\ queue # <<>>
    BY DEF Spawn, Looping, TypeOK
  <2>2. Head(queue) \in Containers /\ Head(queue) \in ToSet(queue)
    BY <2>1, TakeHead
  <2>. QED
    BY <2>1, <2>2 DEF Looping, Reconciling, CurrentKey, Key, TypeOK
<1>2. Zero \in 0 .. MaxClock /\ status[CurrentKey] \in Nat
  BY <1>1, ManagerAssumption DEF Zero, TypeOK
<1>3. r \in Routine
  BY <1>1, <1>2 DEF Routine, RoutineSteps
<1>4. routine' = Append(routine, r) /\ routine \in Seq(Routine)
  BY DEF Spawn, TypeOK
<1> HIDE DEF r
<1>5. /\ routine' \in Seq(Routine) /\ Len(routine') = Len(routine) + 1
      /\ routine'[Len(routine) + 1] = r
      /\ \A j \in 1 .. Len(routine) : routine'[j] = routine[j]
  BY <1>3, <1>4, AppendProperties
<1>. QED
  BY <1>5 DEF r, Ids

-----------------------------------------------------------------------------
(***************************************************************************)
(* Types                                                                   *)
(***************************************************************************)
LEMMA EventSteps ==
  ASSUME TypeOK, NEW p \in Pods, PodEvent(p) \/ DeleteEvent(p)
  PROVE  TypeOK' /\ Looping'
<1>1. CASE PodEvent(p)
  <2> DEFINE listed == {c \in Containers : <<p, c>> \in reported}
  <2>1. listed \subseteq Containers /\ IsFiniteSet(listed)
    BY ManagerAssumption, FS_Subset
  <2>2. queue' \in SetToSeqs(listed)
    BY <1>1 DEF PodEvent
  <2>3. queue' \in Seq(listed) /\ ToSet(queue') = listed
    BY <2>1, <2>2, Listing
  <2>4. queue' \in Seq(Containers)
    BY <2>1, <2>3, SeqMonotonic
  <2>5. status' = [k \in Key |-> IF k[1] = p /\ k[2] \in listed
                                   THEN restarts[k] ELSE status[k]]
    BY <1>1 DEF PodEvent
  <2>6. \A c \in listed : status'[<<p, c>>] \in Nat
    BY <2>1, <2>5 DEF TypeOK, Key
  <2>7. status' \in [Key -> Nat \union {Absent}]
    BY <2>5 DEF TypeOK
  <2>8. pod' = p /\ step' = IF queue' = <<>> THEN "idle" ELSE "check"
    BY <1>1 DEF PodEvent
  <2> HIDE DEF listed
  <2>9. Looping'
    BY <2>3, <2>6, <2>8 DEF Looping, Reconciling
  <2>. QED
    BY <1>1, <2>4, <2>7, <2>8, <2>9
       DEF PodEvent, TypeOK, HandlerSteps, managerVars, runVars, Ids
<1>2. CASE DeleteEvent(p)
  <2>1. Registered(p) \subseteq Containers /\ IsFiniteSet(Registered(p))
    BY ManagerAssumption, FS_Subset DEF Registered
  <2>2. queue' \in Seq(Registered(p))
    BY <1>2, <2>1, Listing DEF DeleteEvent
  <2>3. queue' \in Seq(Containers)
    BY <2>1, <2>2, SeqMonotonic
  <2>4. status' \in [Key -> Nat \union {Absent}]
    BY <1>2 DEF DeleteEvent, TypeOK
  <2>5. Looping'
    BY <1>2 DEF DeleteEvent, Looping, Reconciling
  <2>. QED
    BY <1>2, <2>3, <2>4, <2>5
       DEF DeleteEvent, TypeOK, HandlerSteps, managerVars, runVars, Ids
<1>. QED
  BY <1>1, <1>2

LEMMA HandleTypes ==
  ASSUME TypeOK, Looping, Handle
  PROVE  TypeOK' /\ Looping'
<1>1. step # "idle" /\ step \in HandlerSteps
  BY DEF Handle, Check, Stop, Cancel, Start, Spawn, DeleteStop, DeleteCancel,
         DeleteMarker, TypeOK
<1>2. Len(routine) \in Nat
  BY LenProperties DEF TypeOK
<1>3. CASE Check
  <2>1. CASE NextContainer("check")
    <3>1. UNCHANGED <<pod, status>> /\ step \in Reconciling
      BY <1>3 DEF Check, Reconciling
    <3>2. queue' \in Seq(Containers) /\ Looping' /\ step' \in HandlerSteps
      BY <1>1, <2>1, <3>1, InHandAgain DEF HandlerSteps
    <3>. QED
      BY <1>3, <3>2
         DEF Check, TypeOK, HandlerSteps, clusterVars, managerVars, runVars, Ids
  <2>2. CASE Goto("stop")
    BY <1>1, <1>3, <2>2
       DEF Check, Goto, TypeOK, HandlerSteps, Looping, Reconciling,
           clusterVars, managerVars, runVars, Ids
  <2>. QED
    BY <1>3, <2>1, <2>2 DEF Check
<1>4. CASE Stop \/ DeleteStop
  <2>1. CurrentKey \in Key
    BY <1>1, TakeHead DEF TypeOK, Looping, CurrentKey, Key
  <2>2. TakeCancel(CurrentKey)
    BY <1>4 DEF Stop, DeleteStop
  <2>3. /\ cancels' \in [Key -> Nat \union {Absent}]
        /\ \A k \in Key : cancels'[k] # Absent => cancels'[k] = cancels[k]
    BY <2>1, <2>2 DEF TakeCancel, TypeOK
  <2>4. held' \in Nat \union {Absent}
    BY <2>1, <2>2 DEF TakeCancel, TypeOK
  <2>5. Looping'
    BY <1>1, <1>4
       DEF Stop, DeleteStop, Goto, TakeCancel, Looping, Reconciling
  <2>. QED
    BY <1>1, <1>4, <2>2, <2>3, <2>4, <2>5
       DEF Stop, DeleteStop, TakeCancel, Goto, TypeOK, HandlerSteps,
           clusterVars, runVars, Ids
<1>8. CASE Cancel \/ DeleteCancel
  <2>1. CallCancel
    BY <1>8 DEF Cancel, DeleteCancel
  <2>2. routine' \in Seq(Routine) /\ Len(routine') = Len(routine)
    BY <2>1, CallCancelStops
  <2>3. Looping'
    BY <1>1, <1>8
       DEF Cancel, DeleteCancel, Goto, CallCancel, Looping, Reconciling
  <2>. QED
    BY <1>1, <1>8, <2>1, <2>2, <2>3
       DEF Cancel, DeleteCancel, CallCancel, Goto, TypeOK, HandlerSteps,
           clusterVars, managerVars, runVars, Ids
<1>5. CASE Start
  <2>1. CurrentKey \in Key
    BY <1>1, TakeHead DEF TypeOK, Looping, CurrentKey, Key
  <2>2. /\ cancels' = [cancels EXCEPT ![CurrentKey] = Len(routine) + 1]
        /\ restartCounts' =
             [restartCounts EXCEPT ![CurrentKey] = status[CurrentKey]]
    BY <1>5 DEF Start
  <2>3. /\ cancels' \in [Key -> Nat \union {Absent}]
        /\ \A k \in Key : cancels'[k] # Absent
                             => cancels'[k] \in 1 .. Len(routine) + 1
    BY <1>2, <2>1, <2>2 DEF TypeOK
  <2>4. restartCounts' \in [Key -> Nat \union {Absent}]
    BY <2>1, <2>2 DEF TypeOK
  <2>5. Looping'
    BY <1>1, <1>5 DEF Start, Goto, Looping, Reconciling
  <2>. QED
    BY <1>1, <1>5, <2>3, <2>4, <2>5
       DEF Start, Goto, TypeOK, HandlerSteps, clusterVars, runVars, Ids
<1>6. CASE Spawn
  <2>1. routine' \in Seq(Routine) /\ Len(routine') = Len(routine) + 1
    BY <1>6, SpawnAppends
  <2>2. UNCHANGED cancels
    BY <1>6 DEF Spawn, managerVars
  <2>3. \A k \in Key : cancels'[k] # Absent
                         => cancels'[k] \in 1 .. Len(routine') + 1
    BY <1>2, <2>1, <2>2 DEF TypeOK
  <2>4. queue' \in Seq(Containers) /\ Looping' /\ step' \in HandlerSteps
    BY <1>1, <1>6, InHandAgain DEF Spawn, HandlerSteps, Reconciling
  <2>. QED
    BY <1>6, <2>1, <2>2, <2>3, <2>4
       DEF Spawn, TypeOK, clusterVars, managerVars, runVars
<1>7. CASE DeleteMarker
  <2>1. /\ CurrentKey \in Key /\ queue' \in Seq(Containers) /\ Looping'
        /\ step' \in HandlerSteps
    BY <1>1, <1>7, InHandAgain DEF DeleteMarker, HandlerSteps, Reconciling
  <2>2. markers' \in [Key -> {Absent} \union 0 .. MaxClock]
    BY <1>7, <2>1 DEF DeleteMarker, TypeOK
  <2>. QED
    BY <1>7, <2>1, <2>2
       DEF DeleteMarker, TypeOK, clusterVars, managerVars, runVars
<1>. QED
  BY <1>3, <1>4, <1>5, <1>6, <1>7, <1>8 DEF Handle

LEMMA ClusterTypes ==
  ASSUME TypeOK, Looping, Cluster \/ RunSteps \/ CancelContext
  PROVE  TypeOK' /\ Looping'
<1> USE DEF clusterVars, handlerVars, managerVars, runVars, TypeOK, Looping
<1>1. ASSUME NEW k \in Key, ContainerRestarts(k) PROVE TypeOK' /\ Looping'
  BY <1>1, ManagerAssumption DEF ContainerRestarts, Change
<1>6. ASSUME NEW k \in Key, ContainerReported(k) PROVE TypeOK' /\ Looping'
  <2>1. reported' \subseteq Key
    BY <1>6 DEF ContainerReported
  <2>. QED
    BY <1>6, <2>1 DEF ContainerReported
<1>2. ASSUME NEW p \in Pods, PodDeleted(p) PROVE TypeOK' /\ Looping'
  BY <1>2, ManagerAssumption DEF PodDeleted, Change
<1>3. ASSUME NEW p \in Pods, PodCreated(p) PROVE TypeOK' /\ Looping'
  BY <1>3, ManagerAssumption DEF PodCreated, Change
<1>4. CASE Tick
  BY <1>4, ManagerAssumption DEF Tick
<1>5. CASE RunSteps \/ CancelContext
  BY <1>5 DEF RunSteps, Synced, StartWaiting, Return, CancelContext, OnlyRun
<1>. QED
  BY <1>1, <1>2, <1>3, <1>4, <1>5, <1>6 DEF Cluster

(* The Manager's maps, its goroutines and the handler's loop are well      *)
(* formed in every state; a cancel function registered for a container is  *)
(* that of a goroutine started or about to be.                             *)
THEOREM TypeCorrect == Spec => [](TypeOK /\ Looping)
<1>1. Init => TypeOK /\ Looping
  <2> SUFFICES ASSUME Init PROVE TypeOK /\ Looping
    OBVIOUS
  <2>1. queue \in Seq(Containers) /\ routine \in Seq(Routine)
    BY EmptySeq DEF Init
  <2>2. /\ restarts \in [Key -> Nat] /\ reported \subseteq Key
        /\ status \in [Key -> Nat \union {Absent}]
        /\ held \in Nat \union {Absent}
        /\ cancels \in [Key -> Nat \union {Absent}]
        /\ restartCounts \in [Key -> Nat \union {Absent}]
        /\ markers \in [Key -> {Absent} \union 0 .. MaxClock]
    BY DEF Init, Key
  <2>3. \A k \in Key : cancels[k] = Absent
    BY DEF Init
  <2>4. /\ exists \subseteq Pods /\ deleted \subseteq Pods /\ seen \subseteq Pods
        /\ changes \in 0 .. MaxChanges /\ clock \in 1 .. MaxClock
    BY ManagerAssumption DEF Init
  <2>5. /\ step \in HandlerSteps /\ pod \in Pods /\ ctxDone \in BOOLEAN
        /\ run \in {"sync", "serve", "wait", "returned"}
    BY DEF Init, HandlerSteps
  <2>6. Looping
    BY DEF Init, Looping, Reconciling
  <2>. QED
    BY <2>1, <2>2, <2>3, <2>4, <2>5, <2>6 DEF TypeOK
<1>2. TypeOK /\ Looping /\ [Next]_vars => (TypeOK /\ Looping)'
  <2> SUFFICES ASSUME TypeOK, Looping, [Next]_vars
               PROVE  TypeOK' /\ Looping'
    OBVIOUS
  <2>1. CASE Cluster \/ RunSteps \/ CancelContext
    BY <2>1, ClusterTypes
  <2>2. CASE Events
    BY <2>2, EventSteps DEF Events
  <2>3. CASE Handle
    BY <2>3, HandleTypes
  <2>4. ASSUME NEW i \in Ids, RoutineStep(i) PROVE TypeOK' /\ Looping'
    <3>1. /\ OnlyRoutine /\ routine' \in Seq(Routine)
          /\ Len(routine') = Len(routine)
          /\ markers' \in [Key -> {Absent} \union 0 .. MaxClock]
      BY <2>4, RoutineStepMoves DEF Moved, SameTailers
    <3>. QED
      BY <3>1 DEF OnlyRoutine, TypeOK, Looping, clusterVars, handlerVars,
                  managerVars, runVars
  <2>5. CASE UNCHANGED vars
    BY <2>5 DEF vars, clusterVars, handlerVars, managerVars, runVars, TypeOK,
                Looping
  <2>. QED
    BY <2>1, <2>2, <2>3, <2>4, <2>5 DEF Next, RoutineStep
<1>. QED
  BY <1>1, <1>2, PTL DEF Spec

-----------------------------------------------------------------------------
(***************************************************************************)
(* One goroutine per container, started for the instance last reported.    *)
(***************************************************************************)
LEMMA QuietSteps ==
  ASSUME TypeOK, Followers, UNCHANGED <<handlerVars, managerVars>>,
         SameTailers
  PROVE  Followers'
<1>1. /\ UNCHANGED <<status, step, pod, queue, held, cancels, restartCounts>>
      /\ Ids' = Ids /\ Len(routine') = Len(routine)
      /\ CurrentKey' = CurrentKey
      /\ \A j \in Ids : /\ routine'[j].key = routine[j].key
                        /\ routine'[j].count = routine[j].count
                        /\ routine'[j].cancelled = routine[j].cancelled
  BY DEF handlerVars, managerVars, SameTailers, Ids, CurrentKey
<1>2. Looping' /\ RegisteredOK'
  BY <1>1 DEF Followers, Looping, RegisteredOK
<1>3. NotLeaked'
  BY <1>1 DEF Followers, NotLeaked
<1>4. Followed'
  BY <1>1 DEF Followers, Followed, InHand
<1>. QED
  BY <1>2, <1>3, <1>4 DEF Followers

LEMMA SameRoutines ==
  ASSUME UNCHANGED routine
  PROVE  SameTailers
BY DEF SameTailers

LEMMA KeyParts ==
  ASSUME NEW k \in Key
  PROVE  k[1] \in Pods /\ k[2] \in Containers /\ k = <<k[1], k[2]>>
BY DEF Key

LEMMA PodEventFollows ==
  ASSUME TypeOK, Followers, NEW p \in Pods, PodEvent(p)
  PROVE  Followers'
<1> DEFINE listed == {c \in Containers : <<p, c>> \in reported}
<1>1. /\ UNCHANGED <<cancels, restartCounts, routine, held>> /\ Ids' = Ids
      /\ step = "idle" /\ step' \in {"idle", "check"} /\ pod' = p
      /\ queue' \in SetToSeqs(listed)
      /\ status' = [k \in Key |-> IF k[1] = p /\ k[2] \in listed
                                    THEN restarts[k] ELSE status[k]]
  BY DEF PodEvent, managerVars, Ids
<1>2. ToSet(queue') = listed
  <2>1. IsFiniteSet(listed)
    BY ManagerAssumption, FS_Subset
  <2>. QED
    BY <1>1, <2>1, Listing
<1> HIDE DEF listed
<1>3. \A k \in Key : InHand(k)' \/ status'[k] = status[k]
  BY <1>1, <1>2, KeyParts DEF InHand
<1>4. \A k \in Key : ~InHand(k)
  BY <1>1 DEF Followers, Looping, InHand, ToSet
<1>5. Looping'
  BY EventSteps DEF Followers
<1>6. NotLeaked' /\ RegisteredOK'
  BY <1>1 DEF Followers, NotLeaked, RegisteredOK
<1>7. Followed'
  BY <1>1, <1>3, <1>4 DEF Followers, Followed, Deleting
<1>. QED
  BY <1>5, <1>6, <1>7 DEF Followers

LEMMA DeleteEventFollows ==
  ASSUME TypeOK, Followers, NEW p \in Pods, DeleteEvent(p)
  PROVE  Followers'
<1>1. /\ UNCHANGED <<cancels, restartCounts, routine, held>> /\ Ids' = Ids
      /\ step = "idle" /\ step' \in {"idle", "delStop"} /\ pod' = p
      /\ status' = [k \in Key |-> IF k[1] = p THEN Absent ELSE status[k]]
  BY DEF DeleteEvent, managerVars, Ids
<1>2. ToSet(queue') = Registered(p)
  <2>1. IsFiniteSet(Registered(p))
    BY ManagerAssumption, FS_Subset DEF Registered
  <2>. QED
    BY <2>1, Listing DEF DeleteEvent
<1>3. \A k \in Key : k[1] = p => InHand(k)' \/ cancels'[k] = Absent
  BY <1>1, <1>2, KeyParts DEF InHand, Registered
<1>4. \A k \in Key : ~InHand(k)
  BY <1>1 DEF Followers, Looping, InHand, ToSet
<1>5. Looping'
  BY EventSteps DEF Followers
<1>6. NotLeaked' /\ RegisteredOK'
  BY <1>1 DEF Followers, NotLeaked, RegisteredOK
<1>7. Followed'
  <2>1. \A k \in Key : k[1] = p => status'[k] = Absent
    BY <1>1
  <2>2. \A k \in Key : k[1] # p => status'[k] = status[k]
    BY <1>1
  <2>. QED
    BY <1>1, <1>3, <1>4, <2>1, <2>2 DEF Followers, Followed
<1>. QED
  BY <1>5, <1>6, <1>7 DEF Followers

LEMMA CurrentInHand ==
  ASSUME TypeOK, Looping, step # "idle"
  PROVE  /\ CurrentKey \in Key /\ CurrentKey[1] = pod
         /\ InHand(CurrentKey)
<1>1. queue \in Seq(Containers) /\ queue # <<>>
  BY DEF TypeOK, Looping
<1>2. Head(queue) \in Containers
  BY <1>1, TakeHead
<1>3. Head(queue) \in ToSet(queue)
  BY <1>1, EmptySeq, LenProperties DEF ToSet
<1>. QED
  BY <1>2, <1>3 DEF CurrentKey, Key, InHand, TypeOK

LEMMA CurrentTold ==
  ASSUME TypeOK, Looping, step \in Reconciling
  PROVE  status[CurrentKey] \in Nat /\ status[CurrentKey] # Absent
<1>1. queue \in Seq(Containers) /\ queue # <<>>
  BY DEF TypeOK, Looping, Reconciling
<1>2. Head(queue) \in ToSet(queue)
  BY <1>1, TakeHead
<1>. QED
  BY <1>2 DEF Looping, CurrentKey, Absent

LEMMA CheckFollows ==
  ASSUME TypeOK, Followers, Check
  PROVE  Followers'
<1>1. /\ UNCHANGED <<status, pod, held, cancels, restartCounts, routine>>
      /\ Ids' = Ids /\ step = "check" /\ Looping /\ step \in Reconciling
  BY DEF Check, managerVars, Ids, Followers, Reconciling
<1>2. NotLeaked'
  BY <1>1 DEF Followers, NotLeaked
<1>3. CASE AlreadyTailing(CurrentKey) /\ NextContainer("check")
  <2>1. /\ Looping' /\ CurrentKey \in Key /\ step' \in {"idle", "check"}
        /\ \A k \in Key : InHand(k) => InHand(k)' \/ k = CurrentKey
    BY <1>1, <1>3, InHandAgain
  <2>2. /\ cancels[CurrentKey] \in 1 .. Len(routine) + 1
        /\ cancels[CurrentKey] # Len(routine) + 1
        /\ Len(routine) \in Nat
    BY <1>1, <1>3, <2>1, LenProperties
       DEF AlreadyTailing, TypeOK, Followers, RegisteredOK
  <2>3. cancels[CurrentKey] \in Ids
    BY <2>2 DEF Ids
  <2>4. routine[cancels[CurrentKey]].count = status[CurrentKey]
    BY <1>3, <2>1, <2>3 DEF AlreadyTailing, Followers, RegisteredOK
  <2>5. status[CurrentKey] # Absent
    BY <1>1, CurrentTold
  <2>6. RegisteredOK'
    BY <1>1, <2>1 DEF Followers, RegisteredOK
  <2>7. Followed'
    BY <1>1, <2>1, <2>3, <2>4, <2>5 DEF Followers, Followed, Deleting
  <2>. QED
    BY <1>2, <2>1, <2>6, <2>7 DEF Followers
<1>4. CASE Goto("stop")
  BY <1>1, <1>2, <1>4
     DEF Goto, Followers, Looping, RegisteredOK, Followed, InHand, Reconciling,
         Deleting
<1>. QED
  BY <1>3, <1>4 DEF Check

LEMMA StopFollows ==
  ASSUME TypeOK, Followers, Stop \/ DeleteStop
  PROVE  Followers'
<1> DEFINE c == CurrentKey
<1>1. /\ UNCHANGED <<status, pod, queue, restartCounts, routine>> /\ Ids' = Ids
      /\ \/ step = "stop" /\ step' = "cancel"
         \/ step = "delStop" /\ step' = "delCancel"
      /\ held' = cancels[c] /\ cancels' = [cancels EXCEPT ![c] = Absent]
      /\ CurrentKey' = c
  BY DEF Stop, DeleteStop, TakeCancel, Goto, CurrentKey, Ids
<1>2. c \in Key /\ InHand(c) /\ held = Absent
  BY <1>1, CurrentInHand DEF Followers, RegisteredOK
<1>3. \A k \in Key : cancels'[k] = IF k = c THEN Absent ELSE cancels[k]
  BY <1>1, <1>2 DEF TypeOK
<1>4. Absent \notin Ids /\ Absent # Len(routine) + 1
  BY LenProperties DEF Absent, Ids, TypeOK
<1> HIDE DEF c
<1>5. Looping'
  BY <1>1 DEF Followers, Looping, Reconciling
<1>6. RegisteredOK'
  BY <1>1, <1>2, <1>3, <1>4 DEF Followers, RegisteredOK
<1>7. NotLeaked'
  <2> SUFFICES ASSUME NEW i \in Ids, ~routine[i].cancelled
               PROVE  \/ cancels'[routine[i].key] = i
                      \/ cancels'[routine[i].key] = Absent /\ held' = i
    BY <1>1 DEF NotLeaked
  <2>1. cancels[routine[i].key] = i /\ routine[i].key \in Key
    BY <1>2, <1>4, RoutineType DEF Followers, NotLeaked, Routine
  <2>. QED
    BY <1>1, <1>3, <2>1
<1>8. Followed'
  <2>1. \A k \in Key : InHand(k)' <=> InHand(k)
    BY <1>1 DEF InHand
  <2>. QED
    BY <1>1, <1>2, <1>3, <2>1 DEF Followers, Followed, Deleting
<1>. QED
  BY <1>5, <1>6, <1>7, <1>8 DEF Followers

LEMMA CancelFollows ==
  ASSUME TypeOK, Followers, Cancel \/ DeleteCancel
  PROVE  Followers'
<1>1. /\ UNCHANGED <<status, pod, queue, cancels, restartCounts>>
      /\ \/ step = "cancel" /\ step' = "start"
         \/ step = "delCancel" /\ step' = "delMarker"
      /\ CallCancel /\ held' = Absent /\ CurrentKey' = CurrentKey
  BY DEF Cancel, DeleteCancel, CallCancel, Goto, CurrentKey, managerVars
<1>2. /\ Len(routine') = Len(routine) /\ Ids' = Ids
      /\ \A j \in Ids :
           /\ routine'[j].key = routine[j].key
           /\ routine'[j].count = routine[j].count
           /\ routine'[j].cancelled <=> routine[j].cancelled \/ j = held
  BY <1>1, CallCancelStops DEF Ids
<1>3. Looping'
  BY <1>1 DEF Followers, Looping, Reconciling
<1>4. RegisteredOK'
  BY <1>1, <1>2 DEF Followers, RegisteredOK
<1>5. NotLeaked'
  BY <1>1, <1>2 DEF Followers, NotLeaked
<1>6. Followed'
  <2>1. \A k \in Key : InHand(k)' <=> InHand(k)
    BY <1>1 DEF InHand
  <2>. QED
    BY <1>1, <1>2, <2>1 DEF Followers, Followed, Deleting
<1>. QED
  BY <1>3, <1>4, <1>5, <1>6 DEF Followers

LEMMA StartFollows ==
  ASSUME TypeOK, Followers, Start
  PROVE  Followers'
<1> DEFINE c == CurrentKey
<1>1. /\ UNCHANGED <<status, pod, queue, held, routine>>
      /\ step = "start" /\ step' = "spawn"
      /\ cancels' = [cancels EXCEPT ![c] = Len(routine) + 1]
      /\ restartCounts' = [restartCounts EXCEPT ![c] = status[c]]
      /\ CurrentKey' = c /\ Ids' = Ids
  BY DEF Start, Goto, CurrentKey, Ids
<1>2. c \in Key /\ InHand(c) /\ cancels[c] = Absent /\ held = Absent
  BY <1>1, CurrentInHand DEF Followers, RegisteredOK
<1>3. /\ \A k \in Key : /\ cancels'[k] = IF k = c THEN Len(routine) + 1
                                                 ELSE cancels[k]
                        /\ restartCounts'[k] = IF k = c THEN status[c]
                                                       ELSE restartCounts[k]
  BY <1>1, <1>2 DEF TypeOK
<1>4. Len(routine) \in Nat /\ Len(routine) + 1 \notin Ids /\ Absent \notin Ids
  BY LenProperties DEF TypeOK, Ids, Absent
<1> HIDE DEF c
<1>5. Looping'
  BY <1>1 DEF Followers, Looping, Reconciling
<1>6. RegisteredOK'
  BY <1>1, <1>2, <1>3, <1>4 DEF Followers, RegisteredOK
<1>7. NotLeaked'
  <2> SUFFICES ASSUME NEW i \in Ids, ~routine[i].cancelled
               PROVE  cancels'[routine[i].key] = i
    BY <1>1 DEF NotLeaked
  <2>1. cancels[routine[i].key] = i /\ routine[i].key \in Key
    BY <1>2, <1>4, RoutineType DEF Followers, NotLeaked, Routine
  <2>. QED
    BY <1>2, <1>3, <1>4, <2>1
<1>8. Followed'
  <2>1. \A k \in Key : InHand(k)' <=> InHand(k)
    BY <1>1 DEF InHand
  <2>. QED
    BY <1>1, <1>2, <1>3, <2>1 DEF Followers, Followed, Deleting
<1>. QED
  BY <1>5, <1>6, <1>7, <1>8 DEF Followers

LEMMA SpawnFollows ==
  ASSUME TypeOK, Followers, Spawn
  PROVE  Followers'
<1> DEFINE c == CurrentKey
           n == Len(routine) + 1
<1>1. /\ UNCHANGED <<status, pod, held, cancels, restartCounts>>
      /\ step = "spawn" /\ NextContainer("check") /\ step \in Reconciling
  BY DEF Spawn, managerVars, Reconciling
<1>2. /\ c \in Key /\ held = Absent
      /\ cancels[c] = n /\ restartCounts[c] = status[c] /\ status[c] # Absent
  BY <1>1, CurrentInHand, CurrentTold DEF Followers, RegisteredOK
<1>3. /\ Looping' /\ step' \in {"idle", "check"}
      /\ \A k \in Key : InHand(k) => InHand(k)' \/ k = c
  BY <1>1, InHandAgain DEF Followers
<1>4. /\ Len(routine) \in Nat /\ Len(routine') = n
      /\ \A j \in Ids : routine'[j] = routine[j]
      /\ routine'[n].key = c /\ routine'[n].count = status[c]
  BY LenProperties, SpawnAppends DEF TypeOK, Followers
<1>5. Ids' = Ids \union {n} /\ n \notin Ids
  BY <1>4 DEF Ids
<1>6. \A k \in Key : cancels[k] = n => k = c
  BY DEF Followers, RegisteredOK
<1>7. ASSUME NEW k \in Key
      PROVE  cancels[k] # Len(routine') + 1
  <2>1. cancels[k] = -1 \/ cancels[k] \in 1 .. n
    BY DEF TypeOK, Absent
  <2>. QED
    BY <1>4, <2>1
<1> HIDE DEF c, n
<1>8. RegisteredOK'
  <2>1. ASSUME NEW k \in Key, cancels[k] \in Ids'
        PROVE  /\ routine'[cancels[k]].key = k
               /\ routine'[cancels[k]].count = restartCounts[k]
    BY <1>2, <1>4, <1>5, <1>6, <2>1 DEF Followers, RegisteredOK
  <2>2. held' = Absent
    BY <1>1, <1>2
  <2>. QED
    BY <1>1, <1>3, <1>7, <2>1, <2>2 DEF RegisteredOK
<1>9. NotLeaked'
  BY <1>1, <1>2, <1>4, <1>5 DEF Followers, NotLeaked
<1>10. Followed'
  BY <1>1, <1>2, <1>3, <1>4, <1>5 DEF Followers, Followed, Deleting
<1>. QED
  BY <1>3, <1>8, <1>9, <1>10 DEF Followers

LEMMA DeleteMarkerFollows ==
  ASSUME TypeOK, Followers, DeleteMarker
  PROVE  Followers'
<1>1. /\ UNCHANGED <<status, pod, held, cancels, restartCounts, routine>>
      /\ step = "delMarker" /\ Ids' = Ids /\ NextContainer("delStop")
  BY DEF DeleteMarker, managerVars, Ids
<1>2. /\ CurrentKey \in Key /\ status[CurrentKey] = Absent
      /\ cancels[CurrentKey] = Absent /\ held = Absent
  BY <1>1, CurrentInHand DEF Followers, RegisteredOK, Followed, Deleting
<1>3. /\ Looping' /\ step' \in {"idle", "delStop"}
      /\ \A k \in Key : InHand(k) => InHand(k)' \/ k = CurrentKey
  BY <1>1, InHandAgain DEF Followers, Reconciling
<1>4. RegisteredOK' /\ NotLeaked'
  BY <1>1, <1>3 DEF Followers, RegisteredOK, NotLeaked
<1>5. Followed'
  BY <1>1, <1>2, <1>3 DEF Followers, Followed, Deleting
<1>. QED
  BY <1>3, <1>4, <1>5 DEF Followers

LEMMA AlwaysFollowers == Spec => []Followers
<1>1. Init => Followers
  <2> SUFFICES ASSUME Init PROVE Followers
    OBVIOUS
  <2>1. Len(routine) = 0 /\ Ids = {} /\ Absent # 1
    BY EmptySeq DEF Init, Ids, Absent
  <2>. QED
    BY <2>1 DEF Init, Followers, Looping, RegisteredOK, NotLeaked, Followed,
                Reconciling, Deleting
<1>2. TypeOK /\ Followers /\ [Next]_vars => Followers'
  <2> SUFFICES ASSUME TypeOK, Followers, [Next]_vars PROVE Followers'
    OBVIOUS
  <2>1. CASE Cluster \/ RunSteps \/ CancelContext \/ UNCHANGED vars
    <3>1. UNCHANGED <<handlerVars, managerVars, routine>>
      BY <2>1
         DEF Cluster, ContainerReported, ContainerRestarts, PodDeleted,
             PodCreated, Change, Tick, RunSteps, Synced, StartWaiting, Return, CancelContext, OnlyRun,
             vars
    <3>. QED
      BY <3>1, SameRoutines, QuietSteps
  <2>2. CASE Events
    BY <2>2, PodEventFollows, DeleteEventFollows DEF Events
  <2>3. CASE Handle
    BY <2>3, CheckFollows, StopFollows, CancelFollows, StartFollows,
       SpawnFollows, DeleteMarkerFollows DEF Handle
  <2>4. ASSUME NEW i \in Ids, RoutineStep(i) PROVE Followers'
    BY <2>4, RoutineStepMoves, QuietSteps DEF OnlyRoutine, Moved
  <2>. QED
    BY <2>1, <2>2, <2>3, <2>4 DEF Next, RoutineStep
<1>. QED
  BY <1>1, <1>2, TypeCorrect, PTL DEF Spec

(* No goroutine is leaked and no container is tailed twice, whatever the   *)
(* order of restarts, deletions and reconciliations.                       *)
THEOREM OneTailerAlways == Spec => []OneTailer
<1>1. Followers => OneTailer
  BY DEF Followers, NotLeaked, OneTailer, Live, Cancelled
<1>. QED
  BY <1>1, AlwaysFollowers, PTL

(* Every container of a pod the informer reported is followed, between two *)
(* events, by a goroutine started for the RestartCount last reported.      *)
THEOREM RestartAlwaysFollowed == Spec => []RestartFollowed
<1>1. Followers => RestartFollowed
  <2> SUFFICES ASSUME Followers, step = "idle" PROVE RestartFollowed
    BY DEF RestartFollowed
  <2>1. \A k \in Key : ~InHand(k)
    BY DEF Followers, Looping, InHand, ToSet
  <2>. QED
    BY <2>1 DEF Followers, Followed, RestartFollowed
<1>. QED
  BY <1>1, AlwaysFollowers, PTL

-----------------------------------------------------------------------------
(***************************************************************************)
(* Shutdown and markers.                                                   *)
(***************************************************************************)

(* Once Run has returned no goroutine is in a stream, and none enters one, *)
(* those started afterwards included: main may close the queue.            *)
THEOREM NeverEnqueuesAfterRun == Spec => []NoEnqueueAfterRun
<1>1. Init => Stopped
  BY DEF Init, Stopped, NoEnqueueAfterRun
<1>2. TypeOK /\ Looping /\ Stopped /\ [Next]_vars => Stopped'
  <2> SUFFICES ASSUME TypeOK, Looping, Stopped, [Next]_vars PROVE Stopped'
    OBVIOUS
  <2>1. CASE Cluster \/ Events \/ Check \/ Stop \/ DeleteStop \/ Start
             \/ DeleteMarker \/ UNCHANGED vars
    <3>1. UNCHANGED <<routine, run, ctxDone>> /\ Ids' = Ids
      BY <2>1
         DEF Cluster, ContainerReported, ContainerRestarts, PodDeleted,
             PodCreated, Change, Tick, Events, PodEvent, DeleteEvent, Check,
             Stop, DeleteStop, TakeCancel, Start, DeleteMarker, runVars, vars,
             Ids
    <3>. QED
      BY <3>1 DEF Stopped, NoEnqueueAfterRun
  <2>2. CASE Cancel \/ DeleteCancel
    <3>1. CallCancel
      BY <2>2 DEF Cancel, DeleteCancel
    <3>2. UNCHANGED <<run, ctxDone>>
      BY <3>1 DEF CallCancel, runVars
    <3>3. Ids' = Ids /\ \A j \in Ids : routine'[j].at = routine[j].at
      BY <3>1, CallCancelStops DEF Ids
    <3>. QED
      BY <3>2, <3>3 DEF Stopped, NoEnqueueAfterRun
  <2>3. CASE Spawn
    <3>1. UNCHANGED <<run, ctxDone>>
      BY <2>3 DEF Spawn, runVars
    <3>2. /\ Ids' = Ids \union {Len(routine) + 1}
          /\ \A j \in Ids : routine'[j] = routine[j]
          /\ routine'[Len(routine) + 1].at = "prev"
      BY <2>3, SpawnAppends, LenProperties DEF Ids, TypeOK
    <3>. QED
      BY <3>1, <3>2 DEF Stopped, NoEnqueueAfterRun
  <2>4. ASSUME NEW i \in Ids, RoutineStep(i) PROVE Stopped'
    <3>1. PICK to \in RoutineSteps :
            /\ Moved(i, to)
            /\ ctxDone /\ routine[i].at \notin Reading => to \notin Reading
      BY <2>4, RoutineStepMoves
    <3>2. UNCHANGED <<run, ctxDone>>
      BY <2>4, RoutineStepMoves DEF OnlyRoutine, runVars
    <3>3. /\ Ids' = Ids
          /\ \A j \in Ids : routine'[j].at = IF j = i THEN to
                                                     ELSE routine[j].at
      BY <3>1 DEF Moved, SameTailers, Ids
    <3>. QED
      BY <3>1, <3>2, <3>3 DEF Stopped, NoEnqueueAfterRun, Reading
  <2>5. CASE RunSteps \/ CancelContext
    <3>1. UNCHANGED routine /\ Ids' = Ids
      BY <2>5 DEF RunSteps, Synced, StartWaiting, Return, CancelContext,
                  OnlyRun, Ids
    <3>2. run' \in {"wait", "returned"} => ctxDone'
      BY <2>5 DEF RunSteps, Synced, StartWaiting, Return, CancelContext,
                  Stopped, TypeOK
    <3>3. run' = "returned" => run = "returned" \/ AllExited
      BY <2>5 DEF RunSteps, Synced, StartWaiting, Return, CancelContext
    <3>. QED
      BY <3>1, <3>2, <3>3 DEF Stopped, NoEnqueueAfterRun, AllExited
  <2>. QED
    BY <2>1, <2>2, <2>3, <2>4, <2>5 DEF Next, Handle, RoutineStep
<1>3. Stopped => NoEnqueueAfterRun
  BY DEF Stopped
<1>. QED
  BY <1>1, <1>2, <1>3, TypeCorrect, PTL DEF Spec

(* A container's marker never goes back while it is kept, whichever of an  *)
(* old and a new goroutine writes it and whatever LastSeen has answered.   *)
THEOREM MarkersAlwaysAdvance == Spec => MarkersAdvance
<1>1. TypeOK /\ Looping /\ [Next]_vars =>
        [ \A k \in Key : markers[k] # Absent /\ markers'[k] # Absent
                            => markers'[k] >= markers[k] ]_vars
  <2> SUFFICES ASSUME TypeOK, Looping, Next, NEW k \in Key,
                      markers[k] # Absent, markers'[k] # Absent
               PROVE  markers'[k] >= markers[k]
    OBVIOUS
  <2>1. markers[k] \in 0 .. MaxClock
    BY DEF TypeOK
  <2>2. CASE UNCHANGED markers
    BY <2>1, <2>2, ManagerAssumption
  <2>3. CASE DeleteMarker
    <3>1. CurrentKey \in Key
      BY <2>3, CurrentInHand DEF DeleteMarker
    <3>2. markers'[k] = markers[k]
      BY <2>3, <3>1 DEF DeleteMarker, TypeOK
    <3>. QED
      BY <2>1, <3>2, ManagerAssumption
  <2>4. ASSUME NEW i \in Ids, Put(i) PROVE markers'[k] >= markers[k]
    <3>1. markers'[k] = markers[k]
      BY <2>4 DEF Put, TypeOK
    <3>. QED
      BY <2>1, <3>1, ManagerAssumption
  <2>5. ASSUME NEW i \in Ids, Mark(i) PROVE markers'[k] >= markers[k]
    <3>1. KeyOf(i) \in Key /\ routine[i].ts \in 0 .. MaxClock
      BY RoutineType DEF Routine, KeyOf
    <3>2. CASE k = KeyOf(i)
      <4>1. markers'[k] = IF routine[i].ts > markers[k] THEN routine[i].ts
                                                        ELSE markers[k]
        BY <2>5, <3>1, <3>2 DEF Mark, TypeOK
      <4>. QED
        BY <2>1, <3>1, <4>1, ManagerAssumption
    <3>3. CASE k # KeyOf(i)
      <4>1. markers'[k] = markers[k]
        BY <2>5, <3>1, <3>3 DEF Mark, TypeOK
      <4>. QED
        BY <2>1, <4>1, ManagerAssumption
    <3>. QED
      BY <3>2, <3>3
  <2>6. \/ UNCHANGED markers \/ DeleteMarker
        \/ \E i \in Ids : Put(i) \/ Mark(i)
    BY DEF Next, Cluster, ContainerReported, ContainerRestarts, PodDeleted,
           PodCreated, Change, Tick, Events, PodEvent, DeleteEvent, Handle,
           Check, Stop, Cancel, TakeCancel, CallCancel, Start, Spawn,
           DeleteStop, DeleteCancel, RunSteps, Synced, StartWaiting, Return,
           CancelContext, OnlyRun, Advance, Ingest, EndOfStream, OpenPrevious,
           ReadPrevious, PreviousEnds, Resolve, Lookup, Loop, Open, Read,
           StreamEnds, Retry, Backoff
  <2>. QED
    BY <2>2, <2>3, <2>4, <2>5, <2>6
<1>. QED
  BY <1>1, TypeCorrect, PTL DEF Spec, MarkersAdvance
=============================================================================
