----------------------------- MODULE Broadcaster -----------------------------
(***************************************************************************)
(* The live tail: tailer goroutines Publish lines to the channels of all   *)
(* subscribers (internal/storage/broadcast.go) while each /api/tail        *)
(* connection subscribes, copies its channel to the client and             *)
(* unsubscribes (handleTail in internal/api/handler.go).                   *)
(*                                                                         *)
(* Publish holds b.mu from its first send to its last, and its sends,      *)
(* evictions and resends are single steps that the receiving handler can   *)
(* come between.  A line is its number in the order in which Publish got   *)
(* b.mu.  Subscribe's and unsubscribe's critical sections are one step.    *)
(***************************************************************************)
EXTENDS Integers, Sequences, SequencesExt

CONSTANTS
  Publishers,   \* goroutines that call Publish
  Viewers,      \* /api/tail connections; each has one channel
  BufSize,      \* subscriberBufferSize
  MaxLines,     \* bound: number of lines published
  NoOne         \* the holder of a free mutex

ASSUME BroadcastAssumption ==
  /\ BufSize \in Nat \ {0}
  /\ MaxLines \in Nat
  /\ NoOne \notin Publishers

VARIABLES
  holder,     \* the goroutine inside Publish that holds b.mu, or NoOne
  subs,       \* b.subs: the viewers whose channel is registered
  chan,       \* the viewers' channels
  closed,     \* the viewers whose channel is closed
  pubPC,      \* where each publisher is
  line,       \* the line the publisher holding b.mu sends
  left,       \* the subscribers its range has not finished
  target,     \* the subscriber it is serving
  handler,    \* where each connection's handleTail is
  connected,  \* the viewers whose request context is not done
  published,  \* number of lines published so far
  received,   \* history: what each handler took from its channel
  evicted,    \* history: the lines Publish took out of each channel
  missed      \* history: the lines Publish gave up sending to a subscriber

pubVars    == <<holder, pubPC, line, left, target, published, evicted, missed>>
viewerVars == <<handler, connected, received, closed>>
vars       == <<pubVars, viewerVars, subs, chan>>

Lines == 1 .. MaxLines

\* "wait": Publish called, b.mu not held; then the statements of its loop
PubLabels == {"idle", "wait", "next", "send", "evict", "resend"}

\* "new": before Subscribe; "loop": at the select; "write": sending an event;
\* "leave": returned from the loop; "close": deleted but not yet closed
HandlerLabels == {"new", "loop", "write", "leave", "close", "gone"}

TypeOK ==
  /\ holder \in Publishers \union {NoOne}
  /\ subs \subseteq Viewers
  /\ chan \in [Viewers -> Seq(Lines)]
  /\ \A v \in Viewers : Len(chan[v]) <= BufSize
  /\ closed \subseteq Viewers
  /\ pubPC \in [Publishers -> PubLabels]
  /\ line \in Lines \union {0}
  /\ left \subseteq Viewers
  /\ target \in SUBSET Viewers
  /\ handler \in [Viewers -> HandlerLabels]
  /\ connected \subseteq Viewers
  /\ published \in Nat
  /\ received \in [Viewers -> Seq(Lines)]
  /\ evicted \in [Viewers -> SUBSET Lines]
  /\ missed \in [Viewers -> SUBSET Lines]

Init ==
  /\ holder = NoOne
  /\ subs = {}
  /\ chan = [v \in Viewers |-> <<>>]
  /\ closed = {}
  /\ pubPC = [p \in Publishers |-> "idle"]
  /\ line = 0
  /\ left = {}
  /\ target = {}
  /\ handler = [v \in Viewers |-> "new"]
  /\ connected = Viewers
  /\ published = 0
  /\ received = [v \in Viewers |-> <<>>]
  /\ evicted = [v \in Viewers |-> {}]
  /\ missed = [v \in Viewers |-> {}]

-----------------------------------------------------------------------------
(***************************************************************************)
(* Publish                                                                 *)
(***************************************************************************)
Goto(p, label) == pubPC' = [pubPC EXCEPT ![p] = label]

Waiting == {p \in Publishers : pubPC[p] = "wait"}

Publish(p) ==
  /\ pubPC[p] = "idle"
  /\ published + Cardinality(Waiting) < MaxLines
  /\ Goto(p, "wait")
  /\ UNCHANGED <<holder, line, left, target, published, evicted, missed,
                 viewerVars, subs, chan>>

\* b.mu.Lock(), and the range over b.subs, which nobody can change meanwhile
Lock(p) ==
  /\ pubPC[p] = "wait"
  /\ holder = NoOne
  /\ holder' = p
  /\ published' = published + 1
  /\ line' = published + 1
  /\ left' = subs
  /\ Goto(p, "next")
  /\ UNCHANGED <<target, evicted, missed, viewerVars, subs, chan>>

\* the next subscriber of the range, in the map's arbitrary order
NextSubscriber(p) ==
  /\ pubPC[p] = "next"
  /\ \E v \in left :
       /\ target' = {v}
       /\ left' = left \ {v}
  /\ Goto(p, "send")
  /\ UNCHANGED <<holder, line, published, evicted, missed, viewerVars, subs,
                 chan>>

\* the range is over; the deferred b.mu.Unlock()
Unlock(p) ==
  /\ pubPC[p] = "next"
  /\ left = {}
  /\ holder' = NoOne
  /\ line' = 0
  /\ Goto(p, "idle")
  /\ UNCHANGED <<left, target, published, evicted, missed, viewerVars, subs,
                 chan>>

\* Mutant: the channel takes one line more than its capacity.
HasRoom_OneMore(v) == Len(chan[v]) <= BufSize

HasRoom(v) == Len(chan[v]) < BufSize

\* a send of a select: the line if the channel has room
Sent(v) == [chan EXCEPT ![v] = IF HasRoom(v) THEN Append(@, line) ELSE @]

\* Mutant: a plain blocking send.
Send_Blocks(p) ==
  /\ pubPC[p] = "send"
  /\ \E v \in target : HasRoom(v) /\ chan' = Sent(v)
  /\ target' = {} /\ Goto(p, "next")
  /\ UNCHANGED <<holder, line, left, published, evicted, missed, viewerVars,
                 subs>>

\* Mutant: the eviction and the resend follow a successful send too.
Send_FallsThrough(p) ==
  /\ pubPC[p] = "send"
  /\ \E v \in target : chan' = Sent(v)
  /\ Goto(p, "evict")
  /\ UNCHANGED <<holder, line, left, target, published, evicted, missed,
                 viewerVars, subs>>

Send(p) ==
  /\ pubPC[p] = "send"
  /\ \E v \in target :
       /\ chan' = Sent(v)
       /\ \/ HasRoom(v) /\ target' = {} /\ Goto(p, "next")
          \/ ~HasRoom(v) /\ UNCHANGED target /\ Goto(p, "evict")
  /\ UNCHANGED <<holder, line, left, published, evicted, missed, viewerVars,
                 subs>>

\* Mutant: no line is evicted before the resend.
Evict_Nothing(p) ==
  /\ pubPC[p] = "evict"
  /\ Goto(p, "resend")
  /\ UNCHANGED <<holder, line, left, target, published, evicted, missed,
                 viewerVars, subs, chan>>

\* Mutant: the newest buffered line makes room.
Evict_Newest(p) ==
  /\ pubPC[p] = "evict"
  /\ \E v \in target :
       /\ chan[v] # <<>>
       /\ chan' = [chan EXCEPT ![v] = Front(@)]
       /\ evicted' = [evicted EXCEPT ![v] = @ \union {Last(chan[v])}]
  /\ Goto(p, "resend")
  /\ UNCHANGED <<holder, line, left, target, published, missed, viewerVars,
                 subs>>

\* case <-ch, or default when the handler has emptied the channel
Evict(p) ==
  /\ pubPC[p] = "evict"
  /\ \E v \in target :
       \/ /\ chan[v] # <<>>
          /\ chan' = [chan EXCEPT ![v] = Tail(@)]
          /\ evicted' = [evicted EXCEPT ![v] = @ \union {Head(chan[v])}]
       \/ /\ chan[v] = <<>>
          /\ UNCHANGED <<chan, evicted>>
  /\ Goto(p, "resend")
  /\ UNCHANGED <<holder, line, left, target, published, missed, viewerVars,
                 subs>>

\* the second case ch <- l, whose default gives the line up
Resend(p) ==
  /\ pubPC[p] = "resend"
  /\ \E v \in target :
       /\ chan' = Sent(v)
       /\ missed' = [missed EXCEPT ![v] =
                       IF HasRoom(v) THEN @ ELSE @ \union {line}]
  /\ target' = {}
  /\ Goto(p, "next")
  /\ UNCHANGED <<holder, line, left, published, evicted, viewerVars, subs>>

-----------------------------------------------------------------------------
(***************************************************************************)
(* handleTail                                                              *)
(***************************************************************************)
At(v, label, next) ==
  /\ handler[v] = label
  /\ handler' = [handler EXCEPT ![v] = next]

Subscribe(v) ==
  /\ At(v, "new", "loop")
  /\ holder = NoOne
  /\ subs' = subs \union {v}
  /\ UNCHANGED <<pubVars, connected, received, closed, chan>>

(* case l, ok := <-ch: the filters drop the line or it goes to the client. *)
(* !ok cannot happen: only this handler's own unsubscribe closes ch.       *)
Receive(v) ==
  /\ chan[v] # <<>>
  /\ \/ At(v, "loop", "loop")
     \/ At(v, "loop", "write")
  /\ received' = [received EXCEPT ![v] = Append(@, Head(chan[v]))]
  /\ chan' = [chan EXCEPT ![v] = Tail(@)]
  /\ UNCHANGED <<pubVars, connected, closed, subs>>

\* Fprintf and Flush return: the client took the event, or is gone
Written(v) ==
  /\ At(v, "write", "loop")
  /\ UNCHANGED <<pubVars, connected, received, closed, subs, chan>>

\* Mutant: the handler returns without unsubscribing.
ContextDone_Leaks(v) ==
  /\ v \notin connected
  /\ At(v, "loop", "gone")
  /\ UNCHANGED <<pubVars, connected, received, closed, subs, chan>>

\* case <-r.Context().Done()
ContextDone(v) ==
  /\ v \notin connected
  /\ At(v, "loop", "leave")
  /\ UNCHANGED <<pubVars, connected, received, closed, subs, chan>>

\* Mutant: the channel is deleted from the map without taking b.mu.
Unsubscribe_Unlocked(v) ==
  /\ At(v, "leave", "close")
  /\ subs' = subs \ {v}
  /\ UNCHANGED <<pubVars, connected, received, closed, chan>>

\* the deferred unsubscribe: delete under b.mu, then close outside it
Unsubscribe(v) ==
  /\ At(v, "leave", "close")
  /\ holder = NoOne
  /\ subs' = subs \ {v}
  /\ UNCHANGED <<pubVars, connected, received, closed, chan>>

CloseChannel(v) ==
  /\ At(v, "close", "gone")
  /\ closed' = closed \union {v}
  /\ UNCHANGED <<pubVars, connected, received, subs, chan>>

\* net/http cancels the request context when the client goes away
Disconnect(v) ==
  /\ v \in connected
  /\ connected' = connected \ {v}
  /\ UNCHANGED <<pubVars, handler, received, closed, subs, chan>>

-----------------------------------------------------------------------------
Working(p) ==
  Lock(p) \/ NextSubscriber(p) \/ Unlock(p) \/ Send(p) \/ Evict(p) \/ Resend(p)

Handling(v) ==
  \/ Subscribe(v) \/ Receive(v) \/ Written(v) \/ ContextDone(v)
  \/ Unsubscribe(v) \/ CloseChannel(v)

Next ==
  \/ \E p \in Publishers : Publish(p) \/ Working(p)
  \/ \E v \in Viewers : Handling(v) \/ Disconnect(v)

Spec == Init /\ [][Next]_vars

(* A goroutine runs and gets b.mu in the end (Go's mutex does not starve   *)
(* its waiters).  A client may stall a write for as long as it likes, and  *)
(* handleTail has cleared the write deadline, so a write only has to end   *)
(* once the client is gone.  The select picks pseudo-randomly, so a done   *)
(* context is seen in the end even when lines keep coming.                 *)
PublisherFairness ==
  \A p \in Publishers : SF_vars(Lock(p)) /\ WF_vars(Working(p))

HandlerFairness ==
  \A v \in Viewers :
    /\ WF_vars(v \notin connected /\ Written(v))
    /\ SF_vars(ContextDone(v))
    /\ SF_vars(Unsubscribe(v))
    /\ WF_vars(CloseChannel(v))

\* no fairness at all for the viewers
PublishSpec == Spec /\ PublisherFairness

-----------------------------------------------------------------------------
(***************************************************************************)
(* Properties                                                              *)
(***************************************************************************)

(* A send on a closed channel panics and takes the whole process down:     *)
(* Publish never holds, or is about to reach, a channel that its handler   *)
(* has closed, although close runs outside b.mu.                           *)
NoSendOnClosed == (left \union target) \intersect closed = {}

(* Publish's innermost default is dead code: having evicted, or found the  *)
(* channel emptied, it always has room, since b.mu keeps other publishers  *)
(* out.  The newest line reaches every subscriber.                         *)
NewestDelivered == \A v \in Viewers : missed[v] = {}

(* A viewer sees lines in the order of Publish, whatever was evicted       *)
(* between them, and never sees one twice.                                 *)
Increasing(s) == \A i, j \in DOMAIN s : i < j => s[i] < s[j]

ViewedInOrder == \A v \in Viewers : Increasing(received[v] \o chan[v])

(* What a viewer lost is older than all it has waiting: an eviction takes  *)
(* from the old end, so a tail shows the most recent activity.             *)
LossIsOldest ==
  \A v \in Viewers : \A l \in evicted[v], m \in ToSet(chan[v]) : l < m

(* A slow, stalled or departed viewer never back-pressures ingestion:      *)
(* every Publish returns although no handler is obliged to take a step.    *)
PublishReturns ==
  \A p \in Publishers :
    (pubPC[p] # "idle") ~> (pubPC[p] = "idle")

(* A connection that goes away does not leak its subscription: if the     *)
(* handlers run, its handler leaves its loop, unsubscribes and closes the  *)
(* channel, though publishers compete for b.mu and may keep lines coming.  *)
DisconnectCleansUp ==
  HandlerFairness =>
    \A v \in Viewers :
      (v \in subs /\ v \notin connected) ~> (v \notin subs /\ v \in closed)
=============================================================================
