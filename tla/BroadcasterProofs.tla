-------------------------- MODULE BroadcasterProofs --------------------------
(***************************************************************************)
(* Theorems about the live tail for every number of publishers and         *)
(* viewers and every size of a viewer's channel.                           *)
(***************************************************************************)
EXTENDS Broadcaster, FiniteSetTheorems, TLAPS

(***************************************************************************)
(* Sequences of lines: taking the first, appending one, putting two        *)
(* together, and what that does to their elements and their order.         *)
(***************************************************************************)
LEMMA TakeFirst ==
  ASSUME NEW s \in Seq(Nat), s # <<>>
  PROVE  /\ Head(s) \in ToSet(s)
         /\ ToSet(Tail(s)) \subseteq ToSet(s)
         /\ Increasing(s) => /\ Increasing(Tail(s))
                             /\ \A m \in ToSet(Tail(s)) : Head(s) < m
<1>1. /\ Len(s) \in Nat \ {0} /\ Head(s) = s[1] /\ DOMAIN s = 1 .. Len(s)
      /\ Len(Tail(s)) = Len(s) - 1 /\ DOMAIN Tail(s) = 1 .. Len(s) - 1
  BY SMT
<1>2. \A i \in 1 .. Len(s) - 1 : Tail(s)[i] = s[i + 1] /\ i + 1 \in DOMAIN s
  BY SMT
<1>3. Head(s) \in ToSet(s)
  BY <1>1 DEF ToSet
<1>4. ToSet(Tail(s)) \subseteq ToSet(s)
  BY <1>1, <1>2 DEF ToSet
<1>5. ASSUME Increasing(s)
      PROVE  Increasing(Tail(s)) /\ \A m \in ToSet(Tail(s)) : Head(s) < m
  <2> DEFINE t == Tail(s)
  <2>1. /\ Len(s) \in Nat /\ DOMAIN t = 1 .. Len(s) - 1
        /\ \A i \in DOMAIN t : t[i] = s[i + 1] /\ i + 1 \in DOMAIN s
    BY <1>1, <1>2
  <2> HIDE DEF t
  <2>2. Increasing(t)
    <3> SUFFICES ASSUME NEW i \in DOMAIN t, NEW j \in DOMAIN t, i < j
                 PROVE  t[i] < t[j]
      BY DEF Increasing
    <3>1. i + 1 < j + 1
      BY <2>1
    <3>. QED
      BY <1>5, <2>1, <3>1 DEF Increasing
  <2>3. ASSUME NEW i \in DOMAIN t PROVE Head(s) < t[i]
    <3>1. 1 \in DOMAIN s /\ 1 < i + 1
      BY <1>1, <2>1
    <3>. QED
      BY <1>1, <1>5, <2>1, <3>1 DEF Increasing
  <2>. QED
    BY <2>2, <2>3 DEF ToSet, t
<1>. QED
  BY <1>3, <1>4, <1>5

LEMMA AddLast ==
  ASSUME NEW s \in Seq(Nat), NEW m \in Nat
  PROVE  /\ ToSet(Append(s, m)) = ToSet(s) \union {m}
         /\ Increasing(s) /\ (\A n \in ToSet(s) : n < m)
              => Increasing(Append(s, m))
<1>1. /\ Len(s) \in Nat /\ DOMAIN s = 1 .. Len(s)
      /\ DOMAIN Append(s, m) = 1 .. Len(s) + 1
      /\ Append(s, m)[Len(s) + 1] = m
  BY SMT
<1>2. \A i \in 1 .. Len(s) : Append(s, m)[i] = s[i]
  BY SMT
<1>3. \A i \in 1 .. Len(s) + 1 : i \in 1 .. Len(s) \/ i = Len(s) + 1
  BY <1>1
<1>4. ToSet(Append(s, m)) = ToSet(s) \union {m}
  BY <1>1, <1>2, <1>3 DEF ToSet
<1>5. ASSUME Increasing(s), \A n \in ToSet(s) : n < m
      PROVE  Increasing(Append(s, m))
  BY <1>1, <1>2, <1>3, <1>5 DEF ToSet, Increasing
<1>. QED
  BY <1>4, <1>5

LEMMA JoinOrdered ==
  ASSUME NEW s \in Seq(Nat), NEW t \in Seq(Nat),
         Increasing(s), Increasing(t),
         \A m \in ToSet(s), n \in ToSet(t) : m < n
  PROVE  Increasing(s \o t)
<1> DEFINE j(i) == i - Len(s)
<1>1. /\ Len(s) \in Nat /\ Len(t) \in Nat
      /\ DOMAIN s = 1 .. Len(s) /\ DOMAIN t = 1 .. Len(t)
      /\ DOMAIN (s \o t) = 1 .. Len(s) + Len(t)
  BY SMT
<1>2. \A i \in DOMAIN (s \o t) :
        \/ i \in DOMAIN s /\ (s \o t)[i] = s[i]
        \/ i > Len(s) /\ j(i) \in DOMAIN t /\ (s \o t)[i] = t[j(i)]
  BY SMT
<1>3. \A m \in DOMAIN s, n \in DOMAIN t : s[m] < t[n]
  BY DEF ToSet
<1>. QED
  BY <1>1, <1>2, <1>3 DEF Increasing

-----------------------------------------------------------------------------
(***************************************************************************)
(* Who is inside Publish.  b.mu is held exactly while a publisher is in    *)
(* its loop, by that publisher, and only it has a line, subscribers left   *)
(* in its range, and from a send to the next subscriber a target.          *)
(***************************************************************************)
Serving == {"send", "evict", "resend"}
Inside  == Serving \union {"next"}

Locked ==
  /\ \A p \in Publishers : pubPC[p] \in Inside <=> holder = p
  /\ holder = NoOne => left = {} /\ target = {}
  /\ holder # NoOne => line = published /\ line \in Lines
  /\ \A p \in Publishers :
       /\ pubPC[p] = "next" => target = {}
       /\ pubPC[p] \in Serving => \E v \in Viewers \ left : target = {v}

(* MaxLines bounds what is published and what is about to be.              *)
WaitBounded ==
  /\ IsFiniteSet(Waiting)
  /\ published + Cardinality(Waiting) <= MaxLines

LockInv == TypeOK /\ WaitBounded /\ Locked

LEMMA WaitingUnchanged ==
  ASSUME WaitBounded, UNCHANGED <<Waiting, published>>
  PROVE  WaitBounded'
BY DEF WaitBounded

LEMMA LockInvariant == Spec => []LockInv
<1> USE BroadcastAssumption DEF BroadcastAssumption
<1>1. Init => LockInv
  <2> SUFFICES ASSUME Init PROVE LockInv
    OBVIOUS
  <2>1. TypeOK
    BY DEF Init, TypeOK, PubLabels, HandlerLabels
  <2>2. Waiting = {}
    BY DEF Init, Waiting
  <2>3. WaitBounded
    BY <2>2, FS_EmptySet DEF WaitBounded, Init
  <2>. QED
    BY <2>1, <2>3 DEF LockInv, Locked, Init, Inside, Serving
<1>2. LockInv /\ [Next]_vars => LockInv'
  <2> SUFFICES ASSUME TypeOK, WaitBounded, Locked, [Next]_vars
               PROVE  TypeOK' /\ WaitBounded' /\ Locked'
    BY DEF LockInv
  <2> USE DEF Inside, Serving
  <2>1. ASSUME NEW p \in Publishers, Publish(p)
        PROVE  TypeOK' /\ WaitBounded' /\ Locked'
    <3>1. Waiting' = Waiting \union {p} /\ p \notin Waiting
      BY <2>1 DEF Publish, Goto, Waiting, TypeOK, PubLabels
    <3>2. WaitBounded'
      <4>1. /\ IsFiniteSet(Waiting) /\ Cardinality(Waiting) \in Nat
        BY FS_CardinalityType DEF WaitBounded
      <4>2. IsFiniteSet(Waiting') /\ Cardinality(Waiting') = Cardinality(Waiting) + 1
        BY <3>1, <4>1, FS_AddElement
      <4>. QED
        BY <2>1, <4>1, <4>2 DEF Publish, WaitBounded, TypeOK
    <3>3. TypeOK'
      BY <2>1 DEF Publish, Goto, TypeOK, PubLabels, viewerVars
    <3>4. Locked'
      BY <2>1 DEF Publish, Goto, TypeOK, PubLabels, Locked, viewerVars
    <3>. QED
      BY <3>2, <3>3, <3>4
  <2>2. ASSUME NEW p \in Publishers, Lock(p)
        PROVE  TypeOK' /\ WaitBounded' /\ Locked'
    <3>1. Waiting' = Waiting \ {p} /\ p \in Waiting
      BY <2>2 DEF Lock, Goto, Waiting, TypeOK, PubLabels
    <3>2. IsFiniteSet(Waiting) /\ Cardinality(Waiting) \in Nat
      BY FS_CardinalityType DEF WaitBounded
    <3>3. IsFiniteSet(Waiting') /\ Cardinality(Waiting') = Cardinality(Waiting) - 1
      BY <3>1, <3>2, FS_RemoveElement
    <3>4. IsFiniteSet(Waiting') /\ Cardinality(Waiting') \in Nat
      BY <3>3, FS_CardinalityType
    <3>5. WaitBounded'
      BY <2>2, <3>2, <3>3 DEF Lock, WaitBounded, TypeOK
    <3>6. line' \in Lines /\ line' = published' /\ published' \in Nat
      BY <2>2, <3>2, <3>3, <3>4 DEF Lock, WaitBounded, TypeOK, Lines
    <3>7. TypeOK'
      BY <2>2, <3>6 DEF Lock, Goto, TypeOK, PubLabels, viewerVars
    <3>8. Locked'
      BY <2>2, <3>6 DEF Lock, Goto, TypeOK, PubLabels, Locked, Lines
    <3>. QED
      BY <3>5, <3>7, <3>8
  <2>3. ASSUME NEW p \in Publishers,
               \/ NextSubscriber(p) \/ Unlock(p) \/ Send(p)
               \/ Evict(p) \/ Resend(p)
        PROVE  TypeOK' /\ WaitBounded' /\ Locked'
    <3>1. UNCHANGED <<Waiting, published>>
      BY <2>3 DEF NextSubscriber, Unlock, Send, Evict, Resend, Goto, Waiting,
                  TypeOK, PubLabels
    <3>2. WaitBounded'
      BY <3>1, WaitingUnchanged
    <3>3. holder = p /\ holder # NoOne /\ line \in Lines
      BY <2>3 DEF NextSubscriber, Unlock, Send, Evict, Resend, Locked
    <3>4. CASE NextSubscriber(p)
      <4>1. TypeOK'
        BY <3>4 DEF NextSubscriber, Goto, TypeOK, PubLabels, viewerVars
      <4>2. Locked'
        BY <3>3, <3>4 DEF NextSubscriber, Goto, TypeOK, PubLabels, Locked
      <4>. QED
        BY <3>2, <4>1, <4>2
    <3>5. CASE Unlock(p)
      <4>1. TypeOK'
        BY <3>5 DEF Unlock, Goto, TypeOK, PubLabels, viewerVars
      <4>2. Locked'
        BY <3>3, <3>5 DEF Unlock, Goto, TypeOK, PubLabels, Locked
      <4>. QED
        BY <3>2, <4>1, <4>2
    <3>6. ASSUME NEW v \in Viewers PROVE Sent(v) \in [Viewers -> Seq(Lines)]
      BY <3>3 DEF Sent, TypeOK
    <3>7. ASSUME NEW v \in Viewers, NEW w \in Viewers
          PROVE  Len(Sent(v)[w]) <= BufSize
      BY <3>3 DEF Sent, HasRoom, TypeOK
    <3>8. CASE Send(p)
      <4>11. PICK v \in Viewers : chan' = Sent(v)
        BY <3>8 DEF Send, TypeOK
      <4>12. chan' \in [Viewers -> Seq(Lines)]
            /\ \A w \in Viewers : Len(chan'[w]) <= BufSize
        BY <3>6, <3>7, <4>11
      <4>13. target' \subseteq Viewers /\ pubPC' \in [Publishers -> PubLabels]
        BY <3>8 DEF Send, Goto, TypeOK, PubLabels
      <4>1. TypeOK'
        BY <3>8, <4>12, <4>13 DEF Send, TypeOK, viewerVars
      <4>2. Locked'
        BY <3>3, <3>8 DEF Send, Goto, TypeOK, PubLabels, Locked
      <4>. QED
        BY <3>2, <4>1, <4>2
    <3>9. CASE Evict(p)
      <4>11. PICK v \in Viewers :
              \/ /\ chan[v] # <<>>
                 /\ chan' = [chan EXCEPT ![v] = Tail(@)]
                 /\ evicted' = [evicted EXCEPT ![v] = @ \union {Head(chan[v])}]
              \/ UNCHANGED <<chan, evicted>>
        BY <3>9 DEF Evict, TypeOK
      <4>12. chan[v] \in Seq(Lines) /\ Len(chan[v]) <= BufSize
        BY DEF TypeOK
      <4>13. chan[v] # <<>> => /\ Head(chan[v]) \in Lines
                              /\ Tail(chan[v]) \in Seq(Lines)
                              /\ Len(Tail(chan[v])) <= BufSize
        BY <4>12
      <4>14. /\ chan' \in [Viewers -> Seq(Lines)]
            /\ \A w \in Viewers : Len(chan'[w]) <= BufSize
            /\ evicted' \in [Viewers -> SUBSET Lines]
        <5>1. CASE UNCHANGED <<chan, evicted>>
          BY <5>1 DEF TypeOK
        <5>2. CASE /\ chan[v] # <<>>
                   /\ chan' = [chan EXCEPT ![v] = Tail(@)]
                   /\ evicted' = [evicted EXCEPT
                                     ![v] = @ \union {Head(chan[v])}]
          <6>1. evicted[v] \union {Head(chan[v])} \in SUBSET Lines
            BY <4>13, <5>2 DEF TypeOK
          <6>2. evicted' \in [Viewers -> SUBSET Lines]
            BY <5>2, <6>1 DEF TypeOK
          <6>3. chan' \in [Viewers -> Seq(Lines)]
            BY <4>13, <5>2 DEF TypeOK
          <6>4. \A w \in Viewers : Len(chan'[w]) <= BufSize
            BY <4>13, <5>2 DEF TypeOK
          <6>. QED
            BY <6>2, <6>3, <6>4
        <5>. QED
          BY <4>11, <5>1, <5>2
      <4>15. pubPC' \in [Publishers -> PubLabels]
        BY <3>9 DEF Evict, Goto, TypeOK, PubLabels
      <4>1. TypeOK'
        BY <3>9, <4>14, <4>15 DEF Evict, TypeOK, viewerVars
      <4>2. Locked'
        BY <3>3, <3>9 DEF Evict, Goto, TypeOK, PubLabels, Locked
      <4>. QED
        BY <3>2, <4>1, <4>2
    <3>10. CASE Resend(p)
      <4>1. TypeOK'
        BY <3>3, <3>6, <3>7, <3>10
        DEF Resend, Goto, TypeOK, PubLabels, viewerVars
      <4>2. Locked'
        BY <3>3, <3>10 DEF Resend, Goto, TypeOK, PubLabels, Locked
      <4>. QED
        BY <3>2, <4>1, <4>2
    <3>. QED
      BY <2>3, <3>4, <3>5, <3>8, <3>9, <3>10
  <2>4. ASSUME NEW v \in Viewers, Handling(v) \/ Disconnect(v)
        PROVE  TypeOK' /\ WaitBounded' /\ Locked'
    <3>1. UNCHANGED pubVars
      BY <2>4 DEF Handling, Subscribe, Receive, Written, ContextDone,
                  Unsubscribe, CloseChannel, Disconnect
    <3>2. WaitBounded'
      BY <3>1, WaitingUnchanged DEF pubVars, Waiting
    <3>3. Locked'
      BY <3>1 DEF pubVars, Locked, Lines
    <3>4. CASE Receive(v)
      <4>1. chan[v] \in Seq(Lines) /\ Len(chan[v]) <= BufSize /\ chan[v] # <<>>
        BY <3>4 DEF Receive, TypeOK
      <4>2. /\ Head(chan[v]) \in Lines /\ Tail(chan[v]) \in Seq(Lines)
            /\ Len(Tail(chan[v])) <= BufSize
        BY <4>1
      <4>3. /\ chan' \in [Viewers -> Seq(Lines)]
            /\ \A w \in Viewers : Len(chan'[w]) <= BufSize
            /\ received' \in [Viewers -> Seq(Lines)]
        BY <3>4, <4>2 DEF Receive, TypeOK
      <4>4. handler' \in [Viewers -> HandlerLabels]
        BY <3>4 DEF Receive, At, TypeOK, HandlerLabels
      <4>5. TypeOK'
        BY <3>1, <3>4, <4>3, <4>4 DEF Receive, TypeOK, pubVars
      <4>. QED
        BY <3>2, <3>3, <4>5
    <3>5. CASE (Handling(v) /\ ~Receive(v)) \/ Disconnect(v)
      BY <3>1, <3>2, <3>3, <3>5
      DEF Handling, Subscribe, Written, ContextDone, Unsubscribe,
          CloseChannel, Disconnect, At, TypeOK, HandlerLabels, pubVars
    <3>. QED
      BY <2>4, <3>4, <3>5
  <2>5. CASE UNCHANGED vars
    BY <2>5, WaitingUnchanged
    DEF vars, pubVars, viewerVars, TypeOK, Locked, Waiting
  <2>. QED
    BY <2>1, <2>2, <2>3, <2>4, <2>5 DEF Next, Working
<1>. QED
  BY <1>1, <1>2, PTL DEF Spec

(* Types of Publish's and handleTail's state: no channel ever holds more   *)
(* than its capacity, and no more lines are published than MaxLines.       *)
THEOREM TypeCorrect == Spec => []TypeOK
BY LockInvariant, PTL DEF LockInv

-----------------------------------------------------------------------------
(***************************************************************************)
(* Why close outside b.mu is safe.  A subscriber Publish still has to      *)
(* serve is registered, since nobody changes b.subs while it holds b.mu,   *)
(* and a handler closes its channel only after it has deleted it there.    *)
(***************************************************************************)
Registered ==
  /\ left \union target \subseteq subs
  /\ \A v \in Viewers : v \in subs <=> handler[v] \in {"loop", "write", "leave"}
  /\ \A v \in closed : handler[v] = "gone"

LEMMA RegisteredInvariant == Spec => []Registered
<1>1. Init => Registered
  BY DEF Init, Registered
<1>2. LockInv /\ Registered /\ [Next]_vars => Registered'
  <2> SUFFICES ASSUME TypeOK, Locked, Registered, [Next]_vars
               PROVE  Registered'
    BY DEF LockInv
  <2> USE DEF Registered
  <2>1. ASSUME NEW p \in Publishers, Publish(p) \/ Working(p)
        PROVE  Registered'
    BY <2>1 DEF Publish, Working, Lock, NextSubscriber, Unlock, Send, Evict,
                Resend, viewerVars
  <2>2. ASSUME NEW v \in Viewers, Subscribe(v) \/ Unsubscribe(v)
        PROVE  Registered'
    <3>1. left = {} /\ target = {}
      BY <2>2 DEF Subscribe, Unsubscribe, Locked
    <3>. QED
      BY <2>2, <3>1 DEF Subscribe, Unsubscribe, At, TypeOK, pubVars
  <2>3. ASSUME NEW v \in Viewers,
               \/ Receive(v) \/ Written(v) \/ ContextDone(v)
               \/ CloseChannel(v) \/ Disconnect(v)
        PROVE  Registered'
    BY <2>3 DEF Receive, Written, ContextDone, CloseChannel, Disconnect, At,
                TypeOK, pubVars
  <2>4. CASE UNCHANGED vars
    BY <2>4 DEF vars, pubVars, viewerVars
  <2>. QED
    BY <2>1, <2>2, <2>3, <2>4 DEF Next, Handling
<1>. QED
  BY <1>1, <1>2, LockInvariant, PTL DEF Spec

(* Publish never sends on a closed channel, however many publishers and    *)
(* viewers come and go between its steps.                                  *)
THEOREM NeverSendsOnClosed == Spec => []NoSendOnClosed
<1>1. Registered /\ TypeOK => NoSendOnClosed
  BY DEF Registered, TypeOK, NoSendOnClosed
<1>. QED
  BY <1>1, RegisteredInvariant, TypeCorrect, PTL

-----------------------------------------------------------------------------
(***************************************************************************)
(* Why the newest line is never given up: only the publisher that holds    *)
(* b.mu adds to a channel, so the room its eviction made is still there.   *)
(***************************************************************************)
RoomToResend ==
  /\ \A p \in Publishers : pubPC[p] = "resend" => \A v \in target : HasRoom(v)
  /\ NewestDelivered

LEMMA RoomToResendInvariant == Spec => []RoomToResend
<1>1. Init => RoomToResend
  BY DEF Init, RoomToResend, NewestDelivered
<1>2. LockInv /\ RoomToResend /\ [Next]_vars => RoomToResend'
  <2> SUFFICES ASSUME TypeOK, Locked, RoomToResend, [Next]_vars
               PROVE  RoomToResend'
    BY DEF LockInv
  <2> USE DEF RoomToResend, NewestDelivered
  <2>1. ASSUME NEW p \in Publishers, Publish(p)
        PROVE  RoomToResend'
    BY <2>1 DEF Publish, Goto, TypeOK, PubLabels, HasRoom
  <2>2. ASSUME NEW p \in Publishers, pubPC[p] \in Inside,
               pubPC' \in [Publishers -> PubLabels],
               \A q \in Publishers \ {p} : pubPC'[q] = pubPC[q]
        PROVE  \A q \in Publishers : pubPC'[q] = "resend" => q = p
    BY <2>2, BroadcastAssumption
    DEF Locked, Inside, Serving, BroadcastAssumption
  <2>3. ASSUME NEW p \in Publishers, Lock(p)
        PROVE  RoomToResend'
    BY <2>3 DEF Lock, Goto, Locked, Inside, Serving, TypeOK, PubLabels
  <2>4. ASSUME NEW p \in Publishers,
               NextSubscriber(p) \/ Unlock(p) \/ Send(p)
        PROVE  RoomToResend'
    <3>1. /\ pubPC[p] \in Inside /\ pubPC' \in [Publishers -> PubLabels]
          /\ \A q \in Publishers \ {p} : pubPC'[q] = pubPC[q]
          /\ pubPC'[p] # "resend" /\ UNCHANGED missed
      BY <2>4 DEF NextSubscriber, Unlock, Send, Goto, TypeOK, PubLabels,
                  Inside, Serving
    <3>. QED
      BY <2>2, <3>1
  <2>5. ASSUME NEW p \in Publishers, Evict(p)
        PROVE  RoomToResend'
    <3>1. /\ pubPC[p] \in Inside /\ pubPC' \in [Publishers -> PubLabels]
          /\ \A q \in Publishers \ {p} : pubPC'[q] = pubPC[q]
          /\ UNCHANGED <<missed, target>>
      BY <2>5 DEF Evict, Goto, TypeOK, PubLabels, Inside, Serving
    <3>2. PICK v \in Viewers : target = {v}
      BY <2>5 DEF Evict, Locked, Serving
    <3>3. chan[v] \in Seq(Lines) /\ Len(chan[v]) <= BufSize
      BY DEF TypeOK
    <3>4. HasRoom(v)'
      <4>1. CASE chan[v] = <<>> /\ UNCHANGED chan
        BY <4>1, BroadcastAssumption DEF BroadcastAssumption, HasRoom
      <4>2. CASE chan[v] # <<>> /\ chan' = [chan EXCEPT ![v] = Tail(@)]
        <5>1. Len(Tail(chan[v])) < BufSize
          BY <3>3, <4>2, BroadcastAssumption DEF BroadcastAssumption
        <5>. QED
          BY <4>2, <5>1 DEF HasRoom, TypeOK
      <4>. QED
        BY <2>5, <3>2, <4>1, <4>2 DEF Evict
    <3>. QED
      BY <2>2, <3>1, <3>2, <3>4
  <2>6. ASSUME NEW p \in Publishers, Resend(p)
        PROVE  RoomToResend'
    <3>1. /\ pubPC[p] \in Inside /\ pubPC' \in [Publishers -> PubLabels]
          /\ \A q \in Publishers \ {p} : pubPC'[q] = pubPC[q]
          /\ pubPC'[p] # "resend"
      BY <2>6 DEF Resend, Goto, TypeOK, PubLabels, Inside, Serving
    <3>2. missed' = missed
      BY <2>6 DEF Resend, TypeOK
    <3>. QED
      BY <2>2, <3>1, <3>2
  <2>7. ASSUME NEW v \in Viewers, Receive(v)
        PROVE  RoomToResend'
    <3>1. chan[v] \in Seq(Lines) /\ chan[v] # <<>> /\ BufSize \in Nat
      BY <2>7, BroadcastAssumption
      DEF Receive, TypeOK, BroadcastAssumption
    <3>2. Len(Tail(chan[v])) < Len(chan[v]) /\ Len(chan[v]) \in Nat
          /\ Len(Tail(chan[v])) \in Nat
      BY <3>1
    <3>3. \A w \in Viewers : HasRoom(w) => HasRoom(w)'
      BY <2>7, <3>1, <3>2 DEF Receive, HasRoom, TypeOK
    <3>. QED
      BY <2>7, <3>3 DEF Receive, pubVars, TypeOK
  <2>8. ASSUME NEW v \in Viewers,
               \/ Subscribe(v) \/ Written(v) \/ ContextDone(v)
               \/ Unsubscribe(v) \/ CloseChannel(v) \/ Disconnect(v)
        PROVE  RoomToResend'
    BY <2>8 DEF Subscribe, Written, ContextDone, Unsubscribe, CloseChannel,
                Disconnect, pubVars, HasRoom
  <2>9. CASE UNCHANGED vars
    BY <2>9 DEF vars, pubVars, HasRoom
  <2>. QED
    BY <2>1, <2>3, <2>4, <2>5, <2>6, <2>7, <2>8, <2>9
    DEF Next, Working, Handling
<1>. QED
  BY <1>1, <1>2, LockInvariant, PTL DEF Spec

(* Publish's innermost default is never taken, for any size of a channel:  *)
(* every line reaches every subscriber's channel.                          *)
THEOREM NewestAlwaysDelivered == Spec => []NewestDelivered
BY RoomToResendInvariant, PTL DEF RoomToResend

-----------------------------------------------------------------------------
(***************************************************************************)
(* The order of one viewer's lines: those it has received and those that   *)
(* were evicted are older than those in its channel, each of them grows,   *)
(* and a line that Publish still has to send it is newer than all of them. *)
(***************************************************************************)
Past(v) == ToSet(received[v]) \union evicted[v]
All(v)  == Past(v) \union ToSet(chan[v])

SequencedFor(v) ==
  /\ Increasing(received[v]) /\ Increasing(chan[v])
  /\ \A m \in Past(v), n \in ToSet(chan[v]) : m < n
  /\ \A m \in All(v) : m <= published
  /\ v \in left \union target => \A m \in All(v) : m < published

Sequenced == \A v \in Viewers : SequencedFor(v)

LEMMA LinesAreNumbers ==
  ASSUME TypeOK, NEW v \in Viewers
  PROVE  /\ received[v] \in Seq(Nat) /\ chan[v] \in Seq(Nat)
         /\ evicted[v] \subseteq Nat /\ All(v) \subseteq Nat
<1>1. Lines \subseteq Nat
  BY DEF Lines
<1>2. received[v] \in Seq(Lines) /\ chan[v] \in Seq(Lines)
      /\ evicted[v] \subseteq Lines
  BY DEF TypeOK
<1>3. received[v] \in Seq(Nat) /\ chan[v] \in Seq(Nat)
  BY <1>1, <1>2
<1>4. \A s \in Seq(Nat) : ToSet(s) \subseteq Nat
  BY DEF ToSet
<1>. QED
  BY <1>1, <1>2, <1>3, <1>4 DEF All, Past

\* the viewers whose lines a step does not touch
LEMMA OthersSequenced ==
  ASSUME NEW v, SequencedFor(v), published \in Nat, All(v) \subseteq Nat,
         received'[v] = received[v], evicted'[v] = evicted[v],
         chan'[v] = chan[v],
         \/ /\ published' = published
            /\ v \in left' \union target' => v \in left \union target
         \/ published' = published + 1
  PROVE  SequencedFor(v)'
BY DEF SequencedFor, Past, All

\* the first line leaves the channel, for the client or by an eviction
LEMMA FirstLeaves ==
  ASSUME TypeOK, NEW v \in Viewers, SequencedFor(v), chan[v] # <<>>,
         chan'[v] = Tail(chan[v]),
         \/ /\ received'[v] = Append(received[v], Head(chan[v]))
            /\ evicted'[v] = evicted[v]
         \/ /\ evicted'[v] = evicted[v] \union {Head(chan[v])}
            /\ received'[v] = received[v],
         UNCHANGED <<published, left, target>>
  PROVE  SequencedFor(v)'
<1> DEFINE h == Head(chan[v])
<1>1. /\ received[v] \in Seq(Nat) /\ chan[v] \in Seq(Nat)
      /\ evicted[v] \subseteq Nat /\ All(v) \subseteq Nat
  BY LinesAreNumbers
<1>2. /\ h \in ToSet(chan[v]) /\ ToSet(chan'[v]) \subseteq ToSet(chan[v])
      /\ Increasing(chan'[v]) /\ \A m \in ToSet(chan'[v]) : h < m
  BY <1>1, TakeFirst DEF SequencedFor
<1>3. h \in Nat
  BY <1>1, <1>2 DEF All
<1>4. Past(v)' = Past(v) \union {h} /\ Increasing(received'[v])
  <2>1. CASE /\ received'[v] = Append(received[v], h)
             /\ evicted'[v] = evicted[v]
    <3>1. ToSet(received'[v]) = ToSet(received[v]) \union {h}
      BY <1>1, <1>3, <2>1, AddLast
    <3>2. Increasing(received[v]) /\ \A m \in ToSet(received[v]) : m < h
      BY <1>2 DEF SequencedFor, Past
    <3>3. Increasing(received'[v])
      BY <1>1, <1>3, <2>1, <3>2, AddLast
    <3>. QED
      BY <2>1, <3>1, <3>3 DEF Past
  <2>2. CASE /\ evicted'[v] = evicted[v] \union {h}
             /\ received'[v] = received[v]
    BY <2>2 DEF Past, SequencedFor
  <2>. QED
    BY <2>1, <2>2
<1>5. All(v)' \subseteq All(v)
  BY <1>2, <1>4 DEF All
<1>. QED
  BY <1>2, <1>4, <1>5 DEF SequencedFor

\* a line newer than all is sent to the channel
LEMMA NewestArrives ==
  ASSUME TypeOK, NEW v \in Viewers, SequencedFor(v),
         published \in Nat, v \in left \union target,
         chan'[v] = Append(chan[v], published),
         received'[v] = received[v], evicted'[v] = evicted[v],
         published' = published, v \notin left' \union target'
  PROVE  SequencedFor(v)'
<1>1. chan[v] \in Seq(Nat) /\ All(v) \subseteq Nat
  BY LinesAreNumbers
<1>2. \A m \in All(v) : m < published
  BY DEF SequencedFor
<1>3. ToSet(chan'[v]) = ToSet(chan[v]) \union {published}
  BY <1>1, AddLast
<1>4. Increasing(chan'[v])
  <2>1. Increasing(chan[v]) /\ \A m \in ToSet(chan[v]) : m < published
    BY <1>2 DEF SequencedFor, All
  <2>. QED
    BY <1>1, <2>1, AddLast
<1>5. Past(v)' = Past(v) /\ All(v)' = All(v) \union {published}
  BY <1>3 DEF Past, All
<1>6. \A m \in Past(v) : m < published
  BY <1>2 DEF All
<1>. QED
  BY <1>1, <1>2, <1>3, <1>4, <1>5, <1>6 DEF SequencedFor

LEMMA SequencedInvariant == Spec => []Sequenced
<1>1. Init => Sequenced
  <2> SUFFICES ASSUME Init, NEW v \in Viewers PROVE SequencedFor(v)
    BY DEF Sequenced
  <2>1. received[v] = <<>> /\ chan[v] = <<>> /\ evicted[v] = {}
    BY DEF Init
  <2>2. ToSet(<<>>) = {} /\ Increasing(<<>>)
    BY DEF ToSet, Increasing
  <2>. QED
    BY <2>1, <2>2 DEF SequencedFor, Past, All
<1>2. LockInv /\ Sequenced /\ [Next]_vars => Sequenced'
  <2> SUFFICES ASSUME TypeOK, Locked, Sequenced, [Next]_vars,
                      NEW v \in Viewers
               PROVE  SequencedFor(v)'
    BY DEF LockInv, Sequenced
  <2>1. /\ SequencedFor(v) /\ published \in Nat /\ All(v) \subseteq Nat
        /\ chan[v] \in Seq(Nat)
    BY LinesAreNumbers DEF Sequenced, TypeOK
  <2>2. ASSUME NEW p \in Publishers, Publish(p) \/ Lock(p) \/ Unlock(p)
        PROVE  SequencedFor(v)'
    <3>1. /\ UNCHANGED <<received, evicted, chan>>
          /\ \/ published' = published /\ UNCHANGED <<left, target>>
             \/ published' = published + 1
      BY <2>2 DEF Publish, Lock, Unlock, viewerVars
    <3>. QED
      BY <2>1, <3>1, OthersSequenced
  <2>3. ASSUME NEW p \in Publishers, NextSubscriber(p)
        PROVE  SequencedFor(v)'
    <3>1. UNCHANGED <<received, evicted, chan, published>>
      BY <2>3 DEF NextSubscriber, viewerVars
    <3>2. left' \union target' \subseteq left \union target
      BY <2>3 DEF NextSubscriber
    <3>. QED
      BY <2>1, <3>1, <3>2, OthersSequenced
  <2>4. ASSUME NEW p \in Publishers, Send(p) \/ Resend(p)
        PROVE  SequencedFor(v)'
    <3>1. holder = p /\ line = published
      BY <2>4, BroadcastAssumption
      DEF BroadcastAssumption, Send, Resend, Locked, Inside, Serving
    <3>2. PICK t \in Viewers \ left : target = {t}
      BY <2>4 DEF Send, Resend, Locked, Serving
    <3>3. /\ chan' = Sent(t) /\ UNCHANGED <<received, evicted, published, left>>
          /\ target' = {} \/ (target' = target /\ ~HasRoom(t))
      BY <2>4, <3>2 DEF Send, Resend, viewerVars
    <3>4. CASE v # t \/ ~HasRoom(t)
      <4>1. chan'[v] = chan[v]
        BY <3>3, <3>4 DEF Sent, TypeOK
      <4>. QED
        BY <2>1, <3>3, <4>1, OthersSequenced
    <3>5. CASE v = t /\ HasRoom(t)
      <4>1. chan'[v] = Append(chan[v], published)
        BY <3>1, <3>3, <3>5 DEF Sent, TypeOK
      <4>2. v \in left \union target /\ v \notin left' \union target'
        BY <3>2, <3>3, <3>5
      <4>. QED
        BY <2>1, <3>3, <4>1, <4>2, NewestArrives
    <3>. QED
      BY <3>4, <3>5
  <2>5. ASSUME NEW p \in Publishers, Evict(p)
        PROVE  SequencedFor(v)'
    <3>1. PICK t \in Viewers :
            \/ /\ chan[t] # <<>>
               /\ chan' = [chan EXCEPT ![t] = Tail(@)]
               /\ evicted' = [evicted EXCEPT ![t] = @ \union {Head(chan[t])}]
            \/ UNCHANGED <<chan, evicted>>
      BY <2>5 DEF Evict, TypeOK
    <3>2. UNCHANGED <<received, published, left, target>>
      BY <2>5 DEF Evict, viewerVars
    <3>3. CASE v # t \/ UNCHANGED <<chan, evicted>>
      <4>1. chan'[v] = chan[v] /\ evicted'[v] = evicted[v]
        BY <3>1, <3>3 DEF TypeOK
      <4>. QED
        BY <2>1, <3>2, <4>1, OthersSequenced
    <3>4. CASE /\ v = t /\ chan[t] # <<>>
               /\ chan' = [chan EXCEPT ![t] = Tail(@)]
               /\ evicted' = [evicted EXCEPT ![t] = @ \union {Head(chan[t])}]
      <4>1. /\ chan'[v] = Tail(chan[v])
            /\ evicted'[v] = evicted[v] \union {Head(chan[v])}
        BY <3>4 DEF TypeOK
      <4>. QED
        BY <2>1, <3>2, <3>4, <4>1, FirstLeaves
    <3>. QED
      BY <3>1, <3>3, <3>4
  <2>6. ASSUME NEW w \in Viewers, Receive(w)
        PROVE  SequencedFor(v)'
    <3>1. UNCHANGED <<evicted, published, left, target>>
      BY <2>6 DEF Receive, pubVars
    <3>2. CASE v # w
      <4>1. chan'[v] = chan[v] /\ received'[v] = received[v]
        BY <2>6, <3>2 DEF Receive, TypeOK
      <4>. QED
        BY <2>1, <3>1, <4>1, OthersSequenced
    <3>3. CASE v = w
      <4>1. /\ chan[v] # <<>> /\ chan'[v] = Tail(chan[v])
            /\ received'[v] = Append(received[v], Head(chan[v]))
        BY <2>6, <3>3 DEF Receive, TypeOK
      <4>. QED
        BY <2>1, <3>1, <4>1, FirstLeaves
    <3>. QED
      BY <3>2, <3>3
  <2>7. ASSUME NEW w \in Viewers,
               \/ Subscribe(w) \/ Written(w) \/ ContextDone(w)
               \/ Unsubscribe(w) \/ CloseChannel(w) \/ Disconnect(w)
        PROVE  SequencedFor(v)'
    <3>1. UNCHANGED <<received, evicted, chan, published, left, target>>
      BY <2>7 DEF Subscribe, Written, ContextDone, Unsubscribe, CloseChannel,
                  Disconnect, pubVars
    <3>. QED
      BY <2>1, <3>1, OthersSequenced
  <2>8. CASE UNCHANGED vars
    BY <2>1, <2>8, OthersSequenced DEF vars, pubVars, viewerVars
  <2>. QED
    BY <2>2, <2>3, <2>4, <2>5, <2>6, <2>7, <2>8 DEF Next, Working, Handling
<1>. QED
  BY <1>1, <1>2, LockInvariant, PTL DEF Spec

(* A viewer sees lines in the order of Publish and none twice, for every   *)
(* number of publishers and whatever evictions come between its receives.  *)
THEOREM AlwaysViewedInOrder == Spec => []ViewedInOrder
<1>1. TypeOK /\ Sequenced => ViewedInOrder
  <2> SUFFICES ASSUME TypeOK, Sequenced, NEW v \in Viewers
               PROVE  Increasing(received[v] \o chan[v])
    BY DEF ViewedInOrder
  <2>1. received[v] \in Seq(Nat) /\ chan[v] \in Seq(Nat)
    BY LinesAreNumbers
  <2>. QED
    BY <2>1, JoinOrdered DEF Sequenced, SequencedFor, Past
<1>. QED
  BY <1>1, TypeCorrect, SequencedInvariant, PTL

(* What an eviction throws away is older than all that still waits in the  *)
(* viewer's channel.                                                       *)
THEOREM LossAlwaysOldest == Spec => []LossIsOldest
<1>1. Sequenced => LossIsOldest
  BY DEF Sequenced, SequencedFor, Past, LossIsOldest
<1>. QED
  BY <1>1, SequencedInvariant, PTL
=============================================================================
