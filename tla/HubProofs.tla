----------------------------- MODULE HubProofs -----------------------------
(***************************************************************************)
(* Proofs about Hub.tla, for any number of clients, streams and closers,   *)
(* any buffer size and any number of events: its types, that nobody sends  *)
(* on a closed channel, the order of the events of one client on a stream, *)
(* and that Hub.Drops counts every loss.                                   *)
(***************************************************************************)
EXTENDS Hub, SequenceTheorems, FiniteSetTheorems, TLAPS

(* A client inside a hook call still has an event to publish, so the       *)
(* countdown of PublishReturn stays in Nat.                                *)
HookBusy == \A c \in Clients : cpc[c] # "idle" => todo[c] > 0

TypeInv == TypeOK /\ HookBusy

(* The lock discipline of hub.go, which is what makes NoPanic inductive:   *)
(* the fan-out loops run inside the read lock and only over channels that  *)
(* are still subscribed, and a subscribed channel is open.                 *)
FanOutLocked ==
    \A c \in Clients :
        /\ cpc[c] = "send" => c \in readers
        /\ cpc[c] = "send" => rest[c] \subseteq subs

SubscribedOpen == \A s \in subs : chan[s] = "open"

HubInv == TypeInv /\ FanOutLocked /\ SubscribedOpen /\ NoPanic

(* The countdown of a hook call's events when Publish returns.             *)
LEMMA CountdownTyped ==
    ASSUME TypeInv, NEW c \in Clients, cpc[c] # "idle", PublishReturn(c)
    PROVE  /\ todo' \in [Clients -> Nat]
           /\ cpc' \in [Clients -> {"idle", "check", "stamp", "rlock", "send"}]
           /\ HookBusy'
<1> USE DEF TypeInv, TypeOK, HookBusy, PublishReturn
<1>1. todo[c] \in Nat /\ todo[c] > 0
  OBVIOUS
<1>2. todo' \in [Clients -> Nat]
  BY <1>1
<1>3. cpc' \in [Clients -> {"idle", "check", "stamp", "rlock", "send"}]
  OBVIOUS
<1>4. HookBusy'
  BY <1>1
<1> QED
  BY <1>2, <1>3, <1>4

(* Typing: every step of the hub, of a hook or of a stream keeps TypeInv.  *)
LEMMA TypeStep == TypeInv /\ [Next]_vars => TypeInv'
<1> SUFFICES ASSUME TypeInv, [Next]_vars PROVE TypeInv'
  OBVIOUS
<1> USE DEF TypeInv, TypeOK, HookBusy, hubVars, lockVars, clientVars,
        streamVars
<1>1. ASSUME NEW c \in Clients, NEW n \in 1..MaxFilters, HookCall(c, n)
      PROVE  TypeInv'
  BY <1>1, BoundsAssumption DEF HookCall
<1>2. ASSUME NEW c \in Clients, PublishCheckClosed(c) PROVE TypeInv'
  <2>1. CASE closed
    <3>1. /\ todo' \in [Clients -> Nat]
          /\ cpc' \in [Clients -> {"idle", "check", "stamp", "rlock", "send"}]
          /\ HookBusy'
      BY <1>2, <2>1, CountdownTyped DEF PublishCheckClosed
    <3> QED
      BY <1>2, <3>1 DEF PublishCheckClosed
  <2>2. CASE ~closed
    BY <1>2, <2>2 DEF PublishCheckClosed
  <2> QED
    BY <2>1, <2>2
<1>3. ASSUME NEW c \in Clients, PublishStamp(c) PROVE TypeInv'
  BY <1>3 DEF PublishStamp, Event
<1>4. ASSUME NEW c \in Clients, PublishRLock(c) PROVE TypeInv'
  BY <1>4 DEF PublishRLock
<1>5. ASSUME NEW c \in Clients, NEW s \in Streams, PublishSend(c, s)
      PROVE  TypeInv'
  <2>0. Append(buf[s], ev[c]) \in Seq(Event)
    OBVIOUS
  <2>1. buf' \in [Streams -> Seq(Event)]
    BY <1>5, <2>0 DEF PublishSend
  <2>2. rest' \in [Clients -> SUBSET Streams] /\ drops' \in Nat
    BY <1>5 DEF PublishSend
  <2>3. panicked' \in BOOLEAN
    BY <1>5 DEF PublishSend
  <2> QED
    BY <1>5, <2>1, <2>2, <2>3 DEF PublishSend
<1>6. ASSUME NEW c \in Clients, PublishRUnlock(c) PROVE TypeInv'
  <2>1. /\ todo' \in [Clients -> Nat]
        /\ cpc' \in [Clients -> {"idle", "check", "stamp", "rlock", "send"}]
        /\ HookBusy'
    BY <1>6, CountdownTyped DEF PublishRUnlock
  <2>2. ev' \in [Clients -> Event]
    BY <1>6 DEF PublishRUnlock, NoEvent, Event
  <2> QED
    BY <1>6, <2>1, <2>2 DEF PublishRUnlock
<1>7. ASSUME NEW s \in Streams, Subscribe(s) PROVE TypeInv'
  BY <1>7 DEF Subscribe
<1>8. ASSUME NEW s \in Streams, ClientGone(s) PROVE TypeInv'
  BY <1>8 DEF ClientGone
<1>9. ASSUME NEW s \in Streams, Receive(s) PROVE TypeInv'
  <2>1. /\ got' \in [Streams -> Seq(Event)]
        /\ buf' \in [Streams -> Seq(Event)]
    BY <1>9 DEF Receive
  <2> QED
    BY <1>9, <2>1 DEF Receive
<1>10. ASSUME NEW s \in Streams, StreamReturn(s) PROVE TypeInv'
  BY <1>10 DEF StreamReturn
<1>11. ASSUME NEW s \in Streams, Unsubscribe(s) PROVE TypeInv'
  BY <1>11 DEF Unsubscribe
<1>12. ASSUME NEW k \in Closers, CloseSwap(k) PROVE TypeInv'
  BY <1>12 DEF CloseSwap
<1>13. ASSUME NEW k \in Closers, CloseAll(k) PROVE TypeInv'
  BY <1>13 DEF CloseAll
<1>14. ASSUME NEW g \in Streams \cup Closers, LockRequested(g) PROVE TypeInv'
  BY <1>14 DEF LockRequested
<1>15. CASE UNCHANGED vars
  BY <1>15 DEF vars
<1> QED
  BY <1>1, <1>2, <1>3, <1>4, <1>5, <1>6, <1>7, <1>8, <1>9, <1>10, <1>11,
     <1>12, <1>13, <1>14, <1>15
  DEF Next, ClientStep, StreamStep, CloserStep

(* The initial state, NewHub's, is typed.                                  *)
LEMMA TypeInit == Init => TypeInv
<1> SUFFICES ASSUME Init PROVE TypeInv
  OBVIOUS
<1>1. ev \in [Clients -> Event]
  BY DEF Init, Event, NoEvent
<1>2. buf \in [Streams -> Seq(Event)] /\ got \in [Streams -> Seq(Event)]
  BY DEF Init
<1> QED
  BY <1>1, <1>2, BoundsAssumption DEF Init, TypeInv, TypeOK, HookBusy

(* Typing holds in every reachable state of the hub.                       *)
THEOREM HubTyped == Spec => []TypeOK
<1>1. TypeInv => TypeOK
  BY DEF TypeInv
<1> QED
  BY <1>1, TypeInit, TypeStep, PTL DEF Spec

(* Safety: every step keeps the lock discipline and panics nowhere.        *)
LEMMA HubStep == HubInv /\ [Next]_vars => HubInv'
<1> SUFFICES ASSUME HubInv, [Next]_vars PROVE HubInv'
  OBVIOUS
<1>0. TypeInv'
  BY TypeStep DEF HubInv
<1> USE <1>0, GoroutineAssumption
    DEF HubInv, FanOutLocked, SubscribedOpen, NoPanic, TypeInv, TypeOK,
        hubVars, lockVars, clientVars, streamVars
<1>1. ASSUME NEW c \in Clients, NEW n \in 1..MaxFilters, HookCall(c, n)
      PROVE  HubInv'
  BY <1>1 DEF HookCall
<1>2. ASSUME NEW c \in Clients, PublishCheckClosed(c) PROVE HubInv'
  BY <1>2 DEF PublishCheckClosed, PublishReturn
<1>3. ASSUME NEW c \in Clients, PublishStamp(c) PROVE HubInv'
  BY <1>3 DEF PublishStamp
<1>4. ASSUME NEW c \in Clients, PublishRLock(c) PROVE HubInv'
  BY <1>4 DEF PublishRLock
<1>5. ASSUME NEW c \in Clients, NEW s \in Streams, PublishSend(c, s)
      PROVE  HubInv'
  <2>1. s \in subs /\ chan[s] = "open"
    BY <1>5 DEF PublishSend
  <2> QED
    BY <1>5, <2>1 DEF PublishSend
<1>6. ASSUME NEW c \in Clients, PublishRUnlock(c) PROVE HubInv'
  BY <1>6 DEF PublishRUnlock, PublishReturn
<1>7. ASSUME NEW s \in Streams, Subscribe(s) PROVE HubInv'
  BY <1>7 DEF Subscribe
<1>8. ASSUME NEW s \in Streams, ClientGone(s) PROVE HubInv'
  BY <1>8 DEF ClientGone
<1>9. ASSUME NEW s \in Streams, Receive(s) PROVE HubInv'
  BY <1>9 DEF Receive
<1>10. ASSUME NEW s \in Streams, StreamReturn(s) PROVE HubInv'
  BY <1>10 DEF StreamReturn
<1>11. ASSUME NEW s \in Streams, Unsubscribe(s) PROVE HubInv'
  <2>1. \A c \in Clients : cpc[c] # "send"
    BY <1>11 DEF Unsubscribe, WriteLocked
  <2>2. ~panicked'
    BY <1>11 DEF Unsubscribe
  <2> QED
    BY <1>11, <2>1, <2>2 DEF Unsubscribe
<1>12. ASSUME NEW k \in Closers, CloseSwap(k) PROVE HubInv'
  BY <1>12 DEF CloseSwap
<1>13. ASSUME NEW k \in Closers, CloseAll(k) PROVE HubInv'
  <2>1. \A c \in Clients : cpc[c] # "send"
    BY <1>13 DEF CloseAll, WriteLocked
  <2>2. ~panicked'
    BY <1>13 DEF CloseAll
  <2> QED
    BY <1>13, <2>1, <2>2 DEF CloseAll
<1>14. ASSUME NEW g \in Streams \cup Closers, LockRequested(g) PROVE HubInv'
  BY <1>14 DEF LockRequested
<1>15. CASE UNCHANGED vars
  BY <1>15 DEF vars
<1> QED
  BY <1>1, <1>2, <1>3, <1>4, <1>5, <1>6, <1>7, <1>8, <1>9, <1>10, <1>11,
     <1>12, <1>13, <1>14, <1>15
  DEF Next, ClientStep, StreamStep, CloserStep

(* Publish never sends on a closed channel and no channel is closed twice, *)
(* whatever the number of goroutines and however they interleave.          *)
THEOREM HubNeverPanics == Spec => []NoPanic
<1>1. Init => HubInv
  BY TypeInit DEF Init, HubInv, FanOutLocked, SubscribedOpen, NoPanic
<1>2. HubInv => NoPanic
  BY DEF HubInv
<1> QED
  BY <1>1, <1>2, HubStep, PTL DEF Spec

----------------------------------------------------------------------------
(* The order of the events of one MQTT client on a stream.                 *)

(* No event a stream has, or that a client is publishing, is newer than    *)
(* h.seq.                                                                  *)
StampsBehind ==
    /\ \A s \in Streams : \A i \in DOMAIN Delivered(s) :
        Delivered(s)[i].seq <= seq
    /\ \A c \in Clients : ev[c].client = c /\ ev[c].seq <= seq

(* The event that a client is publishing is newer than all those of the    *)
(* same client on every stream that is still to get it.                    *)
NextIsNewer ==
    \A c \in Clients, s \in Streams :
        cpc[c] = "rlock" \/ (cpc[c] = "send" /\ s \in rest[c]) =>
            \A i \in DOMAIN Delivered(s) :
                Delivered(s)[i].client = c => Delivered(s)[i].seq < ev[c].seq

OrderInv == TypeInv /\ StampsBehind /\ NextIsNewer /\ ClientOrder

(* A receive moves an event from the channel to the response and leaves    *)
(* what was delivered as it is.                                            *)
LEMMA ReceiveKeepsDelivered ==
    ASSUME NEW S, NEW p \in Seq(S), NEW q \in Seq(S), q # <<>>
    PROVE  Append(p, Head(q)) \o Tail(q) = p \o q
<1> DEFINE l == Append(p, Head(q)) \o Tail(q)
<1>1. Head(q) \in S /\ Head(q) = q[1] /\ Tail(q) \in Seq(S)
      /\ Len(Tail(q)) = Len(q) - 1
      /\ \A i \in 1..Len(Tail(q)) : Tail(q)[i] = q[i + 1]
  BY HeadTailProperties
<1>2. Append(p, Head(q)) \in Seq(S) /\ Len(Append(p, Head(q))) = Len(p) + 1
      /\ \A i \in 1..Len(p) : Append(p, Head(q))[i] = p[i]
      /\ Append(p, Head(q))[Len(p) + 1] = q[1]
  BY <1>1, AppendProperties
<1>3. l \in Seq(S) /\ Len(l) = Len(p) + Len(q)
  BY <1>1, <1>2, ConcatProperties
<1>4. ASSUME NEW i \in 1..(Len(p) + Len(q))
      PROVE  l[i] = IF i <= Len(p) THEN p[i] ELSE q[i - Len(p)]
  <2>1. l[i] = IF i <= Len(p) + 1 THEN Append(p, Head(q))[i]
               ELSE Tail(q)[i - (Len(p) + 1)]
    BY <1>1, <1>2, ConcatProperties
  <2>2. CASE i <= Len(p)
    BY <1>2, <2>1, <2>2
  <2>3. CASE i = Len(p) + 1
    BY <1>2, <2>1, <2>3
  <2>4. CASE i > Len(p) + 1
    <3>1. i - (Len(p) + 1) \in 1..Len(Tail(q))
      BY <1>1, <2>4
    <3> QED
      BY <1>1, <2>1, <2>4, <3>1
  <2> QED
    BY <2>2, <2>3, <2>4
<1>5. \A i \in 1..(Len(p) + Len(q)) : l[i] = (p \o q)[i]
  BY <1>4, ConcatProperties
<1> QED
  BY <1>3, <1>5, ConcatProperties, SeqEqual

(* A send puts its event behind everything that was delivered.             *)
LEMMA SendAppends ==
    ASSUME NEW S, NEW p \in Seq(S), NEW q \in Seq(S), NEW e \in S
    PROVE  p \o Append(q, e) = Append(p \o q, e)
<1>1. Append(q, e) = q \o <<e>> /\ <<e>> \in Seq(S)
  BY AppendIsConcat
<1>2. p \o q \in Seq(S)
  BY ConcatProperties
<1>3. Append(p \o q, e) = (p \o q) \o <<e>>
  BY <1>2, AppendIsConcat
<1> QED
  BY <1>1, <1>3, ConcatAssociative

(* Steps that leave what was delivered, the stamps and the fan-out alone.  *)
LEMMA OrderFrame ==
    ASSUME OrderInv, TypeInv', UNCHANGED <<seq, ev>>,
           \A s \in Streams : Delivered(s)' = Delivered(s),
           \A c \in Clients, s \in Streams :
              (cpc[c] = "rlock" \/ (cpc[c] = "send" /\ s \in rest[c]))'
              => cpc[c] = "rlock" \/ (cpc[c] = "send" /\ s \in rest[c])
    PROVE  OrderInv'
<1>1. StampsBehind'
  BY DEF OrderInv, StampsBehind
<1>2. NextIsNewer'
  BY DEF OrderInv, NextIsNewer
<1>3. ClientOrder'
  BY DEF OrderInv, ClientOrder
<1> QED
  BY <1>1, <1>2, <1>3 DEF OrderInv

(* Every step of the hub keeps the order.                                  *)
LEMMA OrderStep == OrderInv /\ [Next]_vars => OrderInv'
<1> SUFFICES ASSUME OrderInv, [Next]_vars PROVE OrderInv'
  OBVIOUS
<1>0. TypeInv /\ TypeOK /\ TypeInv' /\ TypeOK'
  BY TypeStep DEF OrderInv, TypeInv
<1> USE <1>0
<1> DEFINE Pending(c, s) ==
      cpc[c] = "rlock" \/ (cpc[c] = "send" /\ s \in rest[c])
<1>1. ASSUME UNCHANGED <<seq, ev, got, buf>>,
             \A c \in Clients, s \in Streams : Pending(c, s)' => Pending(c, s)
      PROVE  OrderInv'
  <2>1. \A s \in Streams : Delivered(s)' = Delivered(s)
    BY <1>1 DEF Delivered
  <2> QED
    BY <1>1, <2>1, OrderFrame
<1>2. ASSUME NEW c \in Clients, NEW n \in 1..MaxFilters, HookCall(c, n)
      PROVE  OrderInv'
  BY <1>1, <1>2 DEF HookCall, hubVars, streamVars, TypeOK
<1>3. ASSUME NEW c \in Clients, PublishCheckClosed(c) PROVE OrderInv'
  BY <1>1, <1>3
  DEF PublishCheckClosed, PublishReturn, hubVars, streamVars, TypeOK
<1>4. ASSUME NEW c \in Clients, PublishStamp(c) PROVE OrderInv'
  <2>1. \A s \in Streams : Delivered(s)' = Delivered(s)
    BY <1>4 DEF PublishStamp, Delivered, streamVars
  <2>2. seq' = seq + 1 /\ seq \in Nat
    BY <1>4 DEF PublishStamp, TypeOK
  <2>3. /\ ev'[c] = [seq |-> seq + 1, client |-> c]
        /\ \A d \in Clients \ {c} : ev'[d] = ev[d] /\ cpc'[d] = cpc[d]
        /\ rest' = rest
    BY <1>4 DEF PublishStamp, TypeOK
  <2>4. \A s \in Streams : \A i \in DOMAIN Delivered(s) :
            Delivered(s)[i].seq \in Nat
    <3> TAKE s \in Streams
    <3>1. got[s] \in Seq(Event) /\ buf[s] \in Seq(Event)
      BY DEF TypeOK
    <3>2. Delivered(s) \in Seq(Event)
      BY <3>1, ConcatProperties DEF Delivered
    <3>3. \A i \in DOMAIN Delivered(s) : Delivered(s)[i] \in Event
      BY <3>2, ElementOfSeq
    <3> QED
      BY <3>3 DEF Event
  <2>5. StampsBehind'
    <3>1. \A s \in Streams : \A i \in DOMAIN Delivered(s) :
              Delivered(s)[i].seq <= seq + 1
      BY <2>2, <2>4 DEF OrderInv, StampsBehind
    <3>2. \A d \in Clients \ {c} : ev[d].client = d /\ ev[d].seq <= seq + 1
      BY <2>2 DEF OrderInv, StampsBehind, TypeOK, Event
    <3>3. \A d \in Clients : ev'[d].client = d /\ ev'[d].seq <= seq + 1
      BY <2>2, <2>3, <3>2
    <3> QED
      BY <2>1, <2>2, <3>1, <3>3 DEF StampsBehind
  <2>6. NextIsNewer'
    BY <2>1, <2>2, <2>3, <2>4 DEF OrderInv, NextIsNewer, StampsBehind
  <2>7. ClientOrder'
    BY <2>1 DEF OrderInv, ClientOrder
  <2> QED
    BY <2>5, <2>6, <2>7 DEF OrderInv
<1>5. ASSUME NEW c \in Clients, PublishRLock(c) PROVE OrderInv'
  BY <1>1, <1>5 DEF PublishRLock, hubVars, streamVars, TypeOK
<1>6. ASSUME NEW c \in Clients, NEW s \in Streams, PublishSend(c, s)
      PROVE  OrderInv'
  <2>1. /\ UNCHANGED <<seq, ev, got, cpc>>
        /\ cpc[c] = "send" /\ s \in rest[c]
        /\ rest' = [rest EXCEPT ![c] = @ \ {s}]
        /\ buf' = buf \/ buf' = [buf EXCEPT ![s] = Append(@, ev[c])]
    BY <1>6 DEF PublishSend
  <2>2. CASE buf' = buf
    BY <1>1, <2>1, <2>2 DEF TypeOK
  <2>3. CASE buf' = [buf EXCEPT ![s] = Append(@, ev[c])]
    <3> DEFINE d == Delivered(s)
    <3>1. d \in Seq(Event) /\ ev[c] \in Event
      BY ConcatProperties DEF TypeOK, Delivered
    <3>2. Delivered(s)' = Append(d, ev[c])
      <4>1. got[s] \in Seq(Event) /\ buf[s] \in Seq(Event)
        BY DEF TypeOK
      <4>2. got[s] \o Append(buf[s], ev[c]) = Append(got[s] \o buf[s], ev[c])
        <5> DEFINE p == got[s]  q == buf[s]  e == ev[c]
        <5>1. p \in Seq(Event) /\ q \in Seq(Event) /\ e \in Event
          BY <3>1, <4>1
        <5> HIDE DEF p, q, e
        <5>2. p \o Append(q, e) = Append(p \o q, e)
          BY <5>1, SendAppends
        <5> QED
          BY <5>2 DEF p, q, e
      <4>3. Delivered(s)' = got[s] \o Append(buf[s], ev[c])
        BY <2>1, <2>3 DEF TypeOK, Delivered
      <4> QED
        BY <4>2, <4>3 DEF Delivered
    <3>3. \A t \in Streams \ {s} : Delivered(t)' = Delivered(t)
      BY <2>1, <2>3 DEF TypeOK, Delivered
    <3>4. /\ DOMAIN Append(d, ev[c]) = 1..(Len(d) + 1) /\ DOMAIN d = 1..Len(d)
          /\ Len(d) \in Nat
          /\ \A i \in 1..Len(d) : Append(d, ev[c])[i] = d[i]
          /\ Append(d, ev[c])[Len(d) + 1] = ev[c]
      BY <3>1, AppendProperties
    <3> HIDE DEF d
    <3>5. ev[c].client = c /\ ev[c].seq <= seq
      BY DEF OrderInv, StampsBehind
    <3>6. \A i \in DOMAIN d : d[i].client = c => d[i].seq < ev[c].seq
      BY <2>1 DEF OrderInv, NextIsNewer, d
    <3>7. StampsBehind'
      <4>1. \A i \in DOMAIN d : d[i].seq <= seq
        BY DEF OrderInv, StampsBehind, d
      <4>2. \A i \in DOMAIN Append(d, ev[c]) : Append(d, ev[c])[i].seq <= seq
        BY <3>4, <3>5, <4>1
      <4> QED
        BY <2>1, <3>2, <3>3, <4>2 DEF OrderInv, StampsBehind
    <3>8. NextIsNewer'
      <4> SUFFICES ASSUME NEW e \in Clients, NEW t \in Streams, Pending(e, t)',
                          NEW i \in DOMAIN Delivered(t)',
                          Delivered(t)'[i].client = e
                   PROVE  Delivered(t)'[i].seq < ev[e].seq
        BY <2>1 DEF NextIsNewer
      <4>1. Pending(e, t) /\ ~(e = c /\ t = s)
        BY <2>1 DEF TypeOK
      <4>2. CASE t # s
        BY <3>3, <4>1, <4>2 DEF OrderInv, NextIsNewer
      <4>3. CASE t = s
        <5>1. i # Len(d) + 1
          BY <3>2, <3>4, <3>5, <4>1, <4>3
        <5>2. i \in DOMAIN d /\ Delivered(t)'[i] = d[i]
          BY <3>2, <3>4, <4>3, <5>1
        <5> QED
          BY <4>1, <4>3, <5>2 DEF OrderInv, NextIsNewer, d
      <4> QED
        BY <4>2, <4>3
    <3>9. ClientOrder'
      <4>1. ASSUME NEW i \in 1..(Len(d) + 1), NEW j \in 1..(Len(d) + 1), i < j,
                   Append(d, ev[c])[i].client = Append(d, ev[c])[j].client
            PROVE  Append(d, ev[c])[i].seq < Append(d, ev[c])[j].seq
        <5>1. CASE j = Len(d) + 1
          BY <3>4, <3>5, <3>6, <4>1, <5>1
        <5>2. CASE j # Len(d) + 1
          <6>1. i \in 1..Len(d) /\ j \in 1..Len(d)
            BY <3>4, <4>1, <5>2
          <6> QED
            BY <3>4, <4>1, <6>1 DEF OrderInv, ClientOrder, d
        <5> QED
          BY <5>1, <5>2
      <4> QED
        BY <3>2, <3>3, <3>4, <4>1 DEF OrderInv, ClientOrder
    <3> QED
      BY <3>7, <3>8, <3>9 DEF OrderInv
  <2> QED
    BY <2>1, <2>2, <2>3
<1>7. ASSUME NEW c \in Clients, PublishRUnlock(c) PROVE OrderInv'
  <2>1. \A s \in Streams : Delivered(s)' = Delivered(s)
    BY <1>7 DEF PublishRUnlock, Delivered, streamVars
  <2>2. /\ seq' = seq /\ seq \in Nat /\ rest' = rest
        /\ ev'[c] = NoEvent(c) /\ cpc'[c] \in {"check", "idle"}
        /\ \A d \in Clients \ {c} : ev'[d] = ev[d] /\ cpc'[d] = cpc[d]
    BY <1>7 DEF PublishRUnlock, PublishReturn, TypeOK, hubVars
  <2>3. StampsBehind'
    BY <2>1, <2>2 DEF OrderInv, StampsBehind, NoEvent
  <2>4. NextIsNewer'
    BY <2>1, <2>2 DEF OrderInv, NextIsNewer
  <2>5. ClientOrder'
    BY <2>1 DEF OrderInv, ClientOrder
  <2> QED
    BY <2>3, <2>4, <2>5 DEF OrderInv
<1>8. ASSUME NEW s \in Streams, Receive(s) PROVE OrderInv'
  <2>1. \A t \in Streams : Delivered(t)' = Delivered(t)
    <3>1. Append(got[s], Head(buf[s])) \o Tail(buf[s]) = got[s] \o buf[s]
      <4>1. got[s] \in Seq(Event) /\ buf[s] \in Seq(Event) /\ buf[s] # <<>>
        BY <1>8 DEF Receive, TypeOK
      <4> QED
        BY <4>1, ReceiveKeepsDelivered
    <3> QED
      BY <1>8, <3>1 DEF Receive, TypeOK, Delivered
  <2> QED
    BY <1>8, <2>1, OrderFrame DEF Receive, hubVars, clientVars
<1>9. ASSUME NEW s \in Streams,
             Subscribe(s) \/ ClientGone(s) \/ StreamReturn(s) \/ Unsubscribe(s)
      PROVE  OrderInv'
  BY <1>1, <1>9 DEF Subscribe, ClientGone, StreamReturn, Unsubscribe, hubVars,
                    clientVars
<1>10. ASSUME NEW k \in Closers, CloserStep(k) PROVE OrderInv'
  BY <1>1, <1>10 DEF CloserStep, CloseSwap, CloseAll, clientVars, streamVars
<1>11. ASSUME NEW g \in Streams \cup Closers, LockRequested(g) PROVE OrderInv'
  BY <1>1, <1>11 DEF LockRequested, hubVars, clientVars, streamVars
<1>12. CASE UNCHANGED vars
  BY <1>1, <1>12 DEF vars, hubVars, clientVars, streamVars
<1> QED
  BY <1>2, <1>3, <1>4, <1>5, <1>6, <1>7, <1>8, <1>9, <1>10, <1>11, <1>12
  DEF Next, ClientStep, StreamStep

(* The events of one MQTT client reach a stream in the order in which its  *)
(* hooks published them, whatever the other clients publish, however full  *)
(* the channels are and whoever subscribes, leaves or closes the hub.      *)
THEOREM HubKeepsClientOrder == Spec => []ClientOrder
<1>1. Init => OrderInv
  <2> SUFFICES ASSUME Init PROVE OrderInv
    OBVIOUS
  <2>1. \A s \in Streams : Delivered(s) = <<>>
    BY DEF Init, Delivered
  <2>2. StampsBehind /\ NextIsNewer /\ ClientOrder
    BY <2>1 DEF Init, StampsBehind, NextIsNewer, ClientOrder, NoEvent
  <2> QED
    BY <2>2, TypeInit DEF OrderInv
<1>2. OrderInv => ClientOrder
  BY DEF OrderInv
<1> QED
  BY <1>1, <1>2, OrderStep, PTL DEF Spec

----------------------------------------------------------------------------
(* Hub.Drops counts every loss.                                            *)

LossInv ==
    /\ HubInv
    /\ IsFiniteSet(subs)
    /\ EveryLossCounted

(* Lost pairs a subscribed stream with the number of an event.             *)
LEMMA LostFinite ==
    ASSUME IsFiniteSet(subs), seq \in Nat
    PROVE  IsFiniteSet(Lost) /\ Cardinality(Lost) \in Nat
<1>1. IsFiniteSet(1..seq)
  BY FS_Interval
<1>2. IsFiniteSet(subs \X (1..seq))
  BY <1>1, FS_Product
<1>3. Lost \subseteq subs \X (1..seq)
  BY DEF Lost
<1>4. IsFiniteSet(Lost)
  BY <1>2, <1>3, FS_Subset
<1> QED
  BY <1>4, FS_CardinalityType

(* A step that adds nothing to the losses and forgets none of the drops.   *)
LEMMA NothingLost ==
    ASSUME LossInv, HubInv', IsFiniteSet(subs'), Lost' \subseteq Lost,
           drops' = drops
    PROVE  LossInv'
<1>1. seq \in Nat /\ drops \in Nat
  BY DEF LossInv, HubInv, TypeInv, TypeOK
<1>2. IsFiniteSet(Lost) /\ Cardinality(Lost) \in Nat
  BY <1>1, LostFinite DEF LossInv
<1>3. Cardinality(Lost') \in Nat /\ Cardinality(Lost') <= Cardinality(Lost)
  BY <1>2, FS_Subset, FS_CardinalityType
<1> QED
  BY <1>1, <1>2, <1>3 DEF LossInv, EveryLossCounted

(* What was in flight, delivered or too old stays so, or its stream left.  *)
LEMMA StillAccounted ==
    ASSUME subs' \subseteq subs, UNCHANGED <<seq, from>>,
           \A s \in subs' : Delivered(s)' = Delivered(s),
           \A s \in subs', n \in 1..seq : InFlight(n, s) => InFlight(n, s)'
    PROVE  Lost' \subseteq Lost
<1> SUFFICES ASSUME NEW p \in Lost' PROVE p \in Lost
  OBVIOUS
<1>1. /\ p \in subs' \X (1..seq)
      /\ p[2] > from[p[1]]
      /\ ~InFlight(p[2], p[1])'
      /\ \A i \in DOMAIN Delivered(p[1])' : Delivered(p[1])'[i].seq # p[2]
  BY DEF Lost
<1>2. p[1] \in subs' /\ p[2] \in 1..seq
  BY <1>1
<1> QED
  BY <1>1, <1>2 DEF Lost

(* Every step of the hub keeps the account.                                *)
LEMMA LossStep == LossInv /\ [Next]_vars => LossInv'
<1> SUFFICES ASSUME LossInv, [Next]_vars PROVE LossInv'
  OBVIOUS
<1>0. /\ HubInv /\ HubInv' /\ TypeOK /\ TypeOK' /\ IsFiniteSet(subs)
      /\ FanOutLocked /\ SubscribedOpen
  BY HubStep DEF LossInv, HubInv, TypeInv
<1> USE <1>0
(* Steps that leave the subscribers, the stamps and the channels alone.    *)
<1>1. ASSUME UNCHANGED <<subs, seq, drops, from, got, buf>>,
             \A s \in subs, n \in 1..seq : InFlight(n, s) => InFlight(n, s)'
      PROVE  LossInv'
  <2>1. \A s \in subs' : Delivered(s)' = Delivered(s)
    BY <1>1 DEF Delivered
  <2> QED
    BY <1>1, <2>1, StillAccounted, NothingLost
<1>2. ASSUME NEW c \in Clients, cpc[c] \notin {"rlock", "send"},
             \A d \in Clients \ {c} : cpc'[d] = cpc[d],
             UNCHANGED <<subs, seq, drops, from, got, buf, ev, rest>>
      PROVE  LossInv'
  BY <1>1, <1>2 DEF InFlight
<1>3. ASSUME NEW c \in Clients, NEW n \in 1..MaxFilters, HookCall(c, n)
      PROVE  LossInv'
  BY <1>2, <1>3 DEF HookCall, hubVars, streamVars, TypeOK
<1>4. ASSUME NEW c \in Clients, PublishCheckClosed(c) PROVE LossInv'
  BY <1>2, <1>4
  DEF PublishCheckClosed, PublishReturn, hubVars, streamVars, TypeOK
<1>5. ASSUME NEW c \in Clients, PublishStamp(c) PROVE LossInv'
  <2>1. /\ UNCHANGED <<subs, drops, from, got, buf, rest>> /\ seq' = seq + 1
        /\ cpc[c] = "stamp" /\ cpc'[c] = "rlock" /\ ev'[c].seq = seq + 1
        /\ \A d \in Clients \ {c} : cpc'[d] = cpc[d] /\ ev'[d] = ev[d]
    BY <1>5 DEF PublishStamp, streamVars, TypeOK
  <2>2. ASSUME NEW p \in Lost' PROVE p \in Lost
    <3>1. /\ p \in subs \X (1..(seq + 1))
          /\ p[2] > from[p[1]]
          /\ ~InFlight(p[2], p[1])'
          /\ \A i \in DOMAIN Delivered(p[1]) : Delivered(p[1])[i].seq # p[2]
      BY <2>1, <2>2 DEF Lost, Delivered
    <3>2. p[2] # seq + 1
      BY <2>1, <3>1 DEF InFlight
    <3>3. p[1] \in subs /\ p[2] \in 1..seq
      <4>1. p[1] \in subs /\ p[2] \in 1..(seq + 1) /\ seq \in Nat
        BY <3>1 DEF TypeOK
      <4> QED
        BY <3>2, <4>1
    <3>4. ~InFlight(p[2], p[1])
      BY <2>1, <3>1 DEF InFlight
    <3>5. p \in subs \X (1..seq)
      BY <3>1, <3>3
    <3> QED
      BY <3>1, <3>4, <3>5 DEF Lost
  <2> QED
    BY <2>1, <2>2, NothingLost
<1>6. ASSUME NEW c \in Clients, PublishRLock(c) PROVE LossInv'
  BY <1>1, <1>6 DEF PublishRLock, hubVars, streamVars, TypeOK, InFlight
<1>7. ASSUME NEW c \in Clients, NEW s \in Streams, PublishSend(c, s)
      PROVE  LossInv'
  <2>1. /\ UNCHANGED <<subs, seq, from, got, ev, cpc>>
        /\ cpc[c] = "send" /\ s \in rest[c]
        /\ rest' = [rest EXCEPT ![c] = @ \ {s}]
    BY <1>7 DEF PublishSend
  <2>2. s \in subs /\ chan[s] = "open"
    BY <2>1 DEF FanOutLocked, SubscribedOpen
  <2>3. ASSUME NEW t \in Streams, NEW n \in Nat, InFlight(n, t),
               t # s \/ n # ev[c].seq
        PROVE  InFlight(n, t)'
    BY <2>1, <2>3 DEF InFlight, TypeOK
  <2>4. CASE buf' = [buf EXCEPT ![s] = Append(@, ev[c])] /\ drops' = drops
    <3>1. \A t \in subs \ {s} : Delivered(t)' = Delivered(t)
      BY <2>1, <2>4 DEF Delivered, TypeOK
    <3>2. /\ \A i \in DOMAIN Delivered(s) :
                i \in DOMAIN Delivered(s)' /\ Delivered(s)'[i] = Delivered(s)[i]
          /\ \E i \in DOMAIN Delivered(s)' : Delivered(s)'[i] = ev[c]
      <4>1. got[s] \in Seq(Event) /\ buf[s] \in Seq(Event) /\ ev[c] \in Event
        BY DEF TypeOK
      <4>2. Delivered(s)' = got[s] \o Append(buf[s], ev[c])
        BY <2>1, <2>4 DEF Delivered, TypeOK
      <4> DEFINE p == got[s]  q == buf[s]  e == ev[c]
      <4> HIDE DEF p, q, e
      <4>3. p \in Seq(Event) /\ q \in Seq(Event) /\ e \in Event
        BY <4>1 DEF p, q, e
      <4>4. p \o Append(q, e) = Append(p \o q, e) /\ p \o q \in Seq(Event)
        BY <4>3, SendAppends, ConcatProperties
      <4>5. Delivered(s)' = Append(Delivered(s), e) /\ Delivered(s) \in Seq(Event)
        BY <4>2, <4>4 DEF Delivered, p, q, e
      <4> DEFINE d == Delivered(s)
      <4> HIDE DEF d
      <4>6. /\ \A i \in DOMAIN d :
                i \in DOMAIN Append(d, e) /\ Append(d, e)[i] = d[i]
            /\ \E i \in DOMAIN Append(d, e) : Append(d, e)[i] = e
        <5>1. d \in Seq(Event) /\ Len(d) \in Nat
          BY <4>5 DEF d
        <5>2. Len(d) + 1 \in DOMAIN Append(d, e) /\ Append(d, e)[Len(d) + 1] = e
          BY <4>3, <5>1, AppendProperties
        <5> QED
          BY <4>3, <5>1, <5>2, AppendProperties
      <4> QED
        BY <4>5, <4>6 DEF d, e
    <3>3. ASSUME NEW p \in Lost' PROVE p \in Lost
      <4>1. /\ p \in subs \X (1..seq)
            /\ p[2] > from[p[1]]
            /\ ~InFlight(p[2], p[1])'
            /\ \A i \in DOMAIN Delivered(p[1])' : Delivered(p[1])'[i].seq # p[2]
        BY <2>1, <3>3 DEF Lost
      <4>2. p[1] \in subs /\ p[1] \in Streams /\ p[2] \in Nat
        BY <4>1 DEF TypeOK
      <4>3. p[1] # s \/ p[2] # ev[c].seq
        BY <3>2, <4>1
      <4>4. ~InFlight(p[2], p[1])
        BY <2>3, <4>1, <4>2, <4>3
      <4>5. \A i \in DOMAIN Delivered(p[1]) : Delivered(p[1])[i].seq # p[2]
        BY <3>1, <3>2, <4>1, <4>2
      <4> QED
        BY <4>1, <4>4, <4>5 DEF Lost
    <3> QED
      BY <2>1, <2>4, <3>3, NothingLost
  <2>5. CASE buf' = buf /\ drops' = drops + 1
    <3>1. \A t \in Streams : Delivered(t)' = Delivered(t)
      BY <2>1, <2>5 DEF Delivered
    <3>2. ASSUME NEW p \in Lost', p # <<s, ev[c].seq>> PROVE p \in Lost
      <4>1. /\ p \in subs \X (1..seq)
            /\ p[2] > from[p[1]]
            /\ ~InFlight(p[2], p[1])'
            /\ \A i \in DOMAIN Delivered(p[1])' : Delivered(p[1])'[i].seq # p[2]
        BY <2>1, <3>2 DEF Lost
      <4>2. p[1] \in Streams /\ p[2] \in Nat /\ p = <<p[1], p[2]>>
        BY <4>1 DEF TypeOK
      <4>3. p[1] # s \/ p[2] # ev[c].seq
        BY <3>2, <4>2
      <4>4. ~InFlight(p[2], p[1])
        BY <2>3, <4>1, <4>2, <4>3
      <4> QED
        BY <3>1, <4>1, <4>2, <4>4 DEF Lost
    <3> DEFINE L == Lost  x == <<s, ev[c].seq>>  M == Lost'
    <3>3. M \subseteq L \cup {x}
      BY <3>2
    <3>4. IsFiniteSet(L) /\ Cardinality(L) \in Nat /\ drops \in Nat
          /\ Cardinality(L) <= drops
      BY LostFinite DEF TypeOK, LossInv, EveryLossCounted
    <3> HIDE DEF L, x, M
    <3>5. IsFiniteSet(L \cup {x}) /\ Cardinality(L \cup {x}) <= Cardinality(L) + 1
      <4>1. /\ IsFiniteSet(L \cup {x})
            /\ Cardinality(L \cup {x}) =
                 IF x \in L THEN Cardinality(L) ELSE Cardinality(L) + 1
        BY <3>4, FS_AddElement, Zenon
      <4> QED
        BY <3>4, <4>1
    <3>6. /\ Cardinality(L \cup {x}) \in Nat
          /\ IsFiniteSet(M) /\ Cardinality(M) \in Nat
          /\ Cardinality(M) <= Cardinality(L \cup {x})
      BY <3>3, <3>5, FS_Subset, FS_CardinalityType
    <3>7. Cardinality(M) <= drops + 1
      BY <3>4, <3>5, <3>6
    <3>8. EveryLossCounted'
      BY <2>5, <3>7 DEF EveryLossCounted, M
    <3> QED
      BY <2>1, <3>8 DEF LossInv
  <2> QED
    BY <1>7, <2>2, <2>4, <2>5 DEF PublishSend
<1>8. ASSUME NEW c \in Clients, PublishRUnlock(c) PROVE LossInv'
  BY <1>1, <1>8
  DEF PublishRUnlock, PublishReturn, hubVars, streamVars, TypeOK, InFlight
<1>9. ASSUME NEW s \in Streams, Subscribe(s) PROVE LossInv'
  <2>1. /\ UNCHANGED <<drops, seq, got, buf, cpc, ev, rest>>
        /\ subs' = subs \cup {s} /\ from' = [from EXCEPT ![s] = seq]
        /\ \A c \in Clients : cpc[c] # "send"
    BY <1>9 DEF Subscribe, clientVars, WriteLocked, FanOutLocked
  <2>2. IsFiniteSet(subs')
    BY <2>1, FS_AddElement
  <2>3. ASSUME NEW p \in Lost' PROVE p \in Lost
    <3>1. /\ p \in (subs \cup {s}) \X (1..seq)
          /\ p[2] > from'[p[1]]
          /\ ~InFlight(p[2], p[1])'
          /\ \A i \in DOMAIN Delivered(p[1]) : Delivered(p[1])[i].seq # p[2]
      BY <2>1, <2>3 DEF Lost, Delivered
    <3>2. p[1] # s
      BY <2>1, <3>1 DEF TypeOK
    <3>3. p \in subs \X (1..seq) /\ from'[p[1]] = from[p[1]]
      BY <2>1, <3>1, <3>2 DEF TypeOK
    <3>4. ~InFlight(p[2], p[1])
      BY <2>1, <3>1 DEF InFlight
    <3> QED
      BY <3>1, <3>3, <3>4 DEF Lost
  <2> QED
    BY <2>1, <2>2, <2>3, NothingLost
<1>10. ASSUME NEW s \in Streams, Receive(s) PROVE LossInv'
  <2>1. got[s] \in Seq(Event) /\ buf[s] \in Seq(Event) /\ buf[s] # <<>>
    BY <1>10 DEF Receive, TypeOK
  <2>2. Append(got[s], Head(buf[s])) \o Tail(buf[s]) = got[s] \o buf[s]
    BY <2>1, ReceiveKeepsDelivered
  <2>3. /\ UNCHANGED <<subs, seq, drops, from, ev, cpc, rest>>
        /\ \A t \in subs' : Delivered(t)' = Delivered(t)
    BY <1>10, <2>2 DEF Receive, TypeOK, Delivered, hubVars, clientVars
  <2>4. \A t \in subs', n \in 1..seq : InFlight(n, t) => InFlight(n, t)'
    BY <2>3 DEF InFlight
  <2> QED
    BY <2>3, <2>4, StillAccounted, NothingLost
<1>11. ASSUME subs' \subseteq subs,
              UNCHANGED <<seq, drops, from, got, buf, cpc, ev, rest>>
       PROVE  LossInv'
  <2>1. \A s \in subs' : Delivered(s)' = Delivered(s)
    BY <1>11 DEF Delivered
  <2>2. \A t \in subs', n \in 1..seq : InFlight(n, t) => InFlight(n, t)'
    BY <1>11 DEF InFlight
  <2>3. IsFiniteSet(subs')
    BY <1>11, FS_Subset
  <2> QED
    BY <1>11, <2>1, <2>2, <2>3, StillAccounted, NothingLost
<1>12. ASSUME NEW s \in Streams,
              ClientGone(s) \/ StreamReturn(s) \/ Unsubscribe(s)
       PROVE  LossInv'
  BY <1>11, <1>12 DEF ClientGone, StreamReturn, Unsubscribe, hubVars, clientVars
<1>13. ASSUME NEW k \in Closers, CloserStep(k) PROVE LossInv'
  BY <1>11, <1>13 DEF CloserStep, CloseSwap, CloseAll, clientVars, streamVars
<1>14. ASSUME NEW g \in Streams \cup Closers, LockRequested(g) PROVE LossInv'
  BY <1>11, <1>14 DEF LockRequested, hubVars, clientVars, streamVars
<1>15. CASE UNCHANGED vars
  BY <1>11, <1>15 DEF vars, hubVars, clientVars, streamVars
<1> QED
  BY <1>3, <1>4, <1>5, <1>6, <1>7, <1>8, <1>9, <1>10, <1>12, <1>13, <1>14,
     <1>15
  DEF Next, ClientStep, StreamStep

(* An event that a subscribed stream ought to have and never will was      *)
(* counted by h.drops, whoever publishes, subscribes and leaves meanwhile. *)
THEOREM HubCountsEveryLoss == Spec => []EveryLossCounted
<1>1. Init => LossInv
  <2> SUFFICES ASSUME Init PROVE LossInv
    OBVIOUS
  <2>1. HubInv
    BY TypeInit DEF Init, HubInv, FanOutLocked, SubscribedOpen, NoPanic
  <2>2. subs = {} /\ drops = 0
    BY DEF Init
  <2>3. Lost = {}
    BY <2>2 DEF Lost
  <2> QED
    BY <2>1, <2>2, <2>3, FS_EmptySet DEF LossInv, EveryLossCounted
<1>2. LossInv => EveryLossCounted
  BY DEF LossInv
<1> QED
  BY <1>1, <1>2, LossStep, PTL DEF Spec
============================================================================
