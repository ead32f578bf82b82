------------------------- MODULE EventBridgeProofs -------------------------
(***************************************************************************)
(* Proofs about EventBridge.tla, for any set of nodes, any channel and LRU *)
(* capacity and any number of events, lost or repeated PUBLISHes, stops    *)
(* and restarts.                                                           *)
(***************************************************************************)
EXTENDS EventBridge, SequenceTheorems, FiniteSetTheorems, TLAPS

(* The events that calls of Publish on n have still to send to the         *)
(* publisher's channel, and to the stream.                                 *)
ToPublisher(n) == {c.event : c \in {d \in calls[n] : "publisher" \in d.todo}}
ToStream(n) == {c.event : c \in {d \in calls[n] : "stream" \in d.todo}}

(* The events the hub of n has stamped: shown, or about to be.             *)
InHub(n) == Range(merged[n]) \cup ToStream(n)

(* What has still to pass through the publisher of n: the event in         *)
(* Client.Publish, and the node's own events in the channel or on the way  *)
(* into it.                                                                *)
Own(n) == Range(sending[n])
            \cup {e \in Range(pubCh[n]) \cup ToPublisher(n) : e.node = n}

(* The copies of events that may still reach a subscriber: they carry the  *)
(* Seq of the hub that produced them.                                      *)
Copies == UNION {Range(inbox[n]) \cup Own(n) : n \in Nodes}

(* The goroutines of a stopped bridge have exited, a publisher that is not *)
(* running sends nothing, and no subscriber left in the middle of Publish. *)
Exited ==
    \A n \in Nodes :
        /\ ctl[n] = "stopped" => pubPC[n] = "exited" /\ subPC[n] = "exited"
        /\ pubPC[n] # "run" => sending[n] = <<>>
        /\ subPC[n] # "run" => ~Merging(n)

SameOrigin(e, f) == e.node = f.node /\ e.client = f.client

(* One client's goroutine is in one Publish at a time, and so is the       *)
(* subscriber.                                                             *)
Turns ==
    \A n \in Nodes : \A c, d \in calls[n] :
        \/ SameOrigin(c.event, d.event)
        \/ c.event.node # n /\ d.event.node # n
        => c = d

(* What a publisher holds came through its hub, it sends only events of    *)
(* its own node, and ids are given out in order.                           *)
FromHub ==
    \A n \in Nodes :
        /\ Range(pubCh[n]) \cup ToPublisher(n) \subseteq InHub(n)
        /\ Range(sending[n]) \subseteq InHub(n)
        /\ \A e \in Range(sending[n]) : e.node = n
        /\ \A e \in InHub(n) \cup Range(inbox[n]) : e.id < nextId

(* The events of each origin stand in the order of their ids.              *)
Ordered(s) ==
    \A i, j \in DOMAIN s : i < j /\ SameOrigin(s[i], s[j]) => s[i].id <= s[j].id

Before(A, B) == \A e \in A, f \in B : SameOrigin(e, f) => e.id <= f.id

(* Along the way of an event (the hub of its node, the publisher, the      *)
(* inbox of a peer, the hub of the peer) no event overtakes another one of *)
(* its origin.                                                             *)
InOrder ==
    \A n \in Nodes :
        /\ Ordered(merged[n]) /\ Ordered(inbox[n]) /\ Ordered(pubCh[n])
        /\ Before(Range(merged[n]), ToStream(n))
        /\ Before(Range(pubCh[n]), ToPublisher(n))
        /\ Before(Range(sending[n]), Range(pubCh[n]) \cup ToPublisher(n))
        /\ Before({e \in InHub(n) : e.node # n}, Range(inbox[n]))
        /\ \A m \in Nodes :
            /\ Before(Range(inbox[n]), Own(m))
            /\ m # n => Before(InHub(n), Own(m))

(* The events in some hub or inbox.                                        *)
Known == UNION {InHub(n) \cup Range(inbox[n]) : n \in Nodes}

(* An id belongs to one origin, and copies with one id are the same event: *)
(* they have one key.                                                      *)
OneEvent ==
    /\ \A e, f \in Known : e.id = f.id => SameOrigin(e, f)
    /\ \A e, f \in Copies : e.id = f.id => e = f

(* The peer events in s after position i, and whether one more is on its   *)
(* way to the stream of n.                                                 *)
PeersAfter(s, n, i) == {k \in (i + 1)..Len(s) : s[k].node # n}
Pending(n) == IF \E f \in ToStream(n) : f.node # n THEN 1 ELSE 0
Later(n, i) == Cardinality(PeersAfter(merged[n], n, i)) + Pending(n)

(* An entry of the LRU with key k, after which no more than c keys were    *)
(* inserted.                                                               *)
Remembered(l, k, c) == \E p \in DOMAIN l : l[p] = k /\ c >= Len(l) - p

(* An event on its way to n that n's hub has stamped before is still in    *)
(* the LRU, or LruCap peer events came after it.                           *)
Window ==
    \A n \in Nodes : \A e \in Copies : e.node # n =>
        /\ \A i \in DOMAIN merged[n] : merged[n][i].id = e.id =>
            Later(n, i) >= LruCap \/ Remembered(lru[n], KeyOf(e), Later(n, i))
        /\ \A f \in ToStream(n) :
            f.id = e.id => Remembered(lru[n], KeyOf(e), 0)

(* What is on its way to the stream may be shown there.                    *)
Fresh ==
    \A n \in Nodes : \A f \in ToStream(n) : \A i \in DOMAIN merged[n] :
        merged[n][i].id = f.id =>
            /\ merged[n][i].node # n
            /\ Cardinality(PeersAfter(merged[n], n, i)) >= LruCap

ShownIds(n) == {e.id : e \in Range(merged[n])}

(* A hub stamps every event with a Seq of its own.                         *)
Stamped ==
    \A n \in Nodes :
        /\ \A e \in InHub(n) : e.seq <= hubSeq[n]
        /\ \A e, f \in InHub(n) : e.seq = f.seq => e = f

(* Until a node restarts, a key names one event: the one its hub stamped   *)
(* with that Seq.                                                          *)
KeysNameEvents ==
    restarts = 0 => \A n \in Nodes :
        /\ \A e \in Range(inbox[n]) : e \in InHub(e.node)
        /\ \A k \in Range(lru[n]) : \E f \in InHub(k.node), g \in InHub(n) :
            f.seq = k.seq /\ g.id = f.id
        /\ discarded[n] \subseteq ShownIds(n)

----------------------------------------------------------------------------
(* Sequences.                                                              *)

LEMMA Appended ==
    ASSUME NEW S, NEW s \in Seq(S), NEW e \in S
    PROVE  /\ Append(s, e) \in Seq(S) /\ Len(Append(s, e)) = Len(s) + 1
           /\ Append(s, e)[Len(s) + 1] = e
           /\ \A i \in 1..Len(s) : Append(s, e)[i] = s[i]
           /\ DOMAIN Append(s, e) = 1..(Len(s) + 1)
           /\ Range(Append(s, e)) = Range(s) \cup {e}
<1>1. /\ Append(s, e) \in Seq(S) /\ Len(Append(s, e)) = Len(s) + 1
      /\ Append(s, e)[Len(s) + 1] = e
      /\ \A i \in 1..Len(s) : Append(s, e)[i] = s[i]
  BY AppendProperties
<1>2. DOMAIN Append(s, e) = 1..(Len(s) + 1) /\ DOMAIN s = 1..Len(s) /\ Len(s) \in Nat
  BY <1>1
<1>3. Range(Append(s, e)) \subseteq Range(s) \cup {e}
  BY <1>1, <1>2 DEF Range
<1>4. Range(s) \cup {e} \subseteq Range(Append(s, e))
  <2>1. \A i \in 1..Len(s) : i \in 1..(Len(s) + 1) /\ s[i] = Append(s, e)[i]
    BY <1>1, <1>2
  <2>2. Len(s) + 1 \in 1..(Len(s) + 1)
    BY <1>2
  <2> QED
    BY <1>1, <1>2, <2>1, <2>2 DEF Range
<1> QED
  BY <1>1, <1>2, <1>3, <1>4

LEMMA Tailed ==
    ASSUME NEW S, NEW s \in Seq(S), s # <<>>
    PROVE  /\ Tail(s) \in Seq(S) /\ Len(s) >= 1 /\ Len(Tail(s)) = Len(s) - 1
           /\ Head(s) = s[1] /\ Head(s) \in S /\ Head(s) \in Range(s)
           /\ \A i \in DOMAIN Tail(s) : i + 1 \in DOMAIN s /\ Tail(s)[i] = s[i + 1]
           /\ Range(Tail(s)) \subseteq Range(s)
<1>1. /\ Tail(s) \in Seq(S) /\ Len(s) >= 1 /\ Len(Tail(s)) = Len(s) - 1
      /\ Head(s) = s[1] /\ Head(s) \in S
      /\ \A i \in 1..Len(Tail(s)) : Tail(s)[i] = s[i + 1]
  BY HeadTailProperties
<1>2. DOMAIN Tail(s) = 1..(Len(s) - 1) /\ DOMAIN s = 1..Len(s) /\ Len(s) \in Nat
  BY <1>1
<1>3. \A i \in DOMAIN Tail(s) : i + 1 \in DOMAIN s /\ Tail(s)[i] = s[i + 1]
  BY <1>1, <1>2
<1>4. Head(s) \in Range(s) /\ Range(Tail(s)) \subseteq Range(s)
  BY <1>1, <1>2, <1>3 DEF Range
<1> QED
  BY <1>1, <1>3, <1>4

LEMMA RangeOfEmpty == Range(<<>>) = {}
BY DEF Range

LEMMA RangeTyped ==
    ASSUME NEW S, NEW s \in Seq(S)
    PROVE  Range(s) \subseteq S
BY DEF Range

LEMMA OrderedAppend ==
    ASSUME NEW s \in Seq(Event), NEW e \in Event, Ordered(s),
           Before(Range(s), {e})
    PROVE  Ordered(Append(s, e))
<1> DEFINE t == Append(s, e)
<1>1. /\ \A i \in 1..Len(s) : t[i] = s[i] /\ s[i] \in Range(s)
      /\ t[Len(s) + 1] = e /\ DOMAIN t = 1..(Len(s) + 1)
      /\ DOMAIN s = 1..Len(s) /\ Len(s) \in Nat
  BY Appended DEF Range
<1> HIDE DEF t
<1> SUFFICES ASSUME NEW i \in DOMAIN t, NEW j \in DOMAIN t, i < j,
                    SameOrigin(t[i], t[j])
             PROVE  t[i].id <= t[j].id
  BY DEF Ordered, t
<1>2. i \in 1..Len(s) /\ t[i] = s[i] /\ s[i] \in Range(s)
  BY <1>1
<1>3. CASE j = Len(s) + 1
  BY <1>1, <1>2, <1>3 DEF Before
<1>4. CASE j \in 1..Len(s)
  BY <1>1, <1>2, <1>4 DEF Ordered
<1> QED
  BY <1>1, <1>3, <1>4

LEMMA OrderedTail ==
    ASSUME NEW s \in Seq(Event), s # <<>>, Ordered(s)
    PROVE  Ordered(Tail(s)) /\ Before({Head(s)}, Range(Tail(s)))
<1>1. /\ Len(s) >= 1 /\ Head(s) = s[1] /\ Len(s) \in Nat /\ DOMAIN s = 1..Len(s)
      /\ \A i \in DOMAIN Tail(s) : i + 1 \in DOMAIN s /\ Tail(s)[i] = s[i + 1]
      /\ DOMAIN Tail(s) \subseteq 1..Len(s)
  BY Tailed
<1>2. Ordered(Tail(s))
  <2> SUFFICES ASSUME NEW i \in DOMAIN Tail(s), NEW j \in DOMAIN Tail(s), i < j,
                      SameOrigin(Tail(s)[i], Tail(s)[j])
               PROVE  Tail(s)[i].id <= Tail(s)[j].id
    BY DEF Ordered
  <2>1. i + 1 < j + 1 /\ i + 1 \in DOMAIN s /\ j + 1 \in DOMAIN s
    BY <1>1
  <2> QED
    BY <1>1, <2>1 DEF Ordered
<1>3. Before({Head(s)}, Range(Tail(s)))
  <2> SUFFICES ASSUME NEW j \in DOMAIN Tail(s), SameOrigin(s[1], Tail(s)[j])
               PROVE  s[1].id <= Tail(s)[j].id
    BY <1>1 DEF Before, Range
  <2>1. 1 < j + 1 /\ 1 \in DOMAIN s /\ j + 1 \in DOMAIN s
    BY <1>1
  <2> QED
    BY <1>1, <2>1 DEF Ordered
<1> QED
  BY <1>2, <1>3

LEMMA OrderedEmpty == Ordered(<<>>)
BY DEF Ordered

----------------------------------------------------------------------------
(* Operations.                                                             *)

(* Hub.Publish of node n has stamped f: its call is under way.             *)
Stamps(n, f) ==
    /\ f.seq = hubSeq[n] + 1
    /\ hubSeq' = [hubSeq EXCEPT ![n] = hubSeq[n] + 1]
    /\ calls' = [calls EXCEPT ![n] =
                    calls[n] \cup {[event |-> f, todo |-> Subscribers]}]

(* The event that Hub.Publish fans out is the one it was given, stamped.   *)
LEMMA Published ==
    ASSUME TypeOK, NEW n \in Nodes, NEW e \in Event, HubPublish(n, e)
    PROVE  \E f \in Event : SameOrigin(f, e) /\ f.id = e.id /\ Stamps(n, f)
<1> DEFINE f == [e EXCEPT !.seq = hubSeq[n] + 1]
<1>1. hubSeq[n] + 1 \in Nat
  BY DEF TypeOK
<1>2. f \in Event /\ SameOrigin(f, e) /\ f.id = e.id /\ f.seq = hubSeq[n] + 1
  BY <1>1 DEF Event, SameOrigin
<1>3. /\ hubSeq' = [hubSeq EXCEPT ![n] = hubSeq[n] + 1]
      /\ calls' = [calls EXCEPT ![n] =
                      calls[n] \cup {[event |-> f, todo |-> Subscribers]}]
  BY DEF HubPublish, TypeOK
<1> HIDE DEF f
<1>4. Stamps(n, f)
  BY <1>2, <1>3 DEF Stamps
<1> QED
  BY <1>2, <1>4

(* A local event is a new one.                                             *)
LEMMA LocalEventEffect ==
    ASSUME TypeOK, NEW n \in Nodes, NEW c \in Clients, LocalEvent(n, c)
    PROVE  /\ \E f \in Event :
                f.node = n /\ f.client = c /\ f.id = nextId /\ Stamps(n, f)
           /\ nextId' = nextId + 1 /\ nextId <= MaxEvents
<1> DEFINE e == [node |-> n, client |-> c, seq |-> 0, id |-> nextId]
<1>1. e \in Event /\ e.node = n /\ e.client = c /\ e.id = nextId
  BY DEF TypeOK, Event
<1>2. HubPublish(n, e) /\ nextId' = nextId + 1 /\ nextId <= MaxEvents
  BY DEF LocalEvent
<1> HIDE DEF e
<1> QED
  BY <1>1, <1>2, Published DEF SameOrigin

(* The call of f has served s, and no other call.                          *)
LEMMA ServedSets ==
    ASSUME TypeOK, Turns, NEW n \in Nodes, NEW c, NEW s, Served(n, c, s)
    PROVE  /\ c \in Call /\ c.event \in Event
           /\ s = "publisher" => /\ c.event \in ToPublisher(n)
                                 /\ ToPublisher(n)' = ToPublisher(n) \ {c.event}
                                 /\ ToStream(n)' = ToStream(n)
           /\ s = "stream" => /\ c.event \in ToStream(n)
                              /\ ToStream(n)' = ToStream(n) \ {c.event}
                              /\ ToPublisher(n)' = ToPublisher(n)
           /\ \A m \in Nodes \ {n} : /\ ToPublisher(m)' = ToPublisher(m)
                                     /\ ToStream(m)' = ToStream(m)
<1> DEFINE R == IF c.todo = {s} THEN {} ELSE {[c EXCEPT !.todo = @ \ {s}]}
           W == (calls[n] \ {c}) \cup R
<1>1. c \in calls[n] /\ s \in c.todo /\ calls[n] \subseteq Call
  BY DEF Served, TypeOK
<1>2. c \in Call /\ c.event \in Event /\ c.todo \subseteq Subscribers
  BY <1>1 DEF Call
<1>3. calls'[n] = W /\ \A m \in Nodes \ {n} : calls'[m] = calls[m]
  BY DEF Served, TypeOK
<1>4. \A d \in calls[n] : d.event = c.event => d = c
  BY <1>1 DEF Turns, SameOrigin
<1>5. \A d \in R : d.event = c.event /\ d.todo = c.todo \ {s}
  BY <1>2 DEF Call
<1>6. \A x \in c.todo : x = s \/ \E d \in R : d.event = c.event /\ x \in d.todo
  <2> SUFFICES ASSUME NEW x \in c.todo, x # s
               PROVE  \E d \in R : d.event = c.event /\ x \in d.todo
    OBVIOUS
  <2>1. R = {[c EXCEPT !.todo = @ \ {s}]}
    OBVIOUS
  <2> QED
    BY <1>2, <2>1 DEF Call
<1>7. ASSUME NEW x
      PROVE  {d.event : d \in {k \in W : x \in k.todo}}
               = {d.event : d \in {k \in calls[n] : x \in k.todo}}
                    \ (IF x = s THEN {c.event} ELSE {})
  <2> DEFINE A == {d.event : d \in {k \in W : x \in k.todo}}
             B == {d.event : d \in {k \in calls[n] : x \in k.todo}}
  <2> HIDE DEF R
  <2>1. ASSUME NEW e \in A PROVE e \in B /\ ~(x = s /\ e = c.event)
    <3>1. PICK d \in W : x \in d.todo /\ e = d.event
      OBVIOUS
    <3>2. CASE d \in calls[n] \ {c}
      BY <1>4, <3>1, <3>2
    <3>3. CASE d \in R
      <4>1. e = c.event /\ x \in c.todo /\ x # s
        BY <1>5, <3>1, <3>3
      <4> QED
        BY <1>1, <4>1
    <3> QED
      BY <3>1, <3>2, <3>3
  <2>2. ASSUME NEW e \in B, ~(x = s /\ e = c.event) PROVE e \in A
    <3>1. PICK d \in calls[n] : x \in d.todo /\ e = d.event
      OBVIOUS
    <3>2. CASE d # c
      BY <3>1, <3>2
    <3>3. CASE d = c
      <4>1. PICK k \in R : k.event = c.event /\ x \in k.todo
        BY <1>6, <2>2, <3>1, <3>3
      <4> QED
        BY <3>1, <3>3, <4>1
    <3> QED
      BY <3>2, <3>3
  <2> HIDE DEF A, B
  <2>3. \A e : e \in A <=> e \in B \ (IF x = s THEN {c.event} ELSE {})
    BY <2>1, <2>2
  <2>4. A = B \ (IF x = s THEN {c.event} ELSE {})
    BY <2>3
  <2> QED
    BY <2>4 DEF A, B
<1> HIDE DEF W
<1>8. /\ ToPublisher(n)' = ToPublisher(n) \ (IF s = "publisher" THEN {c.event} ELSE {})
      /\ ToStream(n)' = ToStream(n) \ (IF s = "stream" THEN {c.event} ELSE {})
  BY <1>3, <1>7 DEF ToPublisher, ToStream
<1>9. \A m \in Nodes \ {n} : ToPublisher(m)' = ToPublisher(m) /\ ToStream(m)' = ToStream(m)
  BY <1>3 DEF ToPublisher, ToStream
<1>10. /\ s = "publisher" => c.event \in ToPublisher(n)
       /\ s = "stream" => c.event \in ToStream(n)
  BY <1>1 DEF ToPublisher, ToStream
<1> QED
  BY <1>2, <1>8, <1>9, <1>10

LEMMA StampedSets ==
    ASSUME TypeOK, NEW n \in Nodes, NEW f \in Event, Stamps(n, f)
    PROVE  /\ ToPublisher(n)' = ToPublisher(n) \cup {f}
           /\ ToStream(n)' = ToStream(n) \cup {f}
           /\ \A m \in Nodes \ {n} : /\ ToPublisher(m)' = ToPublisher(m)
                                     /\ ToStream(m)' = ToStream(m)
<1> DEFINE k == [event |-> f, todo |-> Subscribers]
<1>1. /\ calls'[n] = calls[n] \cup {k}
      /\ \A m \in Nodes \ {n} : calls'[m] = calls[m]
  BY DEF Stamps, TypeOK
<1>2. k.event = f /\ "publisher" \in k.todo /\ "stream" \in k.todo
  BY DEF Subscribers
<1> HIDE DEF k
<1> QED
  BY <1>1, <1>2 DEF ToPublisher, ToStream

(* What calls have still to send are events.                               *)
LEMMA CallsTyped ==
    ASSUME TypeOK, NEW n \in Nodes
    PROVE  ToPublisher(n) \subseteq Event /\ ToStream(n) \subseteq Event
<1>1. calls[n] \subseteq Call
  BY DEF TypeOK
<1> QED
  BY <1>1 DEF ToPublisher, ToStream, Call

(* A PUBLISH appends the one event being sent to the inboxes it reaches.   *)
LEMMA Delivered ==
    ASSUME TypeOK, NEW n \in Nodes, NEW S, Deliver(n, S)
    PROVE  \E f \in Event :
             /\ sending[n] = <<f>> /\ Range(sending[n]) = {f}
             /\ inbox' = [m \in Nodes |->
                            IF m \in S THEN Append(inbox[m], f) ELSE inbox[m]]
<1>1. sending[n] \in Seq(Event) /\ Len(sending[n]) <= 1 /\ sending[n] # <<>>
  BY DEF TypeOK, Deliver
<1>2. Len(sending[n]) = 1 /\ sending[n][1] \in Event
  <2> DEFINE s == sending[n]
  <2> HIDE DEF s
  <2>1. s \in Seq(Event) /\ Len(s) <= 1 /\ s # <<>>
    BY <1>1 DEF s
  <2>2. Len(s) = 1 /\ s[1] \in Event
    BY <2>1
  <2> QED
    BY <2>2 DEF s
<1> DEFINE f == sending[n][1]
<1>3. sending[n] = <<f>>
  BY <1>1, <1>2
<1>4. \A m \in Nodes : inbox[m] \o <<f>> = Append(inbox[m], f)
  BY <1>2, AppendIsConcat DEF TypeOK
<1>5. Range(sending[n]) = {f}
  BY <1>1, <1>2 DEF Range
<1>6. inbox' = [m \in Nodes |-> IF m \in S THEN inbox[m] \o sending[n] ELSE inbox[m]]
  BY DEF Deliver
<1> HIDE DEF f
<1>7. inbox' = [m \in Nodes |-> IF m \in S THEN Append(inbox[m], f) ELSE inbox[m]]
  BY <1>3, <1>4, <1>6
<1> QED
  BY <1>2, <1>3, <1>5, <1>7 DEF f

(* lru.add: the new key is the last, and all but possibly the oldest key   *)
(* are still there, as far from the end as insertions have come after.     *)
LEMMA Inserted ==
    ASSUME NEW l \in Seq(Key), Len(l) <= LruCap, NEW k \in Key
    PROVE  LET m == LruInsert(l, k) IN
           /\ m \in Seq(Key) /\ Len(m) <= LruCap /\ Len(m) \in DOMAIN m
           /\ m[Len(m)] = k /\ Range(m) \subseteq Range(l) \cup {k}
           /\ \A p \in DOMAIN l :
                \/ p = 1 /\ Len(l) = LruCap
                \/ \E q \in DOMAIN m : m[q] = l[p] /\ Len(m) - q = Len(l) - p + 1
<1>0. Len(l) \in Nat /\ LruCap \in Nat \ {0} /\ DOMAIN l = 1..Len(l)
  BY CapAssumption
<1>1. CASE Len(l) >= LruCap
  <2>1. Len(l) = LruCap /\ l # <<>>
    <3>1. Len(l) = LruCap /\ Len(l) # 0
      <4> DEFINE N == Len(l)
      <4>1. N \in Nat /\ N <= LruCap /\ N >= LruCap /\ LruCap \in Nat /\ LruCap # 0
        BY <1>0, <1>1
      <4> HIDE DEF N
      <4>2. N = LruCap /\ N # 0
        BY <4>1
      <4> QED
        BY <4>2 DEF N
    <3> QED
      BY <3>1, EmptySeq
  <2> DEFINE t == Tail(l)
             m == Append(t, k)
  <2>0. LruInsert(l, k) = m
    BY <1>1 DEF LruInsert
  <2>2. /\ t \in Seq(Key) /\ Len(t) = Len(l) - 1 /\ Range(t) \subseteq Range(l)
        /\ \A i \in DOMAIN t : t[i] = l[i + 1]
    BY <2>1, Tailed
  <2> HIDE DEF t
  <2>3. /\ m \in Seq(Key) /\ Len(m) = Len(t) + 1 /\ DOMAIN m = 1..(Len(t) + 1)
        /\ m[Len(t) + 1] = k /\ \A i \in 1..Len(t) : m[i] = t[i]
        /\ Range(m) = Range(t) \cup {k}
    BY <2>2, Appended
  <2> HIDE DEF m
  <2>4. ASSUME NEW p \in DOMAIN l, p # 1
        PROVE  \E q \in DOMAIN m : m[q] = l[p] /\ Len(m) - q = Len(l) - p + 1
    <3>1. /\ p - 1 \in 1..Len(t) /\ p - 1 \in DOMAIN m
          /\ p - 1 \in DOMAIN t /\ (p - 1) + 1 = p
      BY <1>0, <2>2, <2>3, <2>4
    <3>2. m[p - 1] = l[p]
      BY <2>2, <2>3, <3>1
    <3>3. Len(m) - (p - 1) = Len(l) - p + 1
      BY <1>0, <2>2, <2>3, <3>1
    <3> QED
      BY <3>1, <3>2, <3>3
  <2>5. Len(m) <= LruCap /\ Len(m) \in DOMAIN m /\ Len(m) = Len(t) + 1
    BY <1>0, <2>1, <2>2, <2>3
  <2> QED
    BY <2>0, <2>1, <2>2, <2>3, <2>4, <2>5
<1>2. CASE ~(Len(l) >= LruCap)
  <2> DEFINE m == Append(l, k)
  <2>1. LruInsert(l, k) = m
    BY <1>2 DEF LruInsert
  <2>3. /\ m \in Seq(Key) /\ Len(m) = Len(l) + 1 /\ DOMAIN m = 1..(Len(l) + 1)
        /\ m[Len(l) + 1] = k /\ \A i \in 1..Len(l) : m[i] = l[i]
        /\ Range(m) = Range(l) \cup {k}
    BY Appended
  <2> HIDE DEF m
  <2>4. ASSUME NEW p \in DOMAIN l
        PROVE  p \in DOMAIN m /\ m[p] = l[p] /\ Len(m) - p = Len(l) - p + 1
    BY <1>0, <2>3
  <2>5. Len(m) <= LruCap /\ Len(m) \in DOMAIN m
    BY <1>0, <1>2, <2>3
  <2> QED
    BY <2>1, <2>3, <2>4, <2>5
<1> QED
  BY <1>1, <1>2

(* The subscriber of n drops the message at the head of its inbox.         *)
Dropped(n) ==
    LET h == Head(inbox[n]) IN
    /\ ~Merging(n)
    /\ inbox' = [inbox EXCEPT ![n] = Tail(inbox[n])]
    /\ UNCHANGED <<hubSeq, calls, pubCh, sending, lru, merged, nextId, restarts>>
    /\ \/ UNCHANGED discarded
       \/ /\ h.node # n /\ LruHas(lru[n], KeyOf(h))
          /\ discarded' = [discarded EXCEPT ![n] = @ \cup {h.id}]

(* ... or publishes it to the hub, as f.                                   *)
Admitted(n, f) ==
    LET h == Head(inbox[n]) IN
    /\ ~Merging(n)
    /\ h.node # n /\ SameOrigin(f, h) /\ f.id = h.id
    /\ ~LruHas(lru[n], KeyOf(h))
    /\ inbox' = [inbox EXCEPT ![n] = Tail(inbox[n])]
    /\ lru' = [lru EXCEPT ![n] = LruInsert(lru[n], KeyOf(h))]
    /\ Stamps(n, f)
    /\ UNCHANGED <<pubCh, sending, merged, discarded, nextId, restarts>>

LEMMA Received ==
    ASSUME TypeOK, NEW n \in Nodes, Receive(n)
    PROVE  /\ inbox[n] # <<>> /\ subPC[n] = "run" /\ Head(inbox[n]) \in Event
           /\ Dropped(n) \/ \E f \in Event : Admitted(n, f)
<1> DEFINE e == Head(inbox[n])
<1>1. inbox[n] # <<>> /\ subPC[n] = "run" /\ e \in Event /\ ~Merging(n)
  BY Tailed DEF Receive, TypeOK
<1>2. /\ inbox' = [inbox EXCEPT ![n] = Tail(inbox[n])]
      /\ UNCHANGED <<pubCh, sending, merged, nextId, restarts>>
  BY DEF Receive, TypeOK, countVars
<1>3. \/ e.node = n /\ UNCHANGED <<hubSeq, calls, lru, discarded>>
      \/ /\ e.node # n /\ LruHas(lru[n], KeyOf(e))
         /\ discarded' = [discarded EXCEPT ![n] = @ \cup {e.id}]
         /\ UNCHANGED <<hubSeq, calls, lru>>
      \/ /\ e.node # n /\ ~LruHas(lru[n], KeyOf(e))
         /\ lru' = [lru EXCEPT ![n] = LruInsert(@, KeyOf(e))]
         /\ HubPublish(n, e)
         /\ UNCHANGED discarded
  BY DEF Receive, hubVars
<1>4. CASE \/ e.node = n /\ UNCHANGED <<hubSeq, calls, lru, discarded>>
           \/ /\ e.node # n /\ LruHas(lru[n], KeyOf(e))
              /\ discarded' = [discarded EXCEPT ![n] = @ \cup {e.id}]
              /\ UNCHANGED <<hubSeq, calls, lru>>
  BY <1>1, <1>2, <1>4 DEF Dropped
<1>5. CASE /\ e.node # n /\ ~LruHas(lru[n], KeyOf(e))
           /\ lru' = [lru EXCEPT ![n] = LruInsert(@, KeyOf(e))]
           /\ HubPublish(n, e)
           /\ UNCHANGED discarded
  <2>1. lru' = [lru EXCEPT ![n] = LruInsert(lru[n], KeyOf(e))]
    BY <1>5 DEF TypeOK
  <2>2. PICK f \in Event : SameOrigin(f, e) /\ f.id = e.id /\ Stamps(n, f)
    BY <1>1, <1>5, Published
  <2>3. Admitted(n, f)
    BY <1>1, <1>2, <1>5, <2>1, <2>2 DEF Admitted
  <2> QED
    BY <1>1, <2>3
<1> QED
  BY <1>1, <1>3, <1>4, <1>5

LEMMA StampsTyped ==
    ASSUME TypeOK, NEW n \in Nodes, NEW f \in Event, Stamps(n, f)
    PROVE  hubSeq' \in [Nodes -> Nat] /\ calls' \in [Nodes -> SUBSET Call]
<1> DEFINE k == [event |-> f, todo |-> Subscribers]
           K == calls[n] \cup {k}
<1>1. hubSeq[n] + 1 \in Nat /\ k \in Call
  BY DEF TypeOK, Call, Subscribers
<1>2. K \in SUBSET Call
  BY <1>1 DEF TypeOK
<1>3. calls' = [calls EXCEPT ![n] = K]
  BY DEF Stamps
<1> HIDE DEF K
<1> QED
  BY <1>1, <1>2, <1>3 DEF Stamps, TypeOK

LEMMA ServedTyped ==
    ASSUME TypeOK, NEW n \in Nodes, NEW c, NEW s, Served(n, c, s)
    PROVE  calls' \in [Nodes -> SUBSET Call] /\ c.event \in Event
<1> DEFINE R == IF c.todo = {s} THEN {} ELSE {[c EXCEPT !.todo = @ \ {s}]}
           W == (calls[n] \ {c}) \cup R
<1>1. c \in Call /\ calls[n] \subseteq Call
  BY DEF Served, TypeOK
<1>2. c.event \in Event /\ c.todo \in (SUBSET Subscribers) \ {{}}
  BY <1>1 DEF Call
<1>3. R \subseteq Call
  <2>1. CASE c.todo = {s}
    BY <2>1
  <2>2. CASE c.todo # {s}
    <3>1. c.todo \ {s} \in (SUBSET Subscribers) \ {{}}
      BY <1>2, <2>2 DEF Served
    <3>2. [c EXCEPT !.todo = @ \ {s}] \in Call
      BY <1>1, <3>1 DEF Call
    <3> QED
      BY <2>2, <3>2
  <2> QED
    BY <2>1, <2>2
<1>4. calls' = [calls EXCEPT ![n] = W]
  BY DEF Served, TypeOK
<1>5. W \in SUBSET Call
  BY <1>1, <1>3
<1> HIDE DEF W
<1> QED
  BY <1>2, <1>4, <1>5 DEF TypeOK

LEMMA TypesStep == TypeOK /\ [Next]_vars => TypeOK'
<1> SUFFICES ASSUME TypeOK, [Next]_vars PROVE TypeOK'
  OBVIOUS
<1> USE DEF bridgeVars, countVars, hubVars
<1>0. LruCap \in Nat \ {0} /\ ChanCap \in Nat \ {0} /\ MaxEvents \in Nat
      /\ MaxFaults \in Nat /\ MaxStops \in Nat /\ MaxRestarts \in Nat
  BY CapAssumption
<1>e. <<>> \in Seq(Event) /\ <<>> \in Seq(Key) /\ Len(<<>>) = 0
  OBVIOUS
<1>1. ASSUME NEW n \in Nodes, NEW c \in Clients, LocalEvent(n, c) PROVE TypeOK'
  <2>1. PICK f \in Event : Stamps(n, f)
    BY <1>1, LocalEventEffect
  <2>2. nextId' \in 1..(MaxEvents + 1)
    <3>1. nextId \in 1..(MaxEvents + 1)
      BY DEF TypeOK
    <3>2. nextId' = nextId + 1 /\ nextId <= MaxEvents
      BY <1>1 DEF LocalEvent
    <3> QED
      BY <1>0, <3>1, <3>2
  <2> QED
    BY <1>1, <2>1, <2>2, StampsTyped DEF LocalEvent, TypeOK
<1>2. ASSUME NEW n \in Nodes, PublisherSubscribe(n) PROVE TypeOK'
  BY <1>2 DEF PublisherSubscribe, TypeOK
<1>3. ASSUME NEW n \in Nodes, Take(n) PROVE TypeOK'
  <2>1. /\ Tail(pubCh[n]) \in Seq(Event) /\ Head(pubCh[n]) \in Event
        /\ Len(Tail(pubCh[n])) = Len(pubCh[n]) - 1 /\ Len(pubCh[n]) \in Nat
    BY <1>3, Tailed DEF Take, TypeOK
  <2>2. pubCh' = [pubCh EXCEPT ![n] = Tail(pubCh[n])]
    BY <1>3 DEF Take, TypeOK
  <2>3. pubCh' \in [Nodes -> Seq(Event)] /\ \A m \in Nodes : Len(pubCh'[m]) <= ChanCap
    <3>1. Len(Tail(pubCh[n])) <= ChanCap
      BY <1>0, <2>1 DEF TypeOK
    <3> QED
      BY <2>1, <2>2, <3>1 DEF TypeOK
  <2>4. sending' \in [Nodes -> Seq(Event)] /\ \A m \in Nodes : Len(sending'[m]) <= 1
    <3>1. <<Head(pubCh[n])>> \in Seq(Event) /\ Len(<<Head(pubCh[n])>>) <= 1
      BY <2>1
    <3>2. sending' = sending \/ sending' = [sending EXCEPT ![n] = <<Head(pubCh[n])>>]
      BY <1>3 DEF Take
    <3>3. sending \in [Nodes -> Seq(Event)] /\ \A m \in Nodes : Len(sending[m]) <= 1
      BY DEF TypeOK
    <3> DEFINE w == <<Head(pubCh[n])>>
    <3> HIDE DEF w
    <3>4. CASE sending' = [sending EXCEPT ![n] = w]
      <4>1. w \in Seq(Event) /\ Len(w) <= 1
        BY <3>1 DEF w
      <4> QED
        BY <3>3, <3>4, <4>1
    <3> QED
      BY <3>2, <3>3, <3>4 DEF w
  <2> QED
    BY <1>3, <2>3, <2>4 DEF Take, TypeOK
<1>4. ASSUME NEW n \in Nodes, NEW S, Deliver(n, S)
      PROVE  inbox' \in [Nodes -> Seq(Event)]
  <2>1. PICK f \in Event :
            inbox' = [m \in Nodes |->
                        IF m \in S THEN Append(inbox[m], f) ELSE inbox[m]]
    BY <1>4, Delivered
  <2>2. \A m \in Nodes : Append(inbox[m], f) \in Seq(Event) /\ inbox[m] \in Seq(Event)
    BY Appended DEF TypeOK
  <2> QED
    BY <2>1, <2>2
<1>5. ASSUME NEW n \in Nodes, sending' = [sending EXCEPT ![n] = <<>>]
      PROVE  /\ sending' \in [Nodes -> Seq(Event)]
             /\ \A m \in Nodes : Len(sending'[m]) <= 1
  BY <1>5, <1>e DEF TypeOK
<1>6. ASSUME NEW n \in Nodes, Forward(n) PROVE TypeOK'
  <2>1. inbox' \in [Nodes -> Seq(Event)]
    BY <1>4, <1>6 DEF Forward
  <2> QED
    BY <1>5, <1>6, <2>1 DEF Forward, TypeOK
<1>7. ASSUME NEW n \in Nodes, NEW S \in SUBSET Connected, ForwardLossy(n, S) PROVE TypeOK'
  <2>1. inbox' \in [Nodes -> Seq(Event)]
    BY <1>4, <1>7 DEF ForwardLossy
  <2>2. faults' \in 0..MaxFaults
    BY <1>0, <1>7 DEF ForwardLossy, TypeOK
  <2> QED
    BY <1>5, <1>7, <2>1, <2>2 DEF ForwardLossy, TypeOK
<1>8. ASSUME NEW n \in Nodes, ForwardReplyLost(n) PROVE TypeOK'
  <2>1. inbox' \in [Nodes -> Seq(Event)]
    BY <1>4, <1>8 DEF ForwardReplyLost
  <2>2. faults' \in 0..MaxFaults
    BY <1>0, <1>8 DEF ForwardReplyLost, TypeOK
  <2> QED
    BY <1>8, <2>1, <2>2 DEF ForwardReplyLost, TypeOK
<1>9. ASSUME NEW n \in Nodes, SubscriberSubscribe(n) PROVE TypeOK'
  BY <1>9 DEF SubscriberSubscribe, TypeOK
<1>10. ASSUME NEW n \in Nodes, Receive(n) PROVE TypeOK'
  <2>0. Head(inbox[n]) \in Event /\ Tail(inbox[n]) \in Seq(Event)
        /\ UNCHANGED <<pubCh, sending, pubPC, subPC, ctl, merged, nextId, faults,
                       stops, restarts>>
    BY <1>10, Tailed DEF Receive, TypeOK
  <2>1. CASE Dropped(n)
    <3>1. Head(inbox[n]).id \in Nat
      BY <2>0 DEF Event
    <3>2. discarded' \in [Nodes -> SUBSET Nat]
      <4> DEFINE D == discarded[n] \cup {Head(inbox[n]).id}
      <4>1. D \in SUBSET Nat
        BY <3>1 DEF TypeOK
      <4>2. discarded' = discarded \/ discarded' = [discarded EXCEPT ![n] = D]
        BY <2>1 DEF Dropped
      <4> HIDE DEF D
      <4> QED
        BY <4>1, <4>2 DEF TypeOK
    <3> QED
      BY <2>0, <2>1, <3>2 DEF Dropped, TypeOK
  <2>2. ASSUME NEW f \in Event, Admitted(n, f) PROVE TypeOK'
    <3>1. KeyOf(Head(inbox[n])) \in Key
      BY <2>0 DEF KeyOf, Key, Event
    <3>2. /\ LruInsert(lru[n], KeyOf(Head(inbox[n]))) \in Seq(Key)
          /\ Len(LruInsert(lru[n], KeyOf(Head(inbox[n])))) <= LruCap
      BY <3>1, Inserted DEF TypeOK
    <3>3. lru' \in [Nodes -> Seq(Key)] /\ \A m \in Nodes : Len(lru'[m]) <= LruCap
      BY <2>2, <3>2 DEF Admitted, TypeOK
    <3>4. inbox' \in [Nodes -> Seq(Event)]
      BY <2>0, <2>2 DEF Admitted, TypeOK
    <3>5. hubSeq' \in [Nodes -> Nat] /\ calls' \in [Nodes -> SUBSET Call]
      BY <2>2, StampsTyped DEF Admitted
    <3>6. discarded' = discarded
      BY <2>2 DEF Admitted
    <3> QED
      BY <2>0, <3>3, <3>4, <3>5, <3>6 DEF TypeOK
  <2> QED
    BY <1>10, <2>1, <2>2, Received
<1>11. ASSUME NEW n \in Nodes, PublisherExit(n) PROVE TypeOK'
  <2>1. pubCh' \in [Nodes -> Seq(Event)] /\ \A m \in Nodes : Len(pubCh'[m]) <= ChanCap
    BY <1>0, <1>e, <1>11 DEF PublisherExit, TypeOK
  <2> QED
    BY <1>5, <1>11, <2>1 DEF PublisherExit, TypeOK
<1>12. ASSUME NEW n \in Nodes, SubscriberExit(n) PROVE TypeOK'
  BY <1>e, <1>12 DEF SubscriberExit, TypeOK
<1>13. ASSUME NEW n \in Nodes, Stop(n) PROVE TypeOK'
  <2>1. stops' \in 0..MaxStops
    BY <1>0, <1>13 DEF Stop, TypeOK
  <2> QED
    BY <1>13, <2>1 DEF Stop, TypeOK
<1>14. ASSUME NEW n \in Nodes, StopReturn(n) PROVE TypeOK'
  BY <1>14 DEF StopReturn, TypeOK
<1>15. ASSUME NEW n \in Nodes, Restart(n) PROVE TypeOK'
  <2>1. restarts' \in 0..MaxRestarts
    BY <1>0, <1>15 DEF Restart, TypeOK
  <2>2. /\ pubCh' \in [Nodes -> Seq(Event)] /\ inbox' \in [Nodes -> Seq(Event)]
        /\ lru' \in [Nodes -> Seq(Key)] /\ merged' \in [Nodes -> Seq(Event)]
    BY <1>e, <1>15 DEF Restart, TypeOK
  <2>3. /\ \A m \in Nodes : Len(pubCh'[m]) <= ChanCap
        /\ \A m \in Nodes : Len(lru'[m]) <= LruCap
    BY <1>0, <1>e, <1>15 DEF Restart, TypeOK
  <2>4. /\ hubSeq' \in [Nodes -> Nat] /\ discarded' \in [Nodes -> SUBSET Nat]
        /\ calls' \in [Nodes -> SUBSET Call]
    BY <1>15 DEF Restart, TypeOK
  <2>5. /\ pubPC' \in [Nodes -> {"start", "run", "exited"}]
        /\ subPC' \in [Nodes -> {"start", "run", "exited"}]
        /\ ctl' \in [Nodes -> {"started", "stopping", "stopped"}]
    BY <1>15 DEF Restart, TypeOK
  <2>6. UNCHANGED <<nextId, faults, stops>> /\ sending' = [sending EXCEPT ![n] = <<>>]
    BY <1>15 DEF Restart
  <2> QED
    BY <1>5, <2>1, <2>2, <2>3, <2>4, <2>5, <2>6 DEF TypeOK
<1>16. CASE UNCHANGED vars
  BY <1>16 DEF vars, TypeOK
<1>17. ASSUME NEW n \in Nodes, SendToPublisher(n) PROVE TypeOK'
  <2>1. PICK c \in calls[n] :
          /\ Served(n, c, "publisher")
          /\ pubCh' = IF pubPC[n] = "run" /\ Len(pubCh[n]) < ChanCap
                      THEN [pubCh EXCEPT ![n] = Append(@, c.event)] ELSE pubCh
    BY <1>17 DEF SendToPublisher
  <2>2. calls' \in [Nodes -> SUBSET Call] /\ c.event \in Event
    BY <2>1, ServedTyped
  <2>3. pubCh' \in [Nodes -> Seq(Event)] /\ \A m \in Nodes : Len(pubCh'[m]) <= ChanCap
    <3>1. /\ Append(pubCh[n], c.event) \in Seq(Event)
          /\ Len(Append(pubCh[n], c.event)) = Len(pubCh[n]) + 1
          /\ Len(pubCh[n]) \in Nat
      BY <2>2, Appended DEF TypeOK
    <3>2. CASE pubCh' = pubCh
      BY <3>2 DEF TypeOK
    <3>3. CASE /\ Len(pubCh[n]) < ChanCap
               /\ pubCh' = [pubCh EXCEPT ![n] = Append(pubCh[n], c.event)]
      <4>1. Len(Append(pubCh[n], c.event)) <= ChanCap
        BY <1>0, <3>1, <3>3
      <4> QED
        BY <3>1, <3>3, <4>1 DEF TypeOK
    <3> QED
      BY <2>1, <3>2, <3>3
  <2> QED
    BY <1>17, <2>2, <2>3 DEF SendToPublisher, TypeOK
<1>18. ASSUME NEW n \in Nodes, SendToStream(n) PROVE TypeOK'
  <2>1. PICK c \in calls[n] :
          /\ Served(n, c, "stream")
          /\ merged' = [merged EXCEPT ![n] = Append(@, c.event)]
    BY <1>18 DEF SendToStream
  <2>2. calls' \in [Nodes -> SUBSET Call] /\ c.event \in Event
    BY <2>1, ServedTyped
  <2>3. merged' \in [Nodes -> Seq(Event)]
    <3>1. Append(merged[n], c.event) \in Seq(Event)
      BY <2>2, Appended DEF TypeOK
    <3> QED
      BY <2>1, <3>1 DEF TypeOK
  <2> QED
    BY <1>18, <2>2, <2>3 DEF SendToStream, TypeOK
<1> QED
  BY <1>1, <1>2, <1>3, <1>6, <1>7, <1>8, <1>9, <1>10, <1>11, <1>12, <1>13,
     <1>14, <1>15, <1>16, <1>17, <1>18
     DEF Next, FanOut, PublisherStep, SubscriberStep

(* Only a running subscriber publishes a peer's event.                     *)
LEMMA ExitedStep == TypeOK /\ Exited /\ [Next]_vars => Exited'
<1> SUFFICES ASSUME TypeOK, Exited, [Next]_vars PROVE Exited'
  OBVIOUS
<1> USE DEF bridgeVars, countVars, hubVars
<1>0. ASSUME \A n \in Nodes :
                /\ ctl'[n] = "stopped" => pubPC'[n] = "exited" /\ subPC'[n] = "exited"
                /\ pubPC'[n] # "run" => sending'[n] = <<>>
                /\ subPC'[n] # "run" => ~Merging(n)'
      PROVE  Exited'
  BY <1>0 DEF Exited
<1>1. CASE UNCHANGED <<calls, sending, pubPC, subPC, ctl>>
  BY <1>1 DEF Exited, Merging
<1>2. ASSUME NEW n \in Nodes, Take(n) PROVE Exited'
  <2>1. /\ pubPC[n] # "run" => sending'[n] = sending[n]
        /\ \A m \in Nodes \ {n} : sending'[m] = sending[m]
        /\ UNCHANGED <<calls, pubPC, subPC, ctl>>
    BY <1>2 DEF Take, TypeOK
  <2> QED
    BY <2>1 DEF Exited, Merging
<1>3. ASSUME NEW n \in Nodes, sending' = [sending EXCEPT ![n] = <<>>],
             UNCHANGED <<calls, pubPC, subPC, ctl>>
      PROVE  Exited'
  BY <1>3 DEF Exited, Merging, TypeOK
<1>4. ASSUME NEW n \in Nodes, PublisherSubscribe(n) PROVE Exited'
  BY <1>4 DEF PublisherSubscribe, Exited, Merging, TypeOK
<1>5. ASSUME NEW n \in Nodes, SubscriberSubscribe(n) PROVE Exited'
  BY <1>5 DEF SubscriberSubscribe, Exited, Merging, TypeOK
<1>6. ASSUME NEW n \in Nodes, PublisherExit(n) PROVE Exited'
  BY <1>6 DEF PublisherExit, Exited, Merging, TypeOK
<1>7. ASSUME NEW n \in Nodes, SubscriberExit(n) PROVE Exited'
  BY <1>7 DEF SubscriberExit, Exited, Merging, TypeOK
<1>8. ASSUME NEW n \in Nodes, Stop(n) PROVE Exited'
  BY <1>8 DEF Stop, Exited, Merging, TypeOK
<1>9. ASSUME NEW n \in Nodes, StopReturn(n) PROVE Exited'
  BY <1>9 DEF StopReturn, Exited, Merging, TypeOK
<1>10. ASSUME NEW n \in Nodes, Restart(n) PROVE Exited'
  BY <1>10 DEF Restart, Exited, Merging, TypeOK
<1>11. ASSUME NEW n \in Nodes, UNCHANGED <<sending, pubPC, subPC, ctl>>,
              subPC[n] # "run" /\ ~Merging(n) => ~Merging(n)',
              \A m \in Nodes \ {n} : Merging(m)' = Merging(m)
       PROVE  Exited'
  BY <1>11 DEF Exited
<1>12. ASSUME NEW n \in Nodes, NEW f \in Event, Stamps(n, f),
              UNCHANGED <<sending, pubPC, subPC, ctl>>,
              f.node # n => subPC[n] = "run"
       PROVE  Exited'
  <2>1. /\ calls'[n] = calls[n] \cup {[event |-> f, todo |-> Subscribers]}
        /\ \A m \in Nodes \ {n} : calls'[m] = calls[m]
    BY <1>12 DEF Stamps, TypeOK
  <2>2. \A m \in Nodes \ {n} : Merging(m)' = Merging(m)
    BY <2>1 DEF Merging
  <2>3. subPC[n] # "run" /\ ~Merging(n) => ~Merging(n)'
    BY <1>12, <2>1 DEF Merging
  <2> QED
    BY <1>11, <1>12, <2>2, <2>3
<1>13. ASSUME NEW n \in Nodes, NEW c \in Clients, LocalEvent(n, c) PROVE Exited'
  <2>1. PICK f \in Event : f.node = n /\ Stamps(n, f)
    BY <1>13, LocalEventEffect
  <2>2. UNCHANGED <<sending, pubPC, subPC, ctl>>
    BY <1>13 DEF LocalEvent
  <2> QED
    BY <1>12, <2>1, <2>2
<1>14. ASSUME NEW n \in Nodes, Receive(n) PROVE Exited'
  <2>1. UNCHANGED <<sending, pubPC, subPC, ctl>> /\ subPC[n] = "run"
    BY <1>14 DEF Receive
  <2>2. CASE Dropped(n)
    BY <1>1, <2>1, <2>2 DEF Dropped
  <2>3. ASSUME NEW f \in Event, Admitted(n, f) PROVE Exited'
    BY <1>12, <2>1, <2>3 DEF Admitted
  <2> QED
    BY <1>14, <2>2, <2>3, Received
<1>15. ASSUME NEW n \in Nodes, NEW c, NEW s, Served(n, c, s),
              UNCHANGED <<sending, pubPC, subPC, ctl>>
       PROVE  Exited'
  <2>1. /\ \A m \in Nodes \ {n} : calls'[m] = calls[m]
        /\ calls'[n] = (calls[n] \ {c}) \cup
              IF c.todo = {s} THEN {} ELSE {[c EXCEPT !.todo = @ \ {s}]}
    BY <1>15 DEF Served, TypeOK
  <2>2. c \in calls[n] /\ c \in Call
    BY <1>15 DEF Served, TypeOK
  <2>3. [c EXCEPT !.todo = @ \ {s}].event = c.event
    BY <2>2 DEF Call
  <2>4. \A d \in calls'[n] : \E k \in calls[n] : k.event = d.event
    BY <2>1, <2>2, <2>3
  <2>5. ~Merging(n) => ~Merging(n)'
    BY <2>4 DEF Merging
  <2>6. \A m \in Nodes \ {n} : Merging(m)' = Merging(m)
    BY <2>1 DEF Merging
  <2> QED
    BY <1>11, <1>15, <2>5, <2>6
<1>16. ASSUME NEW n \in Nodes, FanOut(n) PROVE Exited'
  BY <1>15, <1>16 DEF FanOut, SendToPublisher, SendToStream
<1>17. ASSUME NEW n \in Nodes, ForwardReplyLost(n) PROVE Exited'
  BY <1>1, <1>17 DEF ForwardReplyLost
<1>18. ASSUME NEW n \in Nodes, Forward(n) PROVE Exited'
  BY <1>3, <1>18 DEF Forward
<1>19. ASSUME NEW n \in Nodes, NEW S \in SUBSET Connected, ForwardLossy(n, S) PROVE Exited'
  BY <1>3, <1>19 DEF ForwardLossy
<1>20. CASE UNCHANGED vars
  BY <1>1, <1>20 DEF vars
<1> QED
  BY <1>2, <1>4, <1>5, <1>6, <1>7, <1>8, <1>9, <1>10, <1>13, <1>14, <1>16,
     <1>17, <1>18, <1>19, <1>20 DEF Next, PublisherStep, SubscriberStep

(* A new call is of a goroutine that was in none.                          *)
LEMMA TurnsStep == TypeOK /\ Turns /\ [Next]_vars => Turns'
<1> SUFFICES ASSUME TypeOK, Turns, [Next]_vars PROVE Turns'
  OBVIOUS
<1> USE DEF bridgeVars, countVars, hubVars
<1>1. CASE UNCHANGED calls
  BY <1>1 DEF Turns
<1>2. ASSUME NEW n \in Nodes, NEW f \in Event, Stamps(n, f),
             \A d \in calls[n] : /\ ~SameOrigin(d.event, f)
                                 /\ ~(d.event.node # n /\ f.node # n)
      PROVE  Turns'
  <2> DEFINE k == [event |-> f, todo |-> Subscribers]
  <2>1. /\ calls'[n] = calls[n] \cup {k} /\ k.event = f
        /\ \A m \in Nodes \ {n} : calls'[m] = calls[m]
    BY <1>2 DEF Stamps, TypeOK
  <2> HIDE DEF k
  <2> QED
    BY <1>2, <2>1 DEF Turns, SameOrigin
<1>3. ASSUME NEW n \in Nodes, NEW c \in Clients, LocalEvent(n, c) PROVE Turns'
  <2>1. PICK f \in Event : f.node = n /\ f.client = c /\ Stamps(n, f)
    BY <1>3, LocalEventEffect
  <2>2. \A d \in calls[n] : d.event.node = n => d.event.client # c
    BY <1>3 DEF LocalEvent
  <2> QED
    BY <1>2, <2>1, <2>2 DEF SameOrigin
<1>4. ASSUME NEW n \in Nodes, Receive(n) PROVE Turns'
  <2>1. CASE Dropped(n)
    BY <1>1, <2>1 DEF Dropped
  <2>2. ASSUME NEW f \in Event, Admitted(n, f) PROVE Turns'
    <3>1. f.node # n /\ Stamps(n, f) /\ \A d \in calls[n] : d.event.node = n
      BY <2>2 DEF Admitted, SameOrigin, Merging
    <3> QED
      BY <1>2, <3>1 DEF SameOrigin
  <2> QED
    BY <1>4, <2>1, <2>2, Received
<1>5. ASSUME NEW n \in Nodes, NEW c, NEW s, Served(n, c, s) PROVE Turns'
  <2> DEFINE k == [c EXCEPT !.todo = @ \ {s}]
  <2>1. c \in calls[n] /\ c \in Call
    BY <1>5 DEF Served, TypeOK
  <2>2. k.event = c.event
    BY <2>1 DEF Call
  <2>3. /\ \A m \in Nodes \ {n} : calls'[m] = calls[m]
        /\ calls'[n] \subseteq (calls[n] \ {c}) \cup {k}
    BY <1>5 DEF Served, TypeOK
  <2> HIDE DEF k
  <2>4. ASSUME NEW x \in calls'[n], NEW y \in calls'[n],
               \/ SameOrigin(x.event, y.event)
               \/ x.event.node # n /\ y.event.node # n
        PROVE  x = y
    <3>1. CASE x = k /\ y = k
      BY <3>1
    <3>2. CASE x # k /\ y # k
      BY <2>3, <2>4, <3>2 DEF Turns
    <3>3. CASE x = k /\ y # k
      BY <2>1, <2>2, <2>3, <2>4, <3>3 DEF Turns
    <3>4. CASE x # k /\ y = k
      BY <2>1, <2>2, <2>3, <2>4, <3>4 DEF Turns
    <3> QED
      BY <3>1, <3>2, <3>3, <3>4
  <2> QED
    BY <2>3, <2>4 DEF Turns
<1>6. ASSUME NEW n \in Nodes, FanOut(n) PROVE Turns'
  BY <1>5, <1>6 DEF FanOut, SendToPublisher, SendToStream
<1>7. ASSUME NEW n \in Nodes, Restart(n) PROVE Turns'
  BY <1>7 DEF Restart, Turns, TypeOK
<1>8. ASSUME NEW n \in Nodes, NEW S \in SUBSET Connected, ForwardLossy(n, S) PROVE Turns'
  BY <1>1, <1>8 DEF ForwardLossy
<1>9. ASSUME NEW n \in Nodes,
             \/ PublisherStep(n) \/ ForwardReplyLost(n) \/ SubscriberSubscribe(n)
             \/ SubscriberExit(n) \/ Stop(n) \/ StopReturn(n)
      PROVE  Turns'
  <2>1. UNCHANGED calls
    BY <1>9 DEF PublisherStep, PublisherSubscribe, Take, Forward, PublisherExit,
       ForwardReplyLost, SubscriberSubscribe, SubscriberExit, Stop, StopReturn
  <2> QED
    BY <1>1, <2>1
<1>10. CASE UNCHANGED vars
  BY <1>1, <1>10 DEF vars
<1> QED
  BY <1>3, <1>4, <1>6, <1>7, <1>8, <1>9, <1>10 DEF Next, SubscriberStep

Control == TypeOK /\ Exited /\ Turns

LEMMA InitTyped == Init => Control
<1> SUFFICES ASSUME Init PROVE Control
  OBVIOUS
<1>1. /\ LruCap \in Nat /\ ChanCap \in Nat /\ MaxEvents \in Nat
      /\ MaxFaults \in Nat /\ MaxStops \in Nat /\ MaxRestarts \in Nat
  BY CapAssumption
<1>2. <<>> \in Seq(Event) /\ <<>> \in Seq(Key) /\ Len(<<>>) = 0
  OBVIOUS
<1>3. TypeOK
  BY <1>1, <1>2 DEF Init, TypeOK
<1>4. Exited /\ Turns
  BY DEF Init, Exited, Turns, Merging
<1> QED
  BY <1>3, <1>4 DEF Control

LEMMA TypesKept == Spec => []Control
<1>1. Control /\ [Next]_vars => Control'
  BY TypesStep, ExitedStep, TurnsStep DEF Control
<1> QED
  BY <1>1, InitTyped, PTL DEF Spec

(* After Stop has returned, neither goroutine can act: nothing is sent,    *)
(* and the streams are sent only events of the node's own broker, also     *)
(* when the subscriber was in the middle of Publish when Stop was called.  *)
THEOREM StoppedBridgeIsQuiet == Spec => QuietAfterStop
<1> DEFINE Quiet == \A n \in Nodes :
        ctl[n] = "stopped" /\ ctl'[n] = "stopped" =>
            /\ sending'[n] = <<>>
            /\ \A i \in DOMAIN merged'[n] \ DOMAIN merged[n] :
                    merged'[n][i].node = n
<1>1. Control /\ Control' /\ [Next]_vars => [Quiet]_vars
  <2> SUFFICES ASSUME Control, Control', Next, NEW n \in Nodes,
                      ctl[n] = "stopped", ctl'[n] = "stopped"
               PROVE  /\ sending'[n] = <<>>
                      /\ \A i \in DOMAIN merged'[n] \ DOMAIN merged[n] :
                            merged'[n][i].node = n
    OBVIOUS
  <2>0. TypeOK /\ Exited /\ Exited'
    BY DEF Control
  <2>1. sending'[n] = <<>> /\ ~Merging(n)
    BY <2>0 DEF Exited
  <2>2. CASE merged'[n] = merged[n]
    BY <2>1, <2>2
  <2>3. CASE SendToStream(n)
    <3>1. PICK c \in calls[n] : /\ Served(n, c, "stream")
                                /\ merged' = [merged EXCEPT ![n] = Append(@, c.event)]
      BY <2>3 DEF SendToStream
    <3>2. c.event \in Event /\ c.event.node = n
      BY <2>0, <2>1, <3>1, ServedTyped DEF Merging
    <3>3. merged'[n] = Append(merged[n], c.event) /\ merged[n] \in Seq(Event)
      BY <2>0, <3>1 DEF TypeOK
    <3>4. /\ DOMAIN merged'[n] = 1..(Len(merged[n]) + 1)
          /\ DOMAIN merged[n] = 1..Len(merged[n]) /\ Len(merged[n]) \in Nat
          /\ merged'[n][Len(merged[n]) + 1] = c.event
      BY <3>2, <3>3, Appended
    <3>5. \A i \in DOMAIN merged'[n] \ DOMAIN merged[n] : i = Len(merged[n]) + 1
      BY <3>4
    <3> QED
      BY <2>1, <3>2, <3>4, <3>5
  <2>4. ASSUME NEW m \in Nodes, m # n, SendToStream(m) PROVE merged'[n] = merged[n]
    BY <2>0, <2>4 DEF SendToStream, TypeOK
  <2>5. ASSUME NEW m \in Nodes, Restart(m) PROVE merged'[n] = merged[n]
    <3>1. m # n
      BY <2>0, <2>5 DEF Restart, TypeOK
    <3> QED
      BY <2>0, <2>5, <3>1 DEF Restart, TypeOK
  <2> QED
    BY <2>2, <2>3, <2>4, <2>5 DEF Next, FanOut, PublisherStep, SubscriberStep,
       LocalEvent, SendToPublisher, PublisherSubscribe, Take, Forward,
       PublisherExit, ForwardLossy, ForwardReplyLost, SubscriberSubscribe,
       Receive, SubscriberExit, Stop, StopReturn
<1> QED
  BY <1>1, TypesKept, PTL DEF Spec, QuietAfterStop

----------------------------------------------------------------------------
(* What a step does to the events: it is one of the following, or the      *)
(* subscriber's Dropped or Admitted.                                       *)

Still ==
    UNCHANGED <<hubSeq, calls, pubCh, sending, inbox, lru, merged, discarded,
                nextId, restarts>>

Produced(n, f) ==
    /\ f.node = n /\ f.id = nextId /\ nextId' = nextId + 1
    /\ Stamps(n, f)
    /\ UNCHANGED <<pubCh, sending, inbox, lru, merged, discarded, restarts>>

(* A call of Publish gets through to the publisher's channel, or not ...   *)
Queued(n, f) ==
    /\ f \in ToPublisher(n) /\ ToPublisher(n)' = ToPublisher(n) \ {f}
    /\ \A m \in Nodes \ {n} : ToPublisher(m)' = ToPublisher(m)
    /\ \A m \in Nodes : ToStream(m)' = ToStream(m)
    /\ pubCh' = pubCh \/ pubCh' = [pubCh EXCEPT ![n] = Append(pubCh[n], f)]
    /\ UNCHANGED <<hubSeq, sending, inbox, lru, merged, discarded, nextId,
                   restarts>>

(* ... and to the stream.                                                  *)
Shown(n, f) ==
    /\ f \in ToStream(n) /\ ToStream(n)' = ToStream(n) \ {f}
    /\ \A m \in Nodes \ {n} : ToStream(m)' = ToStream(m)
    /\ \A m \in Nodes : ToPublisher(m)' = ToPublisher(m)
    /\ merged' = [merged EXCEPT ![n] = Append(merged[n], f)]
    /\ UNCHANGED <<hubSeq, pubCh, sending, inbox, lru, discarded, nextId,
                   restarts>>

Taken(n) ==
    /\ pubCh[n] # <<>>
    /\ pubCh' = [pubCh EXCEPT ![n] = Tail(pubCh[n])]
    /\ \/ sending' = sending
       \/ /\ Head(pubCh[n]).node = n
          /\ sending' = [sending EXCEPT ![n] = <<Head(pubCh[n])>>]
    /\ sending[n] = <<>>
    /\ UNCHANGED <<hubSeq, calls, inbox, lru, merged, discarded, nextId,
                   restarts>>

Sent(n, f, S) ==
    /\ sending[n] = <<f>> /\ Range(sending[n]) = {f}
    /\ inbox' = [m \in Nodes |-> IF m \in S THEN Append(inbox[m], f) ELSE inbox[m]]
    /\ sending' = sending \/ sending' = [sending EXCEPT ![n] = <<>>]
    /\ UNCHANGED <<hubSeq, calls, pubCh, lru, merged, discarded, nextId, restarts>>

(* A goroutine that exits leaves its queue behind.                         *)
Abandoned(n) ==
    /\ pubCh' = pubCh \/ pubCh' = [pubCh EXCEPT ![n] = <<>>]
    /\ sending' = sending \/ sending' = [sending EXCEPT ![n] = <<>>]
    /\ inbox' = inbox \/ inbox' = [inbox EXCEPT ![n] = <<>>]
    /\ UNCHANGED <<hubSeq, calls, lru, merged, discarded, nextId, restarts>>

Effect ==
    \/ Still
    \/ \E n \in Nodes :
        \/ \E f \in Event : Produced(n, f)
        \/ \E f \in Event : Queued(n, f) \/ Shown(n, f)
        \/ Taken(n)
        \/ \E f \in Event, S \in SUBSET Nodes : Sent(n, f, S)
        \/ inbox[n] # <<>> /\ Dropped(n)
        \/ inbox[n] # <<>> /\ \E f \in Event : Admitted(n, f)
        \/ Abandoned(n)
        \/ Restart(n)

LEMMA StepKinds == TypeOK /\ Turns /\ [Next]_vars => Effect
<1> SUFFICES ASSUME TypeOK, Turns, [Next]_vars PROVE Effect
  OBVIOUS
<1> USE DEF countVars, hubVars
<1>1. ASSUME NEW n \in Nodes, NEW c \in Clients, LocalEvent(n, c) PROVE Effect
  <2>1. PICK f \in Event : f.node = n /\ f.id = nextId /\ Stamps(n, f)
    BY <1>1, LocalEventEffect
  <2>2. Produced(n, f)
    BY <1>1, <2>1 DEF LocalEvent, Produced
  <2> QED
    BY <2>2 DEF Effect
<1>2. ASSUME NEW n \in Nodes, SendToPublisher(n) PROVE Effect
  <2>1. PICK c \in calls[n] :
          /\ Served(n, c, "publisher")
          /\ pubCh' = IF pubPC[n] = "run" /\ Len(pubCh[n]) < ChanCap
                      THEN [pubCh EXCEPT ![n] = Append(@, c.event)] ELSE pubCh
    BY <1>2 DEF SendToPublisher
  <2>2. pubCh' = pubCh \/ pubCh' = [pubCh EXCEPT ![n] = Append(pubCh[n], c.event)]
    BY <2>1 DEF TypeOK
  <2>3. UNCHANGED <<hubSeq, sending, inbox, lru, merged, discarded, nextId, restarts>>
    BY <1>2 DEF SendToPublisher
  <2>4. Queued(n, c.event) /\ c.event \in Event
    BY <2>1, <2>2, <2>3, ServedSets DEF Queued
  <2> QED
    BY <2>4 DEF Effect
<1>3. ASSUME NEW n \in Nodes, SendToStream(n) PROVE Effect
  <2>1. PICK c \in calls[n] :
          /\ Served(n, c, "stream")
          /\ merged' = [merged EXCEPT ![n] = Append(@, c.event)]
    BY <1>3 DEF SendToStream
  <2>2. merged' = [merged EXCEPT ![n] = Append(merged[n], c.event)]
    BY <2>1 DEF TypeOK
  <2>3. UNCHANGED <<hubSeq, pubCh, sending, inbox, lru, discarded, nextId, restarts>>
    BY <1>3 DEF SendToStream
  <2>4. Shown(n, c.event) /\ c.event \in Event
    BY <2>1, <2>2, <2>3, ServedSets DEF Shown
  <2> QED
    BY <2>4 DEF Effect
<1>4. ASSUME NEW n \in Nodes, Take(n) PROVE Effect
  <2>1. Taken(n)
    BY <1>4 DEF Take, Taken, TypeOK
  <2> QED
    BY <2>1 DEF Effect
<1>5. ASSUME NEW n \in Nodes, NEW S \in SUBSET Nodes, Deliver(n, S),
             sending' = sending \/ sending' = [sending EXCEPT ![n] = <<>>],
             UNCHANGED <<hubSeq, calls, pubCh, lru, merged, discarded, nextId,
                         restarts>>
      PROVE  Effect
  <2>1. PICK f \in Event :
             /\ sending[n] = <<f>> /\ Range(sending[n]) = {f}
             /\ inbox' = [m \in Nodes |->
                            IF m \in S THEN Append(inbox[m], f) ELSE inbox[m]]
    BY <1>5, Delivered
  <2>2. Sent(n, f, S)
    BY <1>5, <2>1 DEF Sent
  <2> QED
    BY <2>2 DEF Effect
<1>c. Connected \in SUBSET Nodes /\ SUBSET Connected \subseteq SUBSET Nodes
  BY DEF Connected
<1>6. ASSUME NEW n \in Nodes, Forward(n) PROVE Effect
  <2>1. /\ Deliver(n, Connected) /\ sending' = [sending EXCEPT ![n] = <<>>]
        /\ UNCHANGED <<hubSeq, calls, pubCh, lru, merged, discarded, nextId, restarts>>
    BY <1>6 DEF Forward
  <2> QED
    BY <1>5, <1>c, <2>1
<1>7. ASSUME NEW n \in Nodes, NEW S \in SUBSET Connected, ForwardLossy(n, S)
      PROVE  Effect
  <2>1. /\ Deliver(n, S) /\ sending' = [sending EXCEPT ![n] = <<>>]
        /\ UNCHANGED <<hubSeq, calls, pubCh, lru, merged, discarded, nextId, restarts>>
    BY <1>7 DEF ForwardLossy
  <2>2. S \in SUBSET Nodes
    BY <1>c
  <2> QED
    BY <1>5, <2>1, <2>2
<1>8. ASSUME NEW n \in Nodes, ForwardReplyLost(n) PROVE Effect
  <2>1. /\ Deliver(n, Connected) /\ sending' = sending
        /\ UNCHANGED <<hubSeq, calls, pubCh, lru, merged, discarded, nextId, restarts>>
    BY <1>8 DEF ForwardReplyLost
  <2> QED
    BY <1>5, <1>c, <2>1
<1>9. ASSUME NEW n \in Nodes, Receive(n) PROVE Effect
  <2>1. inbox[n] # <<>> /\ (Dropped(n) \/ \E f \in Event : Admitted(n, f))
    BY <1>9, Received
  <2> QED
    BY <2>1 DEF Effect
<1>10. ASSUME NEW n \in Nodes, PublisherExit(n) \/ SubscriberExit(n) PROVE Effect
  <2>1. Abandoned(n)
    BY <1>10 DEF PublisherExit, SubscriberExit, Abandoned
  <2> QED
    BY <2>1 DEF Effect
<1>11. ASSUME NEW n \in Nodes,
             \/ PublisherSubscribe(n) \/ SubscriberSubscribe(n)
             \/ Stop(n) \/ StopReturn(n)
      PROVE  Effect
  <2>1. Still
    BY <1>11 DEF PublisherSubscribe, SubscriberSubscribe, Stop, StopReturn, Still
  <2> QED
    BY <2>1 DEF Effect
<1>12. ASSUME UNCHANGED vars PROVE Effect
  BY <1>12 DEF vars, bridgeVars, Still, Effect
<1>13. ASSUME NEW n \in Nodes, Restart(n) PROVE Effect
  BY <1>13 DEF Effect
<1>14. ASSUME Next PROVE Effect
  <2>1. PICK n \in Nodes :
            \/ \E c \in Clients : LocalEvent(n, c)
            \/ FanOut(n) \/ PublisherStep(n) \/ ForwardReplyLost(n)
            \/ \E S \in SUBSET Connected : ForwardLossy(n, S)
            \/ SubscriberStep(n) \/ Stop(n) \/ StopReturn(n) \/ Restart(n)
    BY <1>14 DEF Next
  <2>2. CASE PublisherStep(n)
    BY <1>4, <1>6, <1>10, <1>11, <2>2 DEF PublisherStep
  <2>3. CASE SubscriberStep(n)
    BY <1>9, <1>10, <1>11, <2>3 DEF SubscriberStep
  <2>4. CASE FanOut(n)
    BY <1>2, <1>3, <2>4 DEF FanOut
  <2> QED
    BY <1>1, <1>7, <1>8, <1>11, <1>13, <2>1, <2>2, <2>3, <2>4
<1>15. Next \/ UNCHANGED vars
  OBVIOUS
<1> QED
  BY <1>12, <1>14, <1>15

(* Copies are events some hub has stamped.                                 *)
LEMMA CopiesKnown ==
    ASSUME TypeOK, FromHub
    PROVE  /\ \A m \in Nodes : /\ InHub(m) \subseteq Event
                               /\ Range(inbox[m]) \subseteq Event
                               /\ Range(pubCh[m]) \subseteq Event
                               /\ Range(sending[m]) \subseteq Event
                               /\ Own(m) \subseteq InHub(m)
                               /\ \A e \in Own(m) : e.node = m
           /\ \A e \in Copies : /\ e \in Event /\ e.id < nextId
                                /\ \E m \in Nodes : e \in InHub(m) \cup Range(inbox[m])
           /\ nextId \in Nat
<1>1. /\ \A m \in Nodes : /\ InHub(m) \subseteq Event
                          /\ Range(inbox[m]) \subseteq Event
                          /\ Range(pubCh[m]) \subseteq Event
                          /\ Range(sending[m]) \subseteq Event
      /\ nextId \in Nat
  BY RangeTyped, CallsTyped DEF TypeOK, InHub
<1>2. \A m \in Nodes : /\ Own(m) \subseteq InHub(m)
                       /\ \A e \in Own(m) : e.node = m
  BY DEF FromHub, Own
<1>3. \A e \in Copies : \E m \in Nodes : e \in InHub(m) \cup Range(inbox[m])
  BY <1>2 DEF Copies
<1> QED
  BY <1>1, <1>2, <1>3 DEF FromHub

(* The events under way on n are of different origins, and only one of     *)
(* them is a peer's.                                                       *)
LEMMA CallsApart ==
    ASSUME Turns, NEW n \in Nodes,
           NEW e \in ToPublisher(n) \cup ToStream(n),
           NEW f \in ToPublisher(n) \cup ToStream(n),
           SameOrigin(e, f) \/ (e.node # n /\ f.node # n)
    PROVE  e = f
<1>1. PICK c \in calls[n] : c.event = e
  BY DEF ToPublisher, ToStream
<1>2. PICK d \in calls[n] : d.event = f
  BY DEF ToPublisher, ToStream
<1>3. c = d
  BY <1>1, <1>2 DEF Turns
<1> QED
  BY <1>1, <1>2, <1>3

LEMMA PeersAfterAppend ==
    ASSUME NEW s \in Seq(Event), NEW f \in Event, NEW n, NEW i \in 1..Len(s)
    PROVE  LET P == PeersAfter(s, n, i)
               Q == PeersAfter(Append(s, f), n, i)
           IN  /\ Cardinality(P) \in Nat
               /\ f.node = n => Q = P
               /\ f.node # n => Cardinality(Q) = Cardinality(P) + 1
<1> DEFINE P == PeersAfter(s, n, i)
           t == Append(s, f)
           Q == PeersAfter(t, n, i)
<1>1. /\ Len(s) \in Nat /\ Len(t) = Len(s) + 1 /\ t[Len(s) + 1] = f
      /\ \A k \in 1..Len(s) : t[k] = s[k]
  BY Appended
<1> HIDE DEF t
<1>2. P \subseteq (i + 1)..Len(s) /\ IsFiniteSet((i + 1)..Len(s))
  <2>1. P \subseteq (i + 1)..Len(s)
    BY DEF PeersAfter
  <2>2. i + 1 \in Int /\ Len(s) \in Int
    BY <1>1
  <2> QED
    BY <2>1, <2>2, FS_Interval
<1>3. IsFiniteSet(P) /\ Cardinality(P) \in Nat
  BY <1>2, FS_Subset, FS_CardinalityType
<1>4. \A k : k \in (i + 1)..(Len(s) + 1) <=> k \in (i + 1)..Len(s) \/ k = Len(s) + 1
  BY <1>1
<1>5. \A k \in (i + 1)..Len(s) : t[k] = s[k] /\ k # Len(s) + 1
  BY <1>1
<1>6. ASSUME f.node = n PROVE Q = P
  BY <1>1, <1>4, <1>5, <1>6 DEF PeersAfter
<1>7. ASSUME f.node # n PROVE Cardinality(Q) = Cardinality(P) + 1
  <2>1. Q = P \cup {Len(s) + 1}
    BY <1>1, <1>4, <1>5, <1>7 DEF PeersAfter
  <2>2. Len(s) + 1 \notin P
    BY <1>5 DEF PeersAfter
  <2> HIDE DEF P, Q
  <2> QED
    BY <1>3, <2>1, <2>2, FS_AddElement
<1> QED
  BY <1>3, <1>6, <1>7 DEF t

LEMMA PeersAfterLast ==
    ASSUME NEW s \in Seq(Event), NEW n
    PROVE  Cardinality(PeersAfter(s, n, Len(s))) = 0
<1>1. PeersAfter(s, n, Len(s)) = {}
  BY DEF PeersAfter
<1> QED
  BY <1>1, FS_EmptySet

(* An event may be appended when no copy of it stands among the last       *)
(* LruCap peer events.                                                     *)
LEMMA DedupAppend ==
    ASSUME TypeOK, DedupWindow, NEW n \in Nodes, NEW f \in Event,
           merged'[n] = Append(merged[n], f),
           \A m \in Nodes \ {n} : merged'[m] = merged[m],
           \A i \in DOMAIN merged[n] : merged[n][i].id = f.id =>
               /\ merged[n][i].node # n
               /\ Cardinality(PeersAfter(merged[n], n, i)) >= LruCap
    PROVE  DedupWindow'
<1> SUFFICES ASSUME NEW m \in Nodes, NEW i \in DOMAIN merged'[m],
                    NEW j \in DOMAIN merged'[m], i < j,
                    merged'[m][i].id = merged'[m][j].id
             PROVE  /\ merged'[m][i].node # m
                    /\ Cardinality(PeerMergesBetween(m, i, j)') >= LruCap
  BY DEF DedupWindow
<1>1. CASE m # n
  <2>1. merged'[m] = merged[m]
    BY <1>1
  <2>2. PeerMergesBetween(m, i, j)' = PeerMergesBetween(m, i, j)
    BY <2>1 DEF PeerMergesBetween
  <2> QED
    BY <2>1, <2>2 DEF DedupWindow
<1>2. CASE m = n
  <2> DEFINE s == merged[n]
             t == Append(s, f)
  <2>1. /\ s \in Seq(Event) /\ Len(s) \in Nat /\ DOMAIN s = 1..Len(s)
        /\ DOMAIN t = 1..(Len(s) + 1) /\ t[Len(s) + 1] = f
        /\ \A k \in 1..Len(s) : t[k] = s[k]
    <3>1. s \in Seq(Event)
      BY DEF TypeOK
    <3> HIDE DEF s
    <3>2. Len(s) \in Nat /\ DOMAIN s = 1..Len(s)
      BY <3>1
    <3> QED
      BY <3>1, <3>2, Appended
  <2>2. merged'[m] = t
    BY <1>2
  <2> HIDE DEF s, t
  <2>3. i \in 1..Len(s) /\ i \in DOMAIN s /\ t[i] = s[i]
    BY <2>1, <2>2
  <2>4. PeerMergesBetween(m, i, j)' = {k \in (i + 1)..(j - 1) : t[k].node # n}
    BY <1>2, <2>2 DEF PeerMergesBetween
  <2>5. \A k \in (i + 1)..(j - 1) : k \in 1..Len(s) /\ t[k] = s[k]
    BY <2>1, <2>2, <2>3
  <2>6. PeerMergesBetween(m, i, j)' = {k \in (i + 1)..(j - 1) : s[k].node # n}
    BY <2>4, <2>5
  <2>7. CASE j \in 1..Len(s)
    <3>1. t[j] = s[j] /\ j \in DOMAIN s
      BY <2>1, <2>7
    <3>2. PeerMergesBetween(m, i, j)' = PeerMergesBetween(n, i, j)
      BY <2>6 DEF PeerMergesBetween, s
    <3>3. s[i].id = s[j].id
      BY <2>2, <2>3, <3>1
    <3>4. /\ s[i].node # n
          /\ Cardinality(PeerMergesBetween(n, i, j)) >= LruCap
      BY <2>3, <3>1, <3>3 DEF DedupWindow, s
    <3> QED
      BY <1>2, <2>2, <2>3, <3>2, <3>4
  <2>8. CASE j = Len(s) + 1
    <3>1. s[i].id = f.id
      BY <2>1, <2>2, <2>3, <2>8
    <3>2. j - 1 = Len(s)
      BY <2>1, <2>8
    <3>3. PeerMergesBetween(m, i, j)' = PeersAfter(s, n, i)
      BY <2>6, <3>2 DEF PeersAfter
    <3>4. /\ s[i].node # n
          /\ Cardinality(PeersAfter(s, n, i)) >= LruCap
      BY <2>3, <3>1 DEF s
    <3> QED
      BY <1>2, <2>2, <2>3, <3>3, <3>4
  <2> QED
    BY <2>1, <2>2, <2>7, <2>8
<1> QED
  BY <1>1, <1>2

LEMMA ShownGrows ==
    ASSUME TypeOK, NEW n \in Nodes, NEW f \in Event,
           merged'[n] = Append(merged[n], f)
    PROVE  /\ DOMAIN merged[n] \subseteq DOMAIN merged'[n]
           /\ \A i \in DOMAIN merged[n] : merged'[n][i] = merged[n][i]
           /\ ShownIds(n) \subseteq ShownIds(n)'
<1>1. /\ DOMAIN merged[n] = 1..Len(merged[n]) /\ Len(merged[n]) \in Nat
      /\ DOMAIN merged'[n] = 1..(Len(merged[n]) + 1)
      /\ \A i \in 1..Len(merged[n]) : merged'[n][i] = merged[n][i]
      /\ Range(merged'[n]) = Range(merged[n]) \cup {f}
  BY Appended DEF TypeOK
<1>2. ShownIds(n) \subseteq ShownIds(n)'
  BY <1>1 DEF ShownIds
<1> QED
  BY <1>1, <1>2

(* What the hubs have stamped keeps naming the events by their Seq.        *)
LEMMA KeysKept ==
    ASSUME TypeOK, KeysNameEvents,
           \A m \in Nodes : /\ InHub(m) \subseteq InHub(m)'
                            /\ ShownIds(m) \subseteq ShownIds(m)'
                            /\ Range(inbox'[m]) \subseteq Range(inbox[m]),
           UNCHANGED <<lru, discarded, restarts>>
    PROVE  KeysNameEvents'
<1>1. ASSUME NEW m \in Nodes
      PROVE  Range(inbox[m]) \subseteq Event /\ Range(lru[m]) \subseteq Key
  BY RangeTyped DEF TypeOK
<1>2. /\ \A e \in Event : e.node \in Nodes
      /\ \A k \in Key : k.node \in Nodes
  BY DEF Event, Key
<1> SUFFICES ASSUME restarts = 0, NEW m \in Nodes
             PROVE  /\ \A e \in Range(inbox'[m]) : e \in InHub(e.node)'
                    /\ \A k \in Range(lru[m]) :
                         \E f \in InHub(k.node)', g \in InHub(m)' :
                            f.seq = k.seq /\ g.id = f.id
                    /\ discarded[m] \subseteq ShownIds(m)'
  BY DEF KeysNameEvents, InHub, ToStream, ShownIds
<1>3. \A e \in Range(inbox'[m]) : e \in InHub(e.node)'
  BY <1>1, <1>2 DEF KeysNameEvents
<1>4. ASSUME NEW k \in Range(lru[m])
      PROVE  \E f \in InHub(k.node)', g \in InHub(m)' : f.seq = k.seq /\ g.id = f.id
  <2>1. PICK f \in InHub(k.node), g \in InHub(m) : f.seq = k.seq /\ g.id = f.id
    BY DEF KeysNameEvents
  <2>2. k.node \in Nodes
    BY <1>1, <1>2
  <2>3. f \in InHub(k.node)' /\ g \in InHub(m)'
    BY <2>1, <2>2
  <2> QED
    BY <2>1, <2>3
<1>5. discarded[m] \subseteq ShownIds(m)'
  BY DEF KeysNameEvents
<1> QED
  BY <1>3, <1>4, <1>5

----------------------------------------------------------------------------
(* Each kind of step keeps the events in order and their copies known.     *)

(* A step that adds nothing to a hub or an inbox.                          *)
LEMMA OrderKept ==
    ASSUME InOrder,
           \A m \in Nodes :
             /\ Ordered(merged'[m]) /\ Ordered(inbox'[m]) /\ Ordered(pubCh'[m])
             /\ Range(merged'[m]) \subseteq Range(merged[m])
             /\ Range(inbox'[m]) \subseteq Range(inbox[m])
             /\ Range(pubCh'[m]) \subseteq Range(pubCh[m])
             /\ ToStream(m)' \subseteq ToStream(m)
             /\ ToPublisher(m)' \subseteq ToPublisher(m)
             /\ Own(m)' \subseteq Own(m)
             /\ Before(Range(sending'[m]), Range(pubCh'[m]) \cup ToPublisher(m)')
    PROVE  InOrder'
<1>1. \A m \in Nodes : InHub(m)' \subseteq InHub(m)
  BY DEF InHub
<1>2. ASSUME NEW A, NEW B, NEW C, NEW D, A \subseteq C, B \subseteq D, Before(C, D)
      PROVE  Before(A, B)
  BY <1>2 DEF Before
<1> SUFFICES ASSUME NEW m \in Nodes
             PROVE  /\ Ordered(merged'[m]) /\ Ordered(inbox'[m]) /\ Ordered(pubCh'[m])
                    /\ Before(Range(merged'[m]), ToStream(m)')
                    /\ Before(Range(pubCh'[m]), ToPublisher(m)')
                    /\ Before(Range(sending'[m]), Range(pubCh'[m]) \cup ToPublisher(m)')
                    /\ Before({e \in InHub(m)' : e.node # m}, Range(inbox'[m]))
                    /\ \A o \in Nodes :
                        /\ Before(Range(inbox'[m]), Own(o)')
                        /\ o # m => Before(InHub(m)', Own(o)')
  BY DEF InOrder, Ordered, Before
<1>3. Before(Range(merged'[m]), ToStream(m)') /\ Before(Range(pubCh'[m]), ToPublisher(m)')
  BY <1>2 DEF InOrder
<1>4. Before({e \in InHub(m)' : e.node # m}, Range(inbox'[m]))
  <2> DEFINE A == {e \in InHub(m)' : e.node # m}
             C == {e \in InHub(m) : e.node # m}
             B == Range(inbox'[m])
             D == Range(inbox[m])
  <2>1. A \subseteq C
    BY <1>1
  <2>2. Before(C, D) /\ B \subseteq D
    BY DEF InOrder
  <2> HIDE DEF A, B, C, D
  <2>3. Before(A, B)
    BY <1>2, <2>1, <2>2
  <2> QED
    BY <2>3 DEF A, B
<1>5. ASSUME NEW o \in Nodes
      PROVE  /\ Before(Range(inbox'[m]), Own(o)')
             /\ o # m => Before(InHub(m)', Own(o)')
  BY <1>1, <1>2 DEF InOrder
<1> QED
  BY <1>3, <1>4, <1>5

(* A step that makes no new copies and shows nothing.                      *)
LEMMA Forgetting ==
    ASSUME TypeOK, OneEvent, Window, Fresh, DedupWindow, Stamped,
           Known' \subseteq Known, Copies' \subseteq Copies,
           \A m \in Nodes :
             \/ /\ merged'[m] = merged[m] /\ lru'[m] = lru[m]
                /\ hubSeq'[m] = hubSeq[m] /\ ToStream(m)' = ToStream(m)
             \/ merged'[m] = <<>> /\ ToStream(m)' = {}
    PROVE  OneEvent' /\ Window' /\ Fresh' /\ DedupWindow' /\ Stamped'
<1>1. OneEvent'
  BY DEF OneEvent
<1>2. DOMAIN <<>> = {} /\ Range(<<>>) = {}
  BY RangeOfEmpty
<1>3. Window'
  <2> SUFFICES ASSUME NEW m \in Nodes, NEW e \in Copies, e.node # m
               PROVE  /\ \A i \in DOMAIN merged'[m] : merged'[m][i].id = e.id =>
                            \/ Later(m, i)' >= LruCap
                            \/ Remembered(lru'[m], KeyOf(e), Later(m, i)')
                      /\ \A f \in ToStream(m)' :
                            f.id = e.id => Remembered(lru'[m], KeyOf(e), 0)
    BY DEF Window, KeyOf, Remembered
  <2>1. CASE /\ merged'[m] = merged[m] /\ lru'[m] = lru[m]
             /\ ToStream(m)' = ToStream(m)
    <3>1. \A i : Later(m, i)' = Later(m, i)
      BY <2>1 DEF Later, PeersAfter, Pending
    <3> QED
      BY <2>1, <3>1 DEF Window
  <2>2. CASE merged'[m] = <<>> /\ ToStream(m)' = {}
    BY <1>2, <2>2
  <2> QED
    BY <2>1, <2>2
<1>4. Fresh'
  <2> SUFFICES ASSUME NEW m \in Nodes, NEW f \in ToStream(m)',
                      NEW i \in DOMAIN merged'[m], merged'[m][i].id = f.id
               PROVE  /\ merged'[m][i].node # m
                      /\ Cardinality(PeersAfter(merged'[m], m, i)) >= LruCap
    BY DEF Fresh, PeersAfter
  <2>1. merged'[m] = merged[m] /\ f \in ToStream(m)
    BY <1>2
  <2> QED
    BY <2>1 DEF Fresh
<1>5. DedupWindow'
  <2> SUFFICES ASSUME NEW m \in Nodes, NEW i \in DOMAIN merged'[m],
                      NEW j \in DOMAIN merged'[m], i < j,
                      merged'[m][i].id = merged'[m][j].id
               PROVE  /\ merged'[m][i].node # m
                      /\ Cardinality(PeerMergesBetween(m, i, j)') >= LruCap
    BY DEF DedupWindow
  <2>1. merged'[m] = merged[m]
    BY <1>2
  <2>2. PeerMergesBetween(m, i, j)' = PeerMergesBetween(m, i, j)
    BY <2>1 DEF PeerMergesBetween
  <2> QED
    BY <2>1, <2>2 DEF DedupWindow
<1>6. Stamped'
  <2> SUFFICES ASSUME NEW m \in Nodes
               PROVE  /\ \A e \in InHub(m)' : e.seq <= hubSeq'[m]
                      /\ \A e, f \in InHub(m)' : e.seq = f.seq => e = f
    BY DEF Stamped
  <2>1. CASE /\ merged'[m] = merged[m] /\ hubSeq'[m] = hubSeq[m]
             /\ ToStream(m)' = ToStream(m)
    <3>1. InHub(m)' = InHub(m)
      BY <2>1 DEF InHub
    <3> QED
      BY <2>1, <3>1 DEF Stamped
  <2>2. CASE merged'[m] = <<>> /\ ToStream(m)' = {}
    <3>1. InHub(m)' = {}
      BY <1>2, <2>2 DEF InHub
    <3> QED
      BY <3>1
  <2> QED
    BY <2>1, <2>2
<1> QED
  BY <1>1, <1>3, <1>4, <1>5, <1>6

(* A new stamp of n, f, is a Seq that no other event of n's hub has.       *)
LEMMA StampedKept ==
    ASSUME TypeOK, Stamped, NEW n \in Nodes, NEW f \in Event, Stamps(n, f),
           UNCHANGED merged
    PROVE  /\ Stamped' /\ InHub(n)' = InHub(n) \cup {f}
           /\ \A m \in Nodes \ {n} : InHub(m)' = InHub(m)
<1>1. InHub(n)' = InHub(n) \cup {f} /\ \A m \in Nodes \ {n} : InHub(m)' = InHub(m)
  BY StampedSets DEF InHub
<1>2. /\ hubSeq'[n] = hubSeq[n] + 1 /\ f.seq = hubSeq[n] + 1 /\ hubSeq[n] \in Nat
      /\ \A m \in Nodes \ {n} : hubSeq'[m] = hubSeq[m]
  BY DEF Stamps, TypeOK
<1>3. \A e \in InHub(n) : e.seq <= hubSeq[n] /\ e.seq \in Nat
  <2>1. InHub(n) \subseteq Event
    BY RangeTyped, CallsTyped DEF InHub, TypeOK
  <2> QED
    BY <2>1 DEF Stamped, Event
<1>4. \A e \in InHub(n) : e.seq # f.seq /\ e.seq <= hubSeq'[n]
  BY <1>2, <1>3
<1>5. \A e \in InHub(n)' : e.seq <= hubSeq'[n]
  BY <1>1, <1>2, <1>4
<1>6. \A e, d \in InHub(n)' : e.seq = d.seq => e = d
  BY <1>1, <1>4 DEF Stamped
<1>7. Stamped'
  BY <1>1, <1>2, <1>5, <1>6 DEF Stamped
<1> QED
  BY <1>1, <1>7

DataInv ==
    /\ FromHub /\ InOrder /\ OneEvent /\ Window /\ Fresh /\ DedupWindow /\ Stamped
    /\ KeysNameEvents

LEMMA ProducedKeeps ==
    ASSUME TypeOK, DataInv, NEW n \in Nodes, NEW f \in Event, Produced(n, f)
    PROVE  DataInv'
<1> USE DEF DataInv
<1>0. /\ f.node = n /\ f.id = nextId /\ nextId' = nextId + 1 /\ Stamps(n, f)
      /\ UNCHANGED <<pubCh, sending, inbox, lru, merged, discarded, restarts>>
  BY DEF Produced
<1>1. /\ ToPublisher(n)' = ToPublisher(n) \cup {f}
      /\ ToStream(n)' = ToStream(n) \cup {f}
      /\ InHub(n)' = InHub(n) \cup {f} /\ Stamped'
      /\ \A m \in Nodes \ {n} : /\ ToPublisher(m)' = ToPublisher(m)
                                /\ ToStream(m)' = ToStream(m)
                                /\ InHub(m)' = InHub(m)
  BY <1>0, StampedSets, StampedKept
<1>2. /\ \A m \in Nodes : /\ Own(m) \subseteq InHub(m)
                          /\ \A e \in Own(m) : e.node = m
                          /\ \A e \in InHub(m) \cup Range(inbox[m]) :
                               e.id \in Nat /\ e.id < nextId
      /\ \A e \in Copies : e.id < nextId
      /\ \A e \in Known : e.id < nextId
      /\ nextId \in Nat
  <2>1. \A e \in Event : e.id \in Nat
    BY DEF Event
  <2> QED
    BY <2>1, CopiesKnown DEF FromHub, Known
<1>3. \A m \in Nodes : \A e \in InHub(m) \cup Range(inbox[m]) : e.id <= f.id /\ e.id # f.id
  BY <1>0, <1>2
<1>4. \A m \in Nodes : /\ Own(m)' \subseteq Own(m) \cup {f}
                       /\ m # n => Own(m)' = Own(m)
  BY <1>0, <1>1 DEF Own
<1>5. FromHub'
  <2> SUFFICES ASSUME NEW m \in Nodes
               PROVE  /\ Range(pubCh[m]) \cup ToPublisher(m)' \subseteq InHub(m)'
                      /\ Range(sending[m]) \subseteq InHub(m)'
                      /\ \A e \in Range(sending[m]) : e.node = m
                      /\ \A e \in InHub(m)' \cup Range(inbox[m]) : e.id < nextId'
    BY <1>0 DEF FromHub
  <2>1. \A e \in InHub(m)' \cup Range(inbox[m]) : e.id < nextId'
    <3>1. \A e \in InHub(m)' \cup Range(inbox[m]) :
             e = f \/ e \in InHub(m) \cup Range(inbox[m])
      BY <1>1
    <3>2. f.id < nextId'
      BY <1>0, <1>2
    <3> QED
      BY <1>0, <1>2, <3>1, <3>2
  <2> QED
    BY <1>1, <2>1 DEF FromHub
<1>6. InOrder'
  <2>1. \A m \in Nodes : Range(merged[m]) \subseteq InHub(m)
    BY DEF InHub
  <2>2. /\ Before(Range(merged[n]), ToStream(n)')
        /\ Before(Range(pubCh[n]), ToPublisher(n)')
        /\ Before(Range(sending[n]), Range(pubCh[n]) \cup ToPublisher(n)')
    BY <1>1, <1>3, <2>1 DEF InOrder, Before, FromHub
  <2>3. Before({e \in InHub(n)' : e.node # n}, Range(inbox[n]))
    BY <1>0, <1>1 DEF InOrder, Before
  <2>4. ASSUME NEW m \in Nodes
        PROVE  /\ Before(Range(inbox[m]), Own(n)')
               /\ m # n => Before(InHub(m), Own(n)')
    BY <1>3, <1>4 DEF InOrder, Before
  <2>5. ASSUME NEW m \in Nodes, m # n
        PROVE  Before(InHub(n)', Own(m))
    BY <1>0, <1>1, <1>2, <2>5 DEF InOrder, Before, SameOrigin
  <2> SUFFICES ASSUME NEW m \in Nodes
               PROVE  /\ Ordered(merged[m]) /\ Ordered(inbox[m]) /\ Ordered(pubCh[m])
                      /\ Before(Range(merged[m]), ToStream(m)')
                      /\ Before(Range(pubCh[m]), ToPublisher(m)')
                      /\ Before(Range(sending[m]), Range(pubCh[m]) \cup ToPublisher(m)')
                      /\ Before({e \in InHub(m)' : e.node # m}, Range(inbox[m]))
                      /\ \A o \in Nodes :
                            /\ Before(Range(inbox[m]), Own(o)')
                            /\ o # m => Before(InHub(m)', Own(o)')
    BY <1>0 DEF InOrder, Ordered, Before
  <2>6. CASE m = n
    BY <1>4, <2>2, <2>3, <2>4, <2>5, <2>6 DEF InOrder
  <2>7. CASE m # n
    BY <1>1, <1>4, <2>4, <2>7 DEF InOrder
  <2> QED
    BY <2>6, <2>7
<1>7. Known' \subseteq Known \cup {f} /\ Copies' \subseteq Copies \cup {f}
  <2>1. \A m \in Nodes : /\ InHub(m)' \subseteq InHub(m) \cup {f}
                         /\ Range(inbox'[m]) = Range(inbox[m])
                         /\ Own(m)' \subseteq Own(m) \cup {f}
    BY <1>0, <1>1, <1>4
  <2>2. Known' \subseteq Known \cup {f}
    BY <2>1 DEF Known
  <2>3. Copies' \subseteq Copies \cup {f}
    BY <2>1 DEF Copies
  <2> QED
    BY <2>2, <2>3
<1>8. \A e \in Known \cup Copies : e.id # f.id
  BY <1>0, <1>2
<1>9. OneEvent'
  BY <1>7, <1>8 DEF OneEvent, SameOrigin
<1>10. \A m \in Nodes : \A i : Later(m, i)' = Later(m, i)
  <2>1. \A m \in Nodes : Pending(m)' = Pending(m)
    BY <1>0, <1>1 DEF Pending
  <2> QED
    BY <1>0, <2>1 DEF Later, PeersAfter
<1>11. \A m \in Nodes : /\ \A i \in DOMAIN merged[m] : merged[m][i] \in Known
                        /\ ToStream(m) \subseteq Known
  BY DEF Known, InHub, Range
<1>12. Window'
  <2> SUFFICES ASSUME NEW m \in Nodes, NEW e \in Copies', e.node # m
               PROVE  /\ \A i \in DOMAIN merged[m] : merged[m][i].id = e.id =>
                            \/ Later(m, i) >= LruCap
                            \/ Remembered(lru[m], KeyOf(e), Later(m, i))
                      /\ \A g \in ToStream(m)' :
                            g.id = e.id => Remembered(lru[m], KeyOf(e), 0)
    BY <1>0, <1>10 DEF Window, KeyOf, Remembered
  <2>1. CASE e = f
    BY <1>0, <1>1, <1>8, <1>11, <2>1
  <2>2. CASE e \in Copies
    <3>1. \A g \in ToStream(m)' : g.id = e.id => g \in ToStream(m)
      BY <1>1, <1>8, <2>2
    <3> QED
      BY <2>2, <3>1 DEF Window
  <2> QED
    BY <1>7, <2>1, <2>2
<1>13. Fresh'
  <2> SUFFICES ASSUME NEW m \in Nodes, NEW g \in ToStream(m)',
                      NEW i \in DOMAIN merged[m], merged[m][i].id = g.id
               PROVE  /\ merged[m][i].node # m
                      /\ Cardinality(PeersAfter(merged[m], m, i)) >= LruCap
    BY <1>0 DEF Fresh, PeersAfter
  <2>1. g \in ToStream(m)
    BY <1>1, <1>8, <1>11
  <2> QED
    BY <2>1 DEF Fresh
<1>14. DedupWindow'
  BY <1>0 DEF DedupWindow, PeerMergesBetween
<1>15. KeysNameEvents'
  <2>1. \A m \in Nodes : /\ InHub(m) \subseteq InHub(m)'
                         /\ ShownIds(m) \subseteq ShownIds(m)'
                         /\ Range(inbox'[m]) \subseteq Range(inbox[m])
    BY <1>0, <1>1 DEF ShownIds
  <2> QED
    BY <1>0, <2>1, KeysKept
<1> QED
  BY <1>1, <1>5, <1>6, <1>9, <1>12, <1>13, <1>14, <1>15

LEMMA QueuedKeeps ==
    ASSUME TypeOK, Turns, DataInv, NEW n \in Nodes, NEW f \in Event, Queued(n, f)
    PROVE  DataInv'
<1> USE DEF DataInv
<1>0. /\ f \in ToPublisher(n) /\ ToPublisher(n)' = ToPublisher(n) \ {f}
      /\ \A m \in Nodes \ {n} : ToPublisher(m)' = ToPublisher(m)
      /\ \A m \in Nodes : ToStream(m)' = ToStream(m)
      /\ UNCHANGED <<hubSeq, sending, inbox, lru, merged, discarded, nextId, restarts>>
  BY DEF Queued
<1>1. /\ \A m \in Nodes \ {n} : pubCh'[m] = pubCh[m]
      /\ pubCh'[n] = pubCh[n] \/ pubCh'[n] = Append(pubCh[n], f)
  BY DEF Queued, TypeOK
<1>2. /\ Range(pubCh'[n]) \subseteq Range(pubCh[n]) \cup {f}
      /\ Ordered(pubCh'[n])
  <2>1. Before(Range(pubCh[n]), {f})
    BY <1>0 DEF InOrder, Before
  <2>2. pubCh[n] \in Seq(Event) /\ Ordered(pubCh[n])
    BY DEF TypeOK, InOrder
  <2>3. Range(Append(pubCh[n], f)) = Range(pubCh[n]) \cup {f} /\ Ordered(Append(pubCh[n], f))
    BY <2>1, <2>2, Appended, OrderedAppend
  <2> QED
    BY <1>1, <2>2, <2>3
<1>3. \A m \in Nodes : InHub(m)' = InHub(m)
  BY <1>0 DEF InHub
<1>4. \A m \in Nodes : /\ Range(pubCh'[m]) \cup ToPublisher(m)'
                            \subseteq Range(pubCh[m]) \cup ToPublisher(m)
                       /\ Ordered(pubCh'[m])
  BY <1>0, <1>1, <1>2 DEF InOrder
<1>5. \A m \in Nodes : Own(m)' \subseteq Own(m)
  BY <1>0, <1>4 DEF Own
<1>6. FromHub'
  BY <1>0, <1>3, <1>4 DEF FromHub
<1>7. Before(Range(pubCh'[n]), ToPublisher(n)')
  <2>1. Before({f}, ToPublisher(n)')
    <3> SUFFICES ASSUME NEW g \in ToPublisher(n), SameOrigin(f, g)
                 PROVE  f.id <= g.id
      BY <1>0 DEF Before
    <3>1. f = g
      BY <1>0, CallsApart
    <3> QED
      BY <3>1 DEF Event
  <2> QED
    BY <1>0, <1>2, <2>1 DEF InOrder, Before
<1>8. InOrder'
  <2> SUFFICES ASSUME NEW m \in Nodes
               PROVE  /\ Ordered(merged[m]) /\ Ordered(inbox[m]) /\ Ordered(pubCh'[m])
                      /\ Before(Range(merged[m]), ToStream(m))
                      /\ Before(Range(pubCh'[m]), ToPublisher(m)')
                      /\ Before(Range(sending[m]), Range(pubCh'[m]) \cup ToPublisher(m)')
                      /\ Before({e \in InHub(m) : e.node # m}, Range(inbox[m]))
                      /\ \A o \in Nodes :
                            /\ Before(Range(inbox[m]), Own(o)')
                            /\ o # m => Before(InHub(m), Own(o)')
    BY <1>0, <1>3 DEF InOrder, Ordered, Before
  <2>1. Before(Range(pubCh'[m]), ToPublisher(m)')
    BY <1>0, <1>1, <1>7 DEF InOrder
  <2>2. Before(Range(sending[m]), Range(pubCh'[m]) \cup ToPublisher(m)')
    BY <1>4 DEF InOrder, Before
  <2>3. ASSUME NEW o \in Nodes
        PROVE  /\ Before(Range(inbox[m]), Own(o)')
               /\ o # m => Before(InHub(m), Own(o)')
    BY <1>5 DEF InOrder, Before
  <2> QED
    BY <1>4, <2>1, <2>2, <2>3 DEF InOrder
<1>9. Known' \subseteq Known /\ Copies' \subseteq Copies
  BY <1>0, <1>3, <1>5 DEF Known, Copies
<1>10. OneEvent' /\ Window' /\ Fresh' /\ DedupWindow' /\ Stamped'
  BY <1>0, <1>9, Forgetting
<1>11. KeysNameEvents'
  <2>1. \A m \in Nodes : /\ InHub(m) \subseteq InHub(m)'
                         /\ ShownIds(m) \subseteq ShownIds(m)'
                         /\ Range(inbox'[m]) \subseteq Range(inbox[m])
    BY <1>0, <1>3 DEF ShownIds
  <2> QED
    BY <1>0, <2>1, KeysKept
<1> QED
  BY <1>6, <1>8, <1>10, <1>11

LEMMA ShownKeeps ==
    ASSUME TypeOK, Turns, DataInv, NEW n \in Nodes, NEW f \in Event, Shown(n, f)
    PROVE  DataInv'
<1> USE DEF DataInv
<1>0. /\ f \in ToStream(n) /\ ToStream(n)' = ToStream(n) \ {f}
      /\ \A m \in Nodes \ {n} : ToStream(m)' = ToStream(m)
      /\ \A m \in Nodes : ToPublisher(m)' = ToPublisher(m)
      /\ UNCHANGED <<hubSeq, pubCh, sending, inbox, lru, discarded, nextId, restarts>>
  BY DEF Shown
<1>1. /\ merged'[n] = Append(merged[n], f)
      /\ \A m \in Nodes \ {n} : merged'[m] = merged[m]
  BY DEF Shown, TypeOK
<1>2. /\ Range(merged'[n]) = Range(merged[n]) \cup {f}
      /\ merged[n] \in Seq(Event) /\ DOMAIN merged'[n] = 1..(Len(merged[n]) + 1)
      /\ Len(merged[n]) \in Nat /\ DOMAIN merged[n] = 1..Len(merged[n])
      /\ merged'[n][Len(merged[n]) + 1] = f
      /\ \A k \in 1..Len(merged[n]) : merged'[n][k] = merged[n][k]
  <2>1. merged[n] \in Seq(Event)
    BY DEF TypeOK
  <2>2. Len(merged[n]) \in Nat /\ DOMAIN merged[n] = 1..Len(merged[n])
    BY <2>1
  <2> QED
    BY <1>1, <2>1, <2>2, Appended
<1>3. \A m \in Nodes : InHub(m)' = InHub(m)
  <2>1. InHub(n)' = InHub(n)
    BY <1>0, <1>2 DEF InHub
  <2> QED
    BY <1>0, <1>1, <2>1 DEF InHub
<1>4. \A m \in Nodes : Own(m)' = Own(m)
  BY <1>0 DEF Own
<1>5. Known' = Known /\ Copies' = Copies
  BY <1>0, <1>3, <1>4 DEF Known, Copies
<1>6. FromHub'
  BY <1>0, <1>3 DEF FromHub
<1>7. /\ Ordered(merged'[n]) /\ Before(Range(merged'[n]), ToStream(n)')
  <2>1. Before(Range(merged[n]), {f}) /\ Ordered(merged[n])
    BY <1>0 DEF InOrder, Before
  <2>2. Ordered(merged'[n])
    BY <1>1, <1>2, <2>1, OrderedAppend
  <2>3. Before({f}, ToStream(n)')
    <3> SUFFICES ASSUME NEW g \in ToStream(n), SameOrigin(f, g)
                 PROVE  f.id <= g.id
      BY <1>0 DEF Before
    <3>1. f = g
      BY <1>0, CallsApart
    <3> QED
      BY <3>1 DEF Event
  <2> QED
    BY <1>0, <1>2, <2>2, <2>3 DEF InOrder, Before
<1>8. InOrder'
  <2> SUFFICES ASSUME NEW m \in Nodes
               PROVE  /\ Ordered(merged'[m]) /\ Ordered(inbox[m]) /\ Ordered(pubCh[m])
                      /\ Before(Range(merged'[m]), ToStream(m)')
                      /\ Before(Range(pubCh[m]), ToPublisher(m))
                      /\ Before(Range(sending[m]), Range(pubCh[m]) \cup ToPublisher(m))
                      /\ Before({e \in InHub(m) : e.node # m}, Range(inbox[m]))
                      /\ \A o \in Nodes :
                            /\ Before(Range(inbox[m]), Own(o))
                            /\ o # m => Before(InHub(m), Own(o))
    BY <1>0, <1>3, <1>4 DEF InOrder, Ordered, Before
  <2>1. Ordered(merged'[m]) /\ Before(Range(merged'[m]), ToStream(m)')
    BY <1>0, <1>1, <1>7 DEF InOrder
  <2> QED
    BY <2>1 DEF InOrder
<1>9. OneEvent'
  BY <1>5 DEF OneEvent
<1>10. ASSUME NEW i \in DOMAIN merged[n]
       PROVE  /\ i \in 1..Len(merged[n]) /\ merged'[n][i] = merged[n][i]
              /\ LET c == Cardinality(PeersAfter(merged[n], n, i))
                     d == Cardinality(PeersAfter(merged'[n], n, i))
                 IN  /\ c \in Nat /\ d \in Nat /\ d >= c
                     /\ Later(n, i)' >= Later(n, i)
                     /\ Later(n, i) \in Nat /\ Later(n, i)' \in Nat
  <2> DEFINE c == Cardinality(PeersAfter(merged[n], n, i))
             d == Cardinality(PeersAfter(merged'[n], n, i))
  <2>1. i \in 1..Len(merged[n])
    BY <1>2
  <2>2. /\ c \in Nat /\ d \in Nat
        /\ f.node = n => d = c
        /\ f.node # n => d = c + 1
    BY <1>1, <1>2, <2>1, PeersAfterAppend
  <2>3. /\ Pending(n) \in {0, 1} /\ Pending(n)' \in {0, 1}
        /\ f.node = n => Pending(n)' = Pending(n)
    BY <1>0 DEF Pending
  <2>4. Later(n, i) = c + Pending(n) /\ Later(n, i)' = d + Pending(n)'
    BY DEF Later
  <2> HIDE DEF c, d
  <2>5. /\ d >= c /\ Later(n, i)' >= Later(n, i)
        /\ Later(n, i) \in Nat /\ Later(n, i)' \in Nat
    BY <2>2, <2>3, <2>4
  <2> QED
    BY <1>2, <2>1, <2>2, <2>5 DEF c, d
<1>11. Window'
  <2> SUFFICES ASSUME NEW m \in Nodes, NEW e \in Copies, e.node # m
               PROVE  /\ \A i \in DOMAIN merged'[m] : merged'[m][i].id = e.id =>
                            \/ Later(m, i)' >= LruCap
                            \/ Remembered(lru[m], KeyOf(e), Later(m, i)')
                      /\ \A g \in ToStream(m)' :
                            g.id = e.id => Remembered(lru[m], KeyOf(e), 0)
    BY <1>0, <1>5 DEF Window, KeyOf, Remembered
  <2>1. \A g \in ToStream(m)' : g.id = e.id => Remembered(lru[m], KeyOf(e), 0)
    BY <1>0 DEF Window
  <2>2. CASE m # n
    <3>1. merged'[m] = merged[m] /\ \A i : Later(m, i)' = Later(m, i)
      BY <1>0, <1>1, <2>2 DEF Later, PeersAfter, Pending
    <3> QED
      BY <2>1, <3>1 DEF Window
  <2>3. CASE m = n
    <3> SUFFICES ASSUME NEW i \in DOMAIN merged'[n], merged'[n][i].id = e.id
                 PROVE  \/ Later(n, i)' >= LruCap
                        \/ Remembered(lru[n], KeyOf(e), Later(n, i)')
      BY <2>1, <2>3
    <3>0. LruCap \in Nat /\ lru[n] \in Seq(Key) /\ Len(lru[n]) \in Nat
      BY CapAssumption DEF TypeOK
    <3>1. ASSUME NEW c \in Nat, NEW d \in Nat, d >= c, Remembered(lru[n], KeyOf(e), c)
          PROVE  Remembered(lru[n], KeyOf(e), d)
      <4>1. PICK p \in DOMAIN lru[n] : lru[n][p] = KeyOf(e) /\ c >= Len(lru[n]) - p
        BY <3>1 DEF Remembered
      <4>2. p \in Nat
        BY <3>0, <4>1
      <4>3. d >= Len(lru[n]) - p
        BY <3>0, <3>1, <4>1, <4>2
      <4> QED
        BY <4>1, <4>3 DEF Remembered
    <3>2. CASE i \in 1..Len(merged[n])
      <4>1. /\ i \in DOMAIN merged[n] /\ merged[n][i].id = e.id
            /\ Later(n, i)' >= Later(n, i)
            /\ Later(n, i) \in Nat /\ Later(n, i)' \in Nat
        BY <1>2, <1>10, <3>2
      <4>2. Later(n, i) >= LruCap \/ Remembered(lru[n], KeyOf(e), Later(n, i))
        BY <2>3, <4>1 DEF Window
      <4>3. CASE Later(n, i) >= LruCap
        BY <3>0, <4>1, <4>3
      <4>4. CASE Remembered(lru[n], KeyOf(e), Later(n, i))
        BY <3>1, <4>1, <4>4
      <4> QED
        BY <4>2, <4>3, <4>4
    <3>3. CASE i = Len(merged[n]) + 1
      <4>1. f.id = e.id
        BY <1>2, <3>3
      <4>2. Remembered(lru[n], KeyOf(e), 0)
        BY <1>0, <2>3, <4>1 DEF Window
      <4>3. Later(n, i)' \in Nat
        <5>1. PeersAfter(merged'[n], n, i) = {}
          <6>1. Len(merged'[n]) = Len(merged[n]) + 1
            BY <1>1, <1>2, Appended
          <6> QED
            BY <1>2, <3>3, <6>1 DEF PeersAfter
        <5>2. Pending(n)' \in {0, 1}
          BY DEF Pending
        <5> QED
          BY <5>1, <5>2, FS_EmptySet DEF Later
      <4> QED
        BY <3>1, <4>2, <4>3
    <3> QED
      BY <1>2, <3>2, <3>3
  <2> QED
    BY <2>2, <2>3
<1>12. \A i \in DOMAIN merged[n] : merged[n][i].id = f.id =>
            /\ merged[n][i].node # n
            /\ Cardinality(PeersAfter(merged[n], n, i)) >= LruCap
  BY <1>0 DEF Fresh
<1>13. DedupWindow'
  BY <1>1, <1>12, DedupAppend
<1>14. Fresh'
  <2> SUFFICES ASSUME NEW m \in Nodes, NEW g \in ToStream(m)',
                      NEW i \in DOMAIN merged'[m], merged'[m][i].id = g.id
               PROVE  /\ merged'[m][i].node # m
                      /\ Cardinality(PeersAfter(merged'[m], m, i)) >= LruCap
    BY DEF Fresh, PeersAfter
  <2>1. CASE m # n
    BY <1>0, <1>1, <2>1 DEF Fresh
  <2>2. CASE m = n
    <3>1. g \in ToStream(n) /\ g # f
      BY <1>0, <2>2
    <3>2. g.id # f.id
      <4>1. g \in Known /\ f \in Known
        BY <1>0, <3>1 DEF Known, InHub
      <4>2. ASSUME g.id = f.id PROVE FALSE
        <5>1. SameOrigin(g, f)
          BY <4>1, <4>2 DEF OneEvent
        <5>2. g = f
          BY <1>0, <3>1, <5>1, CallsApart
        <5> QED
          BY <3>1, <5>2
      <4> QED
        BY <4>2
    <3>3. i \in 1..Len(merged[n]) /\ i \in DOMAIN merged[n] /\ merged'[n][i] = merged[n][i]
      BY <1>2, <2>2, <3>2
    <3>4. /\ merged[n][i].node # n
          /\ Cardinality(PeersAfter(merged[n], n, i)) >= LruCap
      BY <2>2, <3>1, <3>3 DEF Fresh
    <3>5. Cardinality(PeersAfter(merged'[n], n, i)) >= LruCap
      <4> DEFINE c == Cardinality(PeersAfter(merged[n], n, i))
                 d == Cardinality(PeersAfter(merged'[n], n, i))
      <4>1. c \in Nat /\ d \in Nat /\ d >= c /\ c >= LruCap /\ LruCap \in Nat
        BY <1>10, <3>3, <3>4, CapAssumption
      <4> HIDE DEF c, d
      <4>2. d >= LruCap
        BY <4>1
      <4> QED
        BY <4>2 DEF d
    <3> QED
      BY <2>2, <3>3, <3>4, <3>5
  <2> QED
    BY <2>1, <2>2
<1>15. Stamped'
  BY <1>0, <1>3 DEF Stamped
<1>16. KeysNameEvents'
  <2>1. \A m \in Nodes : ShownIds(m) \subseteq ShownIds(m)'
    <3>1. ShownIds(n) \subseteq ShownIds(n)'
      BY <1>1, ShownGrows
    <3> QED
      BY <1>1, <3>1 DEF ShownIds
  <2>2. \A m \in Nodes : /\ InHub(m) \subseteq InHub(m)'
                         /\ ShownIds(m) \subseteq ShownIds(m)'
                         /\ Range(inbox'[m]) \subseteq Range(inbox[m])
    BY <1>0, <1>3, <2>1
  <2> QED
    BY <1>0, <2>2, KeysKept
<1> QED
  BY <1>6, <1>8, <1>9, <1>11, <1>13, <1>14, <1>15, <1>16

LEMMA TakenKeeps ==
    ASSUME TypeOK, DataInv, NEW n \in Nodes, Taken(n)
    PROVE  DataInv'
<1> USE DEF DataInv
<1> DEFINE h == Head(pubCh[n])
<1>0. UNCHANGED <<hubSeq, calls, inbox, lru, merged, discarded, nextId, restarts>>
  BY DEF Taken
<1>1. /\ pubCh'[n] = Tail(pubCh[n])
      /\ \A m \in Nodes \ {n} : pubCh'[m] = pubCh[m] /\ sending'[m] = sending[m]
      /\ sending'[n] = <<>> \/ (sending'[n] = <<h>> /\ h.node = n)
  <2>1. /\ pubCh'[n] = Tail(pubCh[n])
        /\ \A m \in Nodes \ {n} : pubCh'[m] = pubCh[m]
    BY DEF Taken, TypeOK
  <2>2. CASE sending' = sending
    BY <2>1, <2>2 DEF Taken
  <2>3. CASE h.node = n /\ sending' = [sending EXCEPT ![n] = <<h>>]
    <3>1. sending'[n] = <<h>> /\ \A m \in Nodes \ {n} : sending'[m] = sending[m]
      BY <2>3 DEF TypeOK
    <3> QED
      BY <2>1, <2>3, <3>1
  <2>4. \/ sending' = sending
        \/ h.node = n /\ sending' = [sending EXCEPT ![n] = <<h>>]
    BY DEF Taken
  <2> QED
    BY <2>2, <2>3, <2>4
<1>2. /\ Range(pubCh'[n]) \subseteq Range(pubCh[n]) /\ h \in Range(pubCh[n])
      /\ Ordered(pubCh'[n]) /\ Before({h}, Range(pubCh'[n]))
  <2>1. pubCh[n] \in Seq(Event) /\ pubCh[n] # <<>> /\ Ordered(pubCh[n])
    BY DEF Taken, TypeOK, InOrder
  <2> QED
    BY <1>1, <2>1, Tailed, OrderedTail
<1>3. Range(sending'[n]) \subseteq {h} /\ (Range(sending'[n]) # {} => h.node = n)
  <2>1. Range(<<h>>) = {h}
    BY DEF Range
  <2> QED
    BY <1>1, <2>1, RangeOfEmpty
<1> HIDE DEF h
<1>4. \A m \in Nodes : /\ ToPublisher(m)' = ToPublisher(m)
                       /\ ToStream(m)' = ToStream(m) /\ InHub(m)' = InHub(m)
  BY <1>0 DEF ToPublisher, ToStream, InHub
<1>5. FromHub'
  <2> SUFFICES ASSUME NEW m \in Nodes
               PROVE  /\ Range(pubCh'[m]) \cup ToPublisher(m) \subseteq InHub(m)
                      /\ Range(sending'[m]) \subseteq InHub(m)
                      /\ \A e \in Range(sending'[m]) : e.node = m
                      /\ \A e \in InHub(m) \cup Range(inbox[m]) : e.id < nextId
    BY <1>0, <1>4 DEF FromHub
  <2> QED
    BY <1>1, <1>2, <1>3 DEF FromHub
<1>6. \A m \in Nodes : Own(m)' \subseteq Own(m)
  BY <1>1, <1>2, <1>3, <1>4 DEF Own
<1>7. \A m \in Nodes :
        /\ Range(pubCh'[m]) \subseteq Range(pubCh[m]) /\ Ordered(pubCh'[m])
        /\ Before(Range(sending'[m]), Range(pubCh'[m]) \cup ToPublisher(m))
  <2>1. Before({h}, ToPublisher(n))
    BY <1>2 DEF InOrder, Before
  <2>2. Before(Range(sending'[n]), Range(pubCh'[n]) \cup ToPublisher(n))
    BY <1>2, <1>3, <2>1 DEF Before
  <2> QED
    BY <1>1, <1>2, <2>2 DEF InOrder
<1>8. InOrder'
  <2>1. \A m \in Nodes : /\ Ordered(merged'[m]) /\ Ordered(inbox'[m])
                         /\ merged'[m] = merged[m] /\ inbox'[m] = inbox[m]
    BY <1>0 DEF InOrder
  <2> QED
    BY <1>4, <1>6, <1>7, <2>1, OrderKept
<1>9. Known' \subseteq Known /\ Copies' \subseteq Copies
  BY <1>0, <1>4, <1>6 DEF Known, Copies
<1>10. OneEvent' /\ Window' /\ Fresh' /\ DedupWindow' /\ Stamped'
  BY <1>0, <1>4, <1>9, Forgetting
<1>11. KeysNameEvents'
  <2>1. \A m \in Nodes : /\ InHub(m) \subseteq InHub(m)'
                         /\ ShownIds(m) \subseteq ShownIds(m)'
                         /\ Range(inbox'[m]) \subseteq Range(inbox[m])
    BY <1>0, <1>4 DEF ShownIds
  <2> QED
    BY <1>0, <2>1, KeysKept
<1> QED
  BY <1>5, <1>8, <1>10, <1>11

LEMMA SentKeeps ==
    ASSUME TypeOK, DataInv, NEW n \in Nodes, NEW f \in Event, NEW S \in SUBSET Nodes,
           Sent(n, f, S)
    PROVE  DataInv'
<1> USE DEF DataInv
<1>0. /\ UNCHANGED <<hubSeq, calls, pubCh, lru, merged, discarded, nextId, restarts>>
      /\ Range(sending[n]) = {f}
  BY DEF Sent
<1>1. \A m \in Nodes : inbox'[m] = inbox[m] \/ inbox'[m] = Append(inbox[m], f)
  BY DEF Sent
<1>2. f \in InHub(n) /\ f.node = n /\ f.id < nextId /\ f \in Own(n)
  BY <1>0 DEF FromHub, Own
<1>3. \A m \in Nodes : /\ Range(inbox'[m]) \subseteq Range(inbox[m]) \cup {f}
                       /\ Range(sending'[m]) \subseteq Range(sending[m])
  <2>1. \A m \in Nodes : sending'[m] = sending[m] \/ sending'[m] = <<>>
    BY DEF Sent, TypeOK
  <2>2. \A m \in Nodes : Range(Append(inbox[m], f)) = Range(inbox[m]) \cup {f}
    BY Appended DEF TypeOK
  <2> QED
    BY <1>1, <2>1, <2>2, RangeOfEmpty
<1>4. \A m \in Nodes : /\ ToPublisher(m)' = ToPublisher(m)
                       /\ ToStream(m)' = ToStream(m) /\ InHub(m)' = InHub(m)
  BY <1>0 DEF ToPublisher, ToStream, InHub
<1>5. \A m \in Nodes : Own(m)' \subseteq Own(m)
  BY <1>0, <1>3, <1>4 DEF Own
<1>6. FromHub'
  <2> SUFFICES ASSUME NEW m \in Nodes
               PROVE  /\ Range(pubCh[m]) \cup ToPublisher(m) \subseteq InHub(m)
                      /\ Range(sending'[m]) \subseteq InHub(m)
                      /\ \A e \in Range(sending'[m]) : e.node = m
                      /\ \A e \in InHub(m) \cup Range(inbox'[m]) : e.id < nextId
    BY <1>0, <1>4 DEF FromHub
  <2> QED
    BY <1>2, <1>3 DEF FromHub
<1>7. InOrder'
  <2> SUFFICES ASSUME NEW m \in Nodes
               PROVE  /\ Ordered(merged[m]) /\ Ordered(inbox'[m]) /\ Ordered(pubCh[m])
                      /\ Before(Range(merged[m]), ToStream(m))
                      /\ Before(Range(pubCh[m]), ToPublisher(m))
                      /\ Before(Range(sending'[m]), Range(pubCh[m]) \cup ToPublisher(m))
                      /\ Before({e \in InHub(m) : e.node # m}, Range(inbox'[m]))
                      /\ \A o \in Nodes :
                            /\ Before(Range(inbox'[m]), Own(o)')
                            /\ o # m => Before(InHub(m), Own(o)')
    BY <1>0, <1>4 DEF InOrder, Ordered, Before
  <2>1. Ordered(inbox'[m])
    <3>1. Before(Range(inbox[m]), {f})
      BY <1>2 DEF InOrder, Before
    <3>2. inbox[m] \in Seq(Event) /\ Ordered(inbox[m])
      BY DEF TypeOK, InOrder
    <3> QED
      BY <1>1, <3>1, <3>2, OrderedAppend
  <2>2. Before(Range(sending'[m]), Range(pubCh[m]) \cup ToPublisher(m))
    BY <1>3 DEF InOrder, Before
  <2>3. Before({e \in InHub(m) : e.node # m}, {f})
    <3>1. CASE m = n
      BY <1>2, <3>1 DEF Before, SameOrigin
    <3>2. CASE m # n
      BY <1>2, <3>2 DEF InOrder, Before
    <3> QED
      BY <3>1, <3>2
  <2>4. Before({e \in InHub(m) : e.node # m}, Range(inbox'[m]))
    BY <1>3, <2>3 DEF InOrder, Before
  <2>5. ASSUME NEW o \in Nodes
        PROVE  Before({f}, Own(o))
    <3>1. CASE o = n
      <4>1. Own(n) = {f} \cup {e \in Range(pubCh[n]) \cup ToPublisher(n) : e.node = n}
        BY <1>0 DEF Own
      <4>2. Before({f}, Range(pubCh[n]) \cup ToPublisher(n))
        BY <1>0 DEF InOrder
      <4>3. f.id <= f.id
        BY DEF Event
      <4> QED
        BY <3>1, <4>1, <4>2, <4>3 DEF Before
    <3>2. CASE o # n
      BY <1>2, <3>2, CopiesKnown DEF Before, SameOrigin
    <3> QED
      BY <3>1, <3>2
  <2>6. ASSUME NEW o \in Nodes
        PROVE  /\ Before(Range(inbox'[m]), Own(o)')
               /\ o # m => Before(InHub(m), Own(o)')
    BY <1>3, <1>5, <2>5 DEF InOrder, Before
  <2> QED
    BY <2>1, <2>2, <2>4, <2>6 DEF InOrder
<1>8. Known' \subseteq Known /\ Copies' \subseteq Copies
  <2>1. f \in Known /\ f \in Copies
    BY <1>2 DEF Known, Copies
  <2>2. Known' \subseteq Known
    BY <1>3, <1>4, <2>1 DEF Known
  <2>3. Copies' \subseteq Copies
    BY <1>3, <1>5, <2>1 DEF Copies
  <2> QED
    BY <2>2, <2>3
<1>9. OneEvent' /\ Window' /\ Fresh' /\ DedupWindow' /\ Stamped'
  BY <1>0, <1>4, <1>8, Forgetting
<1>10. KeysNameEvents'
  <2> SUFFICES ASSUME restarts = 0, NEW m \in Nodes
               PROVE  /\ \A e \in Range(inbox'[m]) : e \in InHub(e.node)'
                      /\ \A k \in Range(lru[m]) : \E g \in InHub(k.node)', d \in InHub(m)' :
                            g.seq = k.seq /\ d.id = g.id
                      /\ discarded[m] \subseteq ShownIds(m)
    BY <1>0 DEF KeysNameEvents, ShownIds, InHub, ToStream
  <2>1. \A x : InHub(x)' = InHub(x)
    BY <1>0 DEF InHub, ToStream
  <2>2. \A e \in Range(inbox'[m]) : e \in InHub(e.node)'
    BY <1>2, <1>3, <2>1 DEF KeysNameEvents
  <2>3. /\ \A k \in Range(lru[m]) : \E g \in InHub(k.node), d \in InHub(m) :
             g.seq = k.seq /\ d.id = g.id
        /\ discarded[m] \subseteq ShownIds(m)
    BY DEF KeysNameEvents
  <2> QED
    BY <2>1, <2>2, <2>3
<1> QED
  BY <1>6, <1>7, <1>9, <1>10

LEMMA DroppedKeeps ==
    ASSUME TypeOK, DataInv, NEW n \in Nodes, inbox[n] # <<>>, Dropped(n)
    PROVE  DataInv'
<1> USE DEF DataInv
<1> DEFINE h == Head(inbox[n])
<1>0. /\ UNCHANGED <<hubSeq, calls, pubCh, sending, lru, merged, nextId, restarts>>
      /\ ~Merging(n)
  BY DEF Dropped
<1>1. /\ inbox'[n] = Tail(inbox[n])
      /\ \A m \in Nodes \ {n} : inbox'[m] = inbox[m]
  BY DEF Dropped, TypeOK
<1>2. /\ Range(inbox'[n]) \subseteq Range(inbox[n]) /\ h \in Range(inbox[n])
      /\ Ordered(inbox'[n])
  <2>1. inbox[n] \in Seq(Event) /\ Ordered(inbox[n])
    BY DEF TypeOK, InOrder
  <2> QED
    BY <1>1, <2>1, Tailed, OrderedTail
<1>3. \A m \in Nodes : Range(inbox'[m]) \subseteq Range(inbox[m]) /\ Ordered(inbox'[m])
  BY <1>1, <1>2 DEF InOrder
<1>4. \A m \in Nodes : /\ ToPublisher(m)' = ToPublisher(m)
                       /\ ToStream(m)' = ToStream(m) /\ InHub(m)' = InHub(m)
  BY <1>0 DEF ToPublisher, ToStream, InHub
<1>5. \A m \in Nodes : Own(m)' = Own(m)
  BY <1>0, <1>4 DEF Own
<1>6. FromHub'
  <2> SUFFICES ASSUME NEW m \in Nodes
               PROVE  /\ Range(pubCh[m]) \cup ToPublisher(m) \subseteq InHub(m)
                      /\ Range(sending[m]) \subseteq InHub(m)
                      /\ \A e \in Range(sending[m]) : e.node = m
                      /\ \A e \in InHub(m) \cup Range(inbox'[m]) : e.id < nextId
    BY <1>0, <1>4 DEF FromHub
  <2> QED
    BY <1>3 DEF FromHub
<1>7. InOrder'
  <2>1. \A m \in Nodes :
          /\ Ordered(merged'[m]) /\ Ordered(pubCh'[m])
          /\ merged'[m] = merged[m] /\ pubCh'[m] = pubCh[m]
          /\ Before(Range(sending'[m]), Range(pubCh'[m]) \cup ToPublisher(m)')
    BY <1>0, <1>4 DEF InOrder
  <2> QED
    BY <1>3, <1>4, <1>5, <2>1, OrderKept
<1>8. Known' \subseteq Known /\ Copies' \subseteq Copies
  <2>1. Known' \subseteq Known
    BY <1>3, <1>4 DEF Known
  <2>2. Copies' \subseteq Copies
    BY <1>3, <1>5 DEF Copies
  <2> QED
    BY <2>1, <2>2
<1>9. OneEvent' /\ Window' /\ Fresh' /\ DedupWindow' /\ Stamped'
  BY <1>0, <1>4, <1>8, Forgetting
<1>10. KeysNameEvents'
  <2> SUFFICES ASSUME restarts = 0, NEW m \in Nodes
               PROVE  /\ \A e \in Range(inbox'[m]) : e \in InHub(e.node)
                      /\ \A k \in Range(lru[m]) : \E f \in InHub(k.node), g \in InHub(m) :
                            f.seq = k.seq /\ g.id = f.id
                      /\ discarded'[m] \subseteq ShownIds(m)
    BY <1>0 DEF KeysNameEvents, ShownIds, InHub, ToStream
  <2>1. discarded'[m] \subseteq ShownIds(m)
    <3>1. CASE discarded'[m] = discarded[m]
      BY <3>1 DEF KeysNameEvents
    <3>2. CASE discarded'[m] # discarded[m]
      <4>1. /\ m = n /\ LruHas(lru[n], KeyOf(h)) /\ h.node # n
            /\ discarded'[n] = discarded[n] \cup {h.id}
        BY <3>2 DEF Dropped, TypeOK
      <4>2. KeyOf(h) \in Range(lru[n])
        BY <4>1 DEF LruHas, Range
      <4>3. KeyOf(h).node = h.node /\ KeyOf(h).seq = h.seq
        BY DEF KeyOf
      <4>4. PICK f \in InHub(h.node), g \in InHub(n) : f.seq = h.seq /\ g.id = f.id
        BY <4>2, <4>3 DEF KeysNameEvents
      <4>5. h \in InHub(h.node) /\ h.node \in Nodes
        <5>1. Range(inbox[n]) \subseteq Event
          BY RangeTyped DEF TypeOK
        <5> QED
          BY <1>2, <5>1 DEF KeysNameEvents, Event
      <4>6. f = h
        BY <4>4, <4>5 DEF Stamped
      <4>7. SameOrigin(g, h)
        <5>1. g \in Known /\ h \in Known
          BY <4>4, <4>5 DEF Known
        <5> QED
          BY <4>4, <4>6, <5>1 DEF OneEvent
      <4>8. g \in Range(merged[n])
        BY <1>0, <4>1, <4>4, <4>7 DEF InHub, ToStream, Merging, SameOrigin
      <4>9. h.id \in ShownIds(n)
        BY <4>4, <4>6, <4>8 DEF ShownIds
      <4> QED
        BY <4>1, <4>9 DEF KeysNameEvents
    <3> QED
      BY <3>1, <3>2
  <2>2. \A e \in Range(inbox'[m]) : e \in InHub(e.node)
    BY <1>3 DEF KeysNameEvents
  <2>3. \A k \in Range(lru[m]) : \E f \in InHub(k.node), g \in InHub(m) :
            f.seq = k.seq /\ g.id = f.id
    BY DEF KeysNameEvents
  <2> QED
    BY <2>1, <2>2, <2>3
<1> QED
  BY <1>6, <1>7, <1>9, <1>10

LEMMA AbandonedKeeps ==
    ASSUME TypeOK, DataInv, NEW n \in Nodes, Abandoned(n)
    PROVE  DataInv'
<1> USE DEF DataInv
<1>0. UNCHANGED <<hubSeq, calls, lru, merged, discarded, nextId, restarts>>
  BY DEF Abandoned
<1>1. \A m \in Nodes : /\ inbox'[m] = inbox[m] \/ inbox'[m] = <<>>
                       /\ pubCh'[m] = pubCh[m] \/ pubCh'[m] = <<>>
                       /\ sending'[m] = sending[m] \/ sending'[m] = <<>>
  BY DEF Abandoned, TypeOK
<1>2. \A m \in Nodes : /\ Range(inbox'[m]) \subseteq Range(inbox[m])
                       /\ Range(pubCh'[m]) \subseteq Range(pubCh[m])
                       /\ Range(sending'[m]) \subseteq Range(sending[m])
                       /\ Ordered(inbox'[m]) /\ Ordered(pubCh'[m])
  BY <1>1, RangeOfEmpty, OrderedEmpty DEF InOrder
<1>3. \A m \in Nodes : /\ ToPublisher(m)' = ToPublisher(m)
                       /\ ToStream(m)' = ToStream(m) /\ InHub(m)' = InHub(m)
  BY <1>0 DEF ToPublisher, ToStream, InHub
<1>4. \A m \in Nodes : Own(m)' \subseteq Own(m)
  BY <1>2, <1>3 DEF Own
<1>5. FromHub'
  <2> SUFFICES ASSUME NEW m \in Nodes
               PROVE  /\ Range(pubCh'[m]) \cup ToPublisher(m) \subseteq InHub(m)
                      /\ Range(sending'[m]) \subseteq InHub(m)
                      /\ \A e \in Range(sending'[m]) : e.node = m
                      /\ \A e \in InHub(m) \cup Range(inbox'[m]) : e.id < nextId
    BY <1>0, <1>3 DEF FromHub
  <2> QED
    BY <1>2 DEF FromHub
<1>6. InOrder'
  <2>1. \A m \in Nodes :
          /\ Ordered(merged'[m]) /\ merged'[m] = merged[m]
          /\ Before(Range(sending'[m]), Range(pubCh'[m]) \cup ToPublisher(m)')
    BY <1>0, <1>2, <1>3 DEF InOrder, Before
  <2> QED
    BY <1>2, <1>3, <1>4, <2>1, OrderKept
<1>7. Known' \subseteq Known /\ Copies' \subseteq Copies
  BY <1>2, <1>3, <1>4 DEF Known, Copies
<1>8. OneEvent' /\ Window' /\ Fresh' /\ DedupWindow' /\ Stamped'
  BY <1>0, <1>3, <1>7, Forgetting
<1>9. KeysNameEvents'
  <2>1. \A m \in Nodes : /\ InHub(m) \subseteq InHub(m)'
                         /\ ShownIds(m) \subseteq ShownIds(m)'
                         /\ Range(inbox'[m]) \subseteq Range(inbox[m])
    BY <1>0, <1>2, <1>3 DEF ShownIds
  <2> QED
    BY <1>0, <2>1, KeysKept
<1> QED
  BY <1>5, <1>6, <1>8, <1>9

LEMMA RestartKeeps ==
    ASSUME TypeOK, DataInv, NEW n \in Nodes, Restart(n)
    PROVE  DataInv'
<1> USE DEF DataInv
<1>0. nextId' = nextId /\ restarts' # 0
  BY DEF Restart, TypeOK
<1>1. /\ inbox'[n] = <<>> /\ pubCh'[n] = <<>> /\ sending'[n] = <<>> /\ merged'[n] = <<>>
      /\ hubSeq'[n] = 0 /\ calls'[n] = {}
      /\ \A m \in Nodes \ {n} :
            /\ inbox'[m] = inbox[m] /\ pubCh'[m] = pubCh[m] /\ sending'[m] = sending[m]
            /\ merged'[m] = merged[m] /\ lru'[m] = lru[m] /\ hubSeq'[m] = hubSeq[m]
            /\ calls'[m] = calls[m]
  BY DEF Restart, TypeOK
<1>2. \A m \in Nodes : /\ Range(inbox'[m]) \subseteq Range(inbox[m])
                       /\ Range(merged'[m]) \subseteq Range(merged[m])
                       /\ Range(pubCh'[m]) \subseteq Range(pubCh[m])
                       /\ Range(sending'[m]) \subseteq Range(sending[m])
                       /\ Ordered(inbox'[m]) /\ Ordered(pubCh'[m]) /\ Ordered(merged'[m])
  BY <1>1, RangeOfEmpty, OrderedEmpty DEF InOrder
<1>3. /\ ToPublisher(n)' = {} /\ ToStream(n)' = {}
      /\ \A m \in Nodes \ {n} : /\ ToPublisher(m)' = ToPublisher(m)
                                /\ ToStream(m)' = ToStream(m)
  BY <1>1 DEF ToPublisher, ToStream
<1>4. \A m \in Nodes : /\ ToPublisher(m)' \subseteq ToPublisher(m)
                       /\ ToStream(m)' \subseteq ToStream(m)
                       /\ InHub(m)' \subseteq InHub(m)
  BY <1>2, <1>3 DEF InHub
<1>5. \A m \in Nodes : Own(m)' \subseteq Own(m)
  BY <1>2, <1>4 DEF Own
<1>6. FromHub'
  <2> SUFFICES ASSUME NEW m \in Nodes
               PROVE  /\ Range(pubCh'[m]) \cup ToPublisher(m)' \subseteq InHub(m)'
                      /\ Range(sending'[m]) \subseteq InHub(m)'
                      /\ \A e \in Range(sending'[m]) : e.node = m
                      /\ \A e \in InHub(m)' \cup Range(inbox'[m]) : e.id < nextId
    BY <1>0 DEF FromHub
  <2>1. \A e \in InHub(m)' \cup Range(inbox'[m]) : e.id < nextId
    BY <1>2, <1>4 DEF FromHub
  <2>2. CASE m = n
    BY <1>1, <1>3, <2>1, <2>2, RangeOfEmpty
  <2>3. CASE m # n
    <3>1. InHub(m)' = InHub(m)
      BY <1>1, <1>3, <2>3 DEF InHub
    <3> QED
      BY <1>1, <1>3, <2>1, <2>3, <3>1 DEF FromHub
  <2> QED
    BY <2>2, <2>3
<1>7. InOrder'
  <2>1. \A m \in Nodes :
          Before(Range(sending'[m]), Range(pubCh'[m]) \cup ToPublisher(m)')
    BY <1>2, <1>4 DEF InOrder, Before
  <2> QED
    BY <1>2, <1>4, <1>5, <2>1, OrderKept
<1>8. Known' \subseteq Known /\ Copies' \subseteq Copies
  BY <1>2, <1>4, <1>5 DEF Known, Copies
<1>9. OneEvent' /\ Window' /\ Fresh' /\ DedupWindow' /\ Stamped'
  <2>1. \A m \in Nodes :
          \/ /\ merged'[m] = merged[m] /\ lru'[m] = lru[m]
             /\ hubSeq'[m] = hubSeq[m] /\ ToStream(m)' = ToStream(m)
          \/ merged'[m] = <<>> /\ ToStream(m)' = {}
    BY <1>1, <1>3
  <2> QED
    BY <1>8, <2>1, Forgetting
<1>10. KeysNameEvents'
  BY <1>0 DEF KeysNameEvents
<1> QED
  BY <1>6, <1>7, <1>9, <1>10

LEMMA AdmittedKeeps ==
    ASSUME TypeOK, DataInv, NEW n \in Nodes, NEW f \in Event, inbox[n] # <<>>,
           Admitted(n, f)
    PROVE  DataInv'
<1> USE DEF DataInv
<1> DEFINE h == Head(inbox[n])
<1>0. /\ h.node # n /\ SameOrigin(f, h) /\ f.node = h.node /\ f.id = h.id
      /\ ~LruHas(lru[n], KeyOf(h)) /\ Stamps(n, f) /\ ~Merging(n)
      /\ UNCHANGED <<pubCh, sending, merged, discarded, nextId, restarts>>
  BY DEF Admitted, SameOrigin
<1>1. /\ ToPublisher(n)' = ToPublisher(n) \cup {f}
      /\ ToStream(n)' = ToStream(n) \cup {f}
      /\ InHub(n)' = InHub(n) \cup {f} /\ Stamped'
      /\ \A m \in Nodes \ {n} : /\ ToPublisher(m)' = ToPublisher(m)
                                /\ ToStream(m)' = ToStream(m)
                                /\ InHub(m)' = InHub(m)
  BY <1>0, StampedSets, StampedKept
<1>2. /\ inbox'[n] = Tail(inbox[n]) /\ lru'[n] = LruInsert(lru[n], KeyOf(h))
      /\ \A m \in Nodes \ {n} : inbox'[m] = inbox[m] /\ lru'[m] = lru[m]
  BY DEF Admitted, TypeOK
<1>3. /\ Range(inbox'[n]) \subseteq Range(inbox[n]) /\ h \in Range(inbox[n])
      /\ Ordered(inbox'[n]) /\ Before({h}, Range(inbox'[n])) /\ h \in Event
  <2>1. inbox[n] \in Seq(Event) /\ Ordered(inbox[n])
    BY DEF TypeOK, InOrder
  <2> QED
    BY <1>2, <2>1, Tailed, OrderedTail
<1>4. KeyOf(h) \in Key /\ KeyOf(h).node = h.node /\ KeyOf(h).seq = h.seq
  BY <1>3 DEF KeyOf, Key, Event
<1> HIDE DEF h
<1>5. h \in Known /\ h \in Copies /\ h.id < nextId
  BY <1>3 DEF Known, Copies, FromHub
<1>6. \A e \in ToPublisher(n) \cup ToStream(n) : e.node = n
  BY <1>0 DEF Merging, ToPublisher, ToStream
<1>7. \A m \in Nodes : Own(m)' = Own(m)
  BY <1>0, <1>1 DEF Own
<1>8. FromHub'
  <2> SUFFICES ASSUME NEW m \in Nodes
               PROVE  /\ Range(pubCh[m]) \cup ToPublisher(m)' \subseteq InHub(m)'
                      /\ Range(sending[m]) \subseteq InHub(m)'
                      /\ \A e \in Range(sending[m]) : e.node = m
                      /\ \A e \in InHub(m)' \cup Range(inbox'[m]) : e.id < nextId
    BY <1>0 DEF FromHub
  <2>1. CASE m = n
    BY <1>0, <1>1, <1>3, <1>5, <2>1 DEF FromHub
  <2>2. CASE m # n
    BY <1>1, <1>2, <2>2 DEF FromHub
  <2> QED
    BY <2>1, <2>2
<1>9. InOrder'
  <2>1. \A e \in InHub(n) : SameOrigin(e, f) => e.id <= f.id
    <3> SUFFICES ASSUME NEW e \in InHub(n), SameOrigin(e, f) PROVE e.id <= f.id
      OBVIOUS
    <3>1. SameOrigin(e, h) /\ e.node # n
      BY <1>0 DEF SameOrigin
    <3>2. e.id <= h.id
      BY <1>3, <3>1 DEF InOrder, Before
    <3> QED
      BY <1>0, <3>2
  <2>2. /\ Before(Range(merged[n]), ToStream(n)')
        /\ Before(Range(pubCh[n]), ToPublisher(n)')
    BY <1>1, <2>1 DEF InOrder, Before, FromHub, InHub
  <2>3. Before(Range(sending[n]), Range(pubCh[n]) \cup ToPublisher(n)')
    BY <1>0, <1>1 DEF InOrder, Before, FromHub, SameOrigin
  <2>4. ASSUME NEW B, Before({h}, B) PROVE Before({f}, B)
    BY <1>0, <2>4 DEF Before, SameOrigin
  <2>5. Before({e \in InHub(n)' : e.node # n}, Range(inbox'[n]))
    <3>1. Before({f}, Range(inbox'[n]))
      BY <1>3, <2>4
    <3> QED
      BY <1>1, <1>3, <3>1 DEF InOrder, Before
  <2>6. ASSUME NEW m \in Nodes, NEW o \in Nodes
        PROVE  Before(Range(inbox'[m]), Own(o)')
    BY <1>2, <1>3, <1>7 DEF InOrder, Before
  <2>7. ASSUME NEW o \in Nodes, o # n
        PROVE  Before(InHub(n)', Own(o)')
    <3>1. Before({h}, Own(o)) /\ Before(InHub(n), Own(o))
      BY <1>3, <2>7 DEF InOrder, Before
    <3>2. Before({f}, Own(o))
      BY <2>4, <3>1
    <3> QED
      BY <1>1, <1>7, <3>1, <3>2 DEF Before
  <2> SUFFICES ASSUME NEW m \in Nodes
               PROVE  /\ Ordered(merged[m]) /\ Ordered(inbox'[m]) /\ Ordered(pubCh[m])
                      /\ Before(Range(merged[m]), ToStream(m)')
                      /\ Before(Range(pubCh[m]), ToPublisher(m)')
                      /\ Before(Range(sending[m]), Range(pubCh[m]) \cup ToPublisher(m)')
                      /\ Before({e \in InHub(m)' : e.node # m}, Range(inbox'[m]))
                      /\ \A o \in Nodes :
                            /\ Before(Range(inbox'[m]), Own(o)')
                            /\ o # m => Before(InHub(m)', Own(o)')
    BY <1>0 DEF InOrder, Ordered, Before
  <2>8. CASE m = n
    BY <1>3, <2>2, <2>3, <2>5, <2>6, <2>7, <2>8 DEF InOrder
  <2>9. CASE m # n
    BY <1>1, <1>2, <1>7, <2>6, <2>9 DEF InOrder
  <2> QED
    BY <2>8, <2>9
<1>10. Known' \subseteq Known \cup {f} /\ Copies' \subseteq Copies
  <2>1. \A m \in Nodes : /\ InHub(m)' \subseteq InHub(m) \cup {f}
                         /\ Range(inbox'[m]) \subseteq Range(inbox[m])
    BY <1>1, <1>2, <1>3
  <2>2. Known' \subseteq Known \cup {f}
    BY <2>1 DEF Known
  <2>3. Copies' \subseteq Copies
    BY <1>7, <2>1 DEF Copies
  <2> QED
    BY <2>2, <2>3
<1>11. OneEvent'
  <2>1. \A e \in Known \cup {f} : \E d \in Known : d.id = e.id /\ SameOrigin(d, e)
    BY <1>0, <1>5 DEF SameOrigin
  <2>2. \A e, d \in Known \cup {f} : e.id = d.id => SameOrigin(e, d)
    BY <2>1 DEF OneEvent, SameOrigin
  <2> QED
    BY <1>10, <2>2 DEF OneEvent, SameOrigin
<1>12. /\ Pending(n) = 0 /\ Pending(n)' = 1
       /\ \A m \in Nodes \ {n} : Pending(m)' = Pending(m)
  BY <1>0, <1>1, <1>6 DEF Pending
<1>13. ASSUME NEW i \in DOMAIN merged[n]
       PROVE  /\ Later(n, i) \in Nat /\ Later(n, i)' = Later(n, i) + 1
              /\ Later(n, i) = Cardinality(PeersAfter(merged[n], n, i))
  <2> DEFINE c == Cardinality(PeersAfter(merged[n], n, i))
  <2>1. merged[n] \in Seq(Event)
    BY DEF TypeOK
  <2>2. i \in 1..Len(merged[n])
    BY <2>1
  <2>3. c \in Nat
    BY <1>3, <2>1, <2>2, PeersAfterAppend
  <2>4. Later(n, i) = c + Pending(n) /\ Later(n, i)' = c + Pending(n)'
    BY <1>0 DEF Later, PeersAfter
  <2> HIDE DEF c
  <2>5. Later(n, i) \in Nat /\ Later(n, i)' = Later(n, i) + 1 /\ Later(n, i) = c
    BY <1>12, <2>3, <2>4
  <2> QED
    BY <2>5 DEF c
<1>14. \A m \in Nodes : /\ \A i \in DOMAIN merged[m] : merged[m][i] \in Known
                        /\ ToStream(m) \subseteq Known
  BY DEF Known, InHub, Range
<1>15. Copies \subseteq Known
  BY CopiesKnown DEF Known
<1>16. Window'
  <2> DEFINE l == lru[n]
             k == KeyOf(h)
             l2 == LruInsert(l, k)
  <2>1. l \in Seq(Key) /\ Len(l) \in Nat /\ Len(l) <= LruCap /\ k \in Key
    BY <1>4 DEF TypeOK
  <2>2. lru'[n] = l2
    BY <1>2
  <2> HIDE DEF l, k
  <2>3. /\ l2 \in Seq(Key) /\ Len(l2) \in DOMAIN l2 /\ l2[Len(l2)] = k
        /\ \A p \in DOMAIN l :
              \/ p = 1 /\ Len(l) = LruCap
              \/ \E q \in DOMAIN l2 : l2[q] = l[p] /\ Len(l2) - q = Len(l) - p + 1
    BY <2>1, Inserted
  <2> HIDE DEF l2
  <2> SUFFICES ASSUME NEW m \in Nodes, NEW e \in Copies, e.node # m
               PROVE  /\ \A i \in DOMAIN merged[m] : merged[m][i].id = e.id =>
                            \/ Later(m, i)' >= LruCap
                            \/ Remembered(lru'[m], KeyOf(e), Later(m, i)')
                      /\ \A g \in ToStream(m)' :
                            g.id = e.id => Remembered(lru'[m], KeyOf(e), 0)
    BY <1>0, <1>10 DEF Window, KeyOf, Remembered
  <2>4. CASE m # n
    <3>1. /\ lru'[m] = lru[m] /\ ToStream(m)' = ToStream(m)
          /\ \A i : Later(m, i)' = Later(m, i)
      BY <1>0, <1>1, <1>2, <1>12, <2>4 DEF Later, PeersAfter
    <3> QED
      BY <3>1 DEF Window
  <2>5. CASE m = n
    <3>1. ASSUME NEW i \in DOMAIN merged[n], merged[n][i].id = e.id
          PROVE  Later(n, i)' >= LruCap \/ Remembered(l2, KeyOf(e), Later(n, i)')
      <4> DEFINE c == Later(n, i)
                 d == Later(n, i)'
      <4>1. c \in Nat /\ d = c + 1 /\ LruCap \in Nat
        BY <1>13, CapAssumption
      <4>2. c >= LruCap \/ \E p \in DOMAIN l : l[p] = KeyOf(e) /\ c >= Len(l) - p
        BY <2>5, <3>1 DEF Window, Remembered, l
      <4> HIDE DEF c, d
      <4>3. CASE c >= LruCap
        <5>1. d >= LruCap
          BY <4>1, <4>3
        <5> QED
          BY <5>1 DEF d
      <4>4. ASSUME NEW p \in DOMAIN l, l[p] = KeyOf(e), c >= Len(l) - p
            PROVE  d >= LruCap \/ Remembered(l2, KeyOf(e), d)
        <5>0. p \in Nat
          BY <2>1
        <5>1. CASE p = 1 /\ Len(l) = LruCap
          BY <2>1, <4>1, <4>4, <5>1
        <5>2. ASSUME NEW q \in DOMAIN l2, l2[q] = l[p], Len(l2) - q = Len(l) - p + 1
              PROVE  Remembered(l2, KeyOf(e), d)
          <6>1. d >= Len(l2) - q
            BY <2>1, <4>1, <4>4, <5>0, <5>2
          <6> QED
            BY <4>4, <5>2, <6>1 DEF Remembered
        <5> QED
          BY <2>3, <5>1, <5>2
      <4> QED
        BY <4>2, <4>3, <4>4 DEF d
    <3>2. ASSUME NEW g \in ToStream(n)', g.id = e.id
          PROVE  Remembered(l2, KeyOf(e), 0)
      <4>1. CASE g = f
        <5>1. e = h
          BY <1>0, <1>5, <3>2, <4>1 DEF OneEvent
        <5>2. Len(l2) - Len(l2) = 0
          BY <2>3
        <5> QED
          BY <2>3, <5>1, <5>2 DEF Remembered, k
      <4>2. CASE g \in ToStream(n)
        <5>1. SameOrigin(e, g)
          BY <1>14, <1>15, <3>2, <4>2 DEF OneEvent
        <5> QED
          BY <1>6, <2>5, <4>2, <5>1 DEF SameOrigin
      <4> QED
        BY <1>1, <4>1, <4>2
    <3> QED
      BY <2>2, <2>5, <3>1, <3>2
  <2> QED
    BY <2>4, <2>5
<1>17. ASSUME NEW i \in DOMAIN merged[n], merged[n][i].id = h.id
       PROVE  /\ merged[n][i].node # n
              /\ Cardinality(PeersAfter(merged[n], n, i)) >= LruCap
  <2>1. SameOrigin(merged[n][i], h)
    BY <1>5, <1>14, <1>17 DEF OneEvent
  <2>2. ~Remembered(lru[n], KeyOf(h), Later(n, i))
    BY <1>0 DEF Remembered, LruHas
  <2>3. Later(n, i) >= LruCap
    BY <1>0, <1>5, <1>17, <2>2 DEF Window
  <2> QED
    BY <1>0, <1>13, <2>1, <2>3 DEF SameOrigin
<1>18. Fresh'
  <2> SUFFICES ASSUME NEW m \in Nodes, NEW g \in ToStream(m)',
                      NEW i \in DOMAIN merged'[m], merged'[m][i].id = g.id
               PROVE  /\ merged'[m][i].node # m
                      /\ Cardinality(PeersAfter(merged'[m], m, i)) >= LruCap
    BY DEF Fresh, PeersAfter
  <2>1. CASE m = n /\ g = f
    BY <1>0, <1>17, <2>1
  <2>2. CASE g \in ToStream(m)
    BY <1>0, <2>2 DEF Fresh
  <2> QED
    BY <1>1, <2>1, <2>2
<1>19. DedupWindow'
  BY <1>0 DEF DedupWindow, PeerMergesBetween
<1>20. KeysNameEvents'
  <2>1. \A m \in Nodes : /\ InHub(m) \subseteq InHub(m)'
                         /\ ShownIds(m)' = ShownIds(m)
                         /\ Range(inbox'[m]) \subseteq Range(inbox[m])
    BY <1>0, <1>1, <1>2, <1>3 DEF ShownIds
  <2>2. /\ Range(lru'[n]) \subseteq Range(lru[n]) \cup {KeyOf(h)}
        /\ \A m \in Nodes \ {n} : lru'[m] = lru[m]
    <3>1. lru[n] \in Seq(Key) /\ Len(lru[n]) <= LruCap
      BY DEF TypeOK
    <3> QED
      BY <1>2, <1>4, <3>1, Inserted
  <2>3. \A m \in Nodes : /\ \A e \in Range(inbox[m]) : e.node \in Nodes
                         /\ \A k \in Range(lru[m]) : k.node \in Nodes
    <3>1. \A m \in Nodes : Range(inbox[m]) \subseteq Event /\ Range(lru[m]) \subseteq Key
      BY RangeTyped DEF TypeOK
    <3>2. /\ \A e \in Event : e.node \in Nodes
          /\ \A k \in Key : k.node \in Nodes
      BY DEF Event, Key
    <3> QED
      BY <3>1, <3>2
  <2> SUFFICES ASSUME restarts = 0, NEW m \in Nodes
               PROVE  /\ \A e \in Range(inbox'[m]) : e \in InHub(e.node)'
                      /\ \A k \in Range(lru'[m]) :
                           \E e \in InHub(k.node)', g \in InHub(m)' :
                              e.seq = k.seq /\ g.id = e.id
                      /\ discarded[m] \subseteq ShownIds(m)
    BY <1>0, <2>1 DEF KeysNameEvents
  <2>4. \A e \in Range(inbox'[m]) : e \in InHub(e.node)'
    BY <2>1, <2>3 DEF KeysNameEvents
  <2>5. ASSUME NEW k \in Range(lru[m])
        PROVE  \E e \in InHub(k.node)', g \in InHub(m)' : e.seq = k.seq /\ g.id = e.id
    <3>1. PICK e \in InHub(k.node), g \in InHub(m) : e.seq = k.seq /\ g.id = e.id
      BY DEF KeysNameEvents
    <3>2. e \in InHub(k.node)' /\ g \in InHub(m)'
      BY <2>1, <2>3, <3>1
    <3> QED
      BY <3>1, <3>2
  <2>6. PICK e \in Event, o \in Nodes : e = h /\ o = h.node /\ e \in InHub(o)'
    <3>1. h.node \in Nodes /\ h \in InHub(h.node)
      BY <1>3, <2>3 DEF KeysNameEvents
    <3> QED
      BY <1>3, <2>1, <3>1
  <2>7. ASSUME NEW k \in Range(lru'[m])
        PROVE  \E d \in InHub(k.node)', g \in InHub(m)' : d.seq = k.seq /\ g.id = d.id
    <3>1. CASE k \in Range(lru[m])
      BY <2>5, <3>1
    <3>2. CASE m = n /\ k = KeyOf(h)
      <4>1. k.node = o /\ k.seq = e.seq /\ f \in InHub(m)' /\ f.id = e.id
        BY <1>0, <1>1, <1>4, <2>6, <3>2
      <4> QED
        BY <2>6, <4>1
    <3> QED
      BY <2>2, <3>1, <3>2
  <2> QED
    BY <2>4, <2>7 DEF KeysNameEvents
<1> QED
  BY <1>1, <1>8, <1>9, <1>11, <1>16, <1>18, <1>19, <1>20

----------------------------------------------------------------------------
LEMMA StillKeeps == DataInv /\ Still => DataInv'
<1> SUFFICES ASSUME DataInv, Still PROVE DataInv'
  OBVIOUS
<1>1. UNCHANGED <<hubSeq, calls, pubCh, sending, inbox, lru, merged, discarded,
                  nextId, restarts>>
  BY DEF Still
<1>2. \A n \in Nodes : UNCHANGED <<ToPublisher(n), ToStream(n), InHub(n), Own(n),
                                   ShownIds(n)>>
  BY <1>1 DEF ToPublisher, ToStream, InHub, Own, ShownIds
<1>3. UNCHANGED <<Known, Copies>>
  BY <1>1, <1>2 DEF Known, Copies
<1>4. FromHub' /\ InOrder'
  <2>1. FromHub'
    BY <1>1, <1>2 DEF DataInv, FromHub
  <2>2. \A n \in Nodes :
          /\ Ordered(merged'[n]) /\ Ordered(inbox'[n]) /\ Ordered(pubCh'[n])
          /\ Before(Range(sending'[n]), Range(pubCh'[n]) \cup ToPublisher(n)')
    BY <1>1, <1>2 DEF DataInv, InOrder
  <2>3. InOrder'
    BY <1>1, <1>2, <2>2, OrderKept DEF DataInv
  <2> QED
    BY <2>1, <2>3
<1>5. OneEvent'
  BY <1>3 DEF DataInv, OneEvent
<1>6. Window' /\ Fresh'
  <2>1. \A n \in Nodes : \A i : Later(n, i)' = Later(n, i)
    BY <1>1, <1>2 DEF Later, PeersAfter, Pending
  <2>2. Window'
    BY <1>1, <1>2, <1>3, <2>1 DEF DataInv, Window
  <2>3. Fresh'
    BY <1>1, <1>2 DEF DataInv, Fresh
  <2> QED
    BY <2>2, <2>3
<1>7. DedupWindow'
  BY <1>1 DEF DataInv, DedupWindow, PeerMergesBetween
<1>8. Stamped'
  BY <1>1, <1>2 DEF DataInv, Stamped
<1>9. KeysNameEvents'
  BY <1>1, <1>2 DEF DataInv, KeysNameEvents, InHub, ToStream
<1> QED
  BY <1>4, <1>5, <1>6, <1>7, <1>8, <1>9 DEF DataInv

LEMMA BridgeInitially == Init => DataInv
<1> SUFFICES ASSUME Init PROVE DataInv
  OBVIOUS
<1>1. \A n \in Nodes : /\ pubCh[n] = <<>> /\ sending[n] = <<>> /\ inbox[n] = <<>>
                       /\ lru[n] = <<>> /\ merged[n] = <<>> /\ hubSeq[n] = 0
                       /\ discarded[n] = {} /\ calls[n] = {}
  BY DEF Init
<1>2. Range(<<>>) = {} /\ DOMAIN <<>> = {} /\ Len(<<>>) = 0 /\ Ordered(<<>>)
  BY RangeOfEmpty, OrderedEmpty
<1>3. \A n \in Nodes : ToPublisher(n) = {} /\ ToStream(n) = {}
  BY <1>1 DEF ToPublisher, ToStream
<1>4. \A n \in Nodes : InHub(n) = {} /\ Own(n) = {}
  BY <1>1, <1>2, <1>3 DEF InHub, Own
<1>5. Known = {} /\ Copies = {}
  BY <1>1, <1>2, <1>4 DEF Known, Copies
<1>6. FromHub
  BY <1>1, <1>2, <1>3, <1>4 DEF FromHub
<1>7. InOrder
  BY <1>1, <1>2, <1>3, <1>4 DEF InOrder, Before
<1>8. OneEvent /\ Window
  BY <1>5 DEF OneEvent, Window
<1>9. DedupWindow /\ Fresh
  BY <1>1, <1>2 DEF DedupWindow, Fresh
<1>10. Stamped /\ KeysNameEvents
  BY <1>1, <1>2, <1>4 DEF Stamped, KeysNameEvents
<1> QED
  BY <1>6, <1>7, <1>8, <1>9, <1>10 DEF DataInv

LEMMA BridgeStep == Control /\ DataInv /\ [Next]_vars => DataInv'
<1> SUFFICES ASSUME TypeOK, Turns, DataInv, [Next]_vars PROVE DataInv'
  BY DEF Control
<1>1. Effect
  BY StepKinds
<1> QED
  BY <1>1, ProducedKeeps, QueuedKeeps, ShownKeeps, TakenKeeps, SentKeeps,
     DroppedKeeps, AdmittedKeeps, AbandonedKeeps, RestartKeeps, StillKeeps
     DEF Effect

BridgeInv == Control /\ DataInv

(* The inductive invariant: types, one call at a time of each goroutine,   *)
(* order along the way (from the stamp through the calls under way to the  *)
(* channel and the stream), one key per event and the window of the LRU.   *)
THEOREM BridgeKept == Spec => []BridgeInv
<1>1. Spec => []DataInv
  BY BridgeInitially, BridgeStep, TypesKept, PTL DEF Spec
<1>2. Control /\ DataInv => BridgeInv
  BY DEF BridgeInv
<1> QED
  BY <1>1, <1>2, TypesKept, PTL

(* No event is shown twice by a hub within LruCap peer events, and an      *)
(* event of the node's own broker never.                                   *)
THEOREM NoDuplicatesInWindow == Spec => []DedupWindow
<1>1. BridgeInv => DedupWindow
  BY DEF BridgeInv, DataInv
<1> QED
  BY <1>1, BridgeKept, PTL

(* Whatever is lost, repeated or restarted, and however the calls of       *)
(* Publish overtake each other between stamping and sending, no node sees  *)
(* the events about one client of another for the first time out of order. *)
THEOREM EventsInOriginOrder == Spec => []OriginOrder
<1>1. BridgeInv => OriginOrder
  <2> SUFFICES ASSUME BridgeInv, NEW n \in Nodes, NEW i \in DOMAIN merged[n],
                      NEW j \in DOMAIN merged[n], i < j, FirstShown(n, j),
                      merged[n][i].node = merged[n][j].node,
                      merged[n][i].client = merged[n][j].client
               PROVE  merged[n][i].id < merged[n][j].id
    BY DEF OriginOrder
  <2>1. merged[n] \in Seq(Event)
    BY DEF BridgeInv, Control, TypeOK
  <2>2. i \in 1..(j - 1) /\ merged[n][i] \in Event /\ merged[n][j] \in Event
    BY <2>1
  <2>3. merged[n][i].id <= merged[n][j].id
    BY DEF BridgeInv, DataInv, InOrder, Ordered, SameOrigin
  <2>4. merged[n][i].id # merged[n][j].id
    BY <2>2 DEF FirstShown
  <2> QED
    BY <2>2, <2>3, <2>4 DEF Event
<1> QED
  BY <1>1, BridgeKept, PTL

(* Until a node restarts, the LRU refuses only what the hub has shown.     *)
THEOREM OnlyShownDiscarded == Spec => []OnlyDuplicatesDiscarded
<1>1. BridgeInv => OnlyDuplicatesDiscarded
  BY DEF BridgeInv, DataInv, KeysNameEvents, ShownIds, Range, OnlyDuplicatesDiscarded
<1> QED
  BY <1>1, BridgeKept, PTL
============================================================================
