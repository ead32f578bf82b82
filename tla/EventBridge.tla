---------------------------- MODULE EventBridge ----------------------------
(***************************************************************************)
(* Cluster-wide events: on every node a Bridge                             *)
(* (dashboard/sse/bridge_redis.go) forwards the events of its own hub to a *)
(* Redis pub/sub channel and merges the events of its peers into its hub.  *)
(*                                                                         *)
(* Publish stamps the event first and sends it to the hub's subscribers    *)
(* later, so calls of several goroutines may overtake each other, on every *)
(* channel in another way.  Two subscribers are here: the bridge's own     *)
(* publisher goroutine, for which an event is dropped when its channel is  *)
(* full, and a stream that never is (Hub.tla has streams that come, stall  *)
(* and leave).  The log merged is what that stream was sent.               *)
(*                                                                         *)
(* Redis is external: it delivers a PUBLISH in order to the subscribers    *)
(* that are connected, and a subscriber may miss one.  go-redis repeats a  *)
(* PUBLISH whose reply was lost.  A node may stop its bridge and may       *)
(* restart under its old name.                                             *)
(***************************************************************************)
EXTENDS Naturals, Sequences, FiniteSets

CONSTANTS
    Nodes,
    Clients,      \* the connections of a broker: each has its goroutine
    ChanCap,      \* the hub's bufSize
    LruCap,       \* Bridge.BufSize: capacity of the dedup LRU
    MaxEvents,    \* bound: events the brokers produce
    MaxFaults,    \* bound: lost or repeated PUBLISHes
    MaxStops,     \* bound: calls of Bridge.Stop
    MaxRestarts   \* bound: node restarts

ASSUME CapAssumption ==
    /\ ChanCap \in Nat \ {0}
    /\ LruCap \in Nat \ {0}
    /\ {MaxEvents, MaxFaults, MaxStops, MaxRestarts} \subseteq Nat

VARIABLES
    hubSeq,     \* Hub.seq of each node
    calls,      \* the calls of Hub.Publish under way on each node
    pubCh,      \* the channel runPublisher got from Hub.Subscribe
    sending,    \* the event runPublisher is in Client.Publish with, if any
    inbox,      \* messages Redis has pushed to the node's subscription
    lru,        \* dedup.order (dedup.set holds the same keys)
    pubPC,      \* the runPublisher goroutine
    subPC,      \* the runSubscriber goroutine
    ctl,        \* the Bridge: started, Stop called, Stop returned
    merged,     \* history: what a stream was sent since the node started
    discarded,  \* history: ids of peer events the dedup LRU refused
    nextId, faults, stops, restarts

hubVars    == <<hubSeq, calls>>
bridgeVars == <<hubVars, pubCh, sending, inbox, lru, pubPC, subPC, ctl,
                merged, discarded>>
countVars  == <<nextId, faults, stops, restarts>>
vars       == <<bridgeVars, countVars>>

(* An event: the node that produced it and the client it is about, the Seq *)
(* its hub stamped last, and (to tell events apart in properties) the      *)
(* number of its production.                                               *)
Event == [node : Nodes, client : Clients, seq : Nat, id : Nat]
Key   == [node : Nodes, seq : Nat]

(* A call of Publish has stamped its event and has still to send it to the *)
(* subscribers in todo.                                                    *)
Subscribers == {"publisher", "stream"}
Call == [event : Event, todo : (SUBSET Subscribers) \ {{}}]

TypeOK ==
    /\ hubSeq \in [Nodes -> Nat]
    /\ calls \in [Nodes -> SUBSET Call]
    /\ pubCh \in [Nodes -> Seq(Event)]
    /\ sending \in [Nodes -> Seq(Event)]
    /\ inbox \in [Nodes -> Seq(Event)]
    /\ lru \in [Nodes -> Seq(Key)]
    /\ pubPC \in [Nodes -> {"start", "run", "exited"}]
    /\ subPC \in [Nodes -> {"start", "run", "exited"}]
    /\ ctl \in [Nodes -> {"started", "stopping", "stopped"}]
    /\ merged \in [Nodes -> Seq(Event)]
    /\ discarded \in [Nodes -> SUBSET Nat]
    /\ nextId \in 1..(MaxEvents + 1)
    /\ faults \in 0..MaxFaults /\ stops \in 0..MaxStops
    /\ restarts \in 0..MaxRestarts
    /\ \A n \in Nodes :
        /\ Len(pubCh[n]) <= ChanCap
        /\ Len(sending[n]) <= 1
        /\ Len(lru[n]) <= LruCap

(* Start has launched the two goroutines of every node.                    *)
Init ==
    /\ hubSeq = [n \in Nodes |-> 0]
    /\ calls = [n \in Nodes |-> {}]
    /\ pubCh = [n \in Nodes |-> <<>>]
    /\ sending = [n \in Nodes |-> <<>>]
    /\ inbox = [n \in Nodes |-> <<>>]
    /\ lru = [n \in Nodes |-> <<>>]
    /\ pubPC = [n \in Nodes |-> "start"]
    /\ subPC = [n \in Nodes |-> "start"]
    /\ ctl = [n \in Nodes |-> "started"]
    /\ merged = [n \in Nodes |-> <<>>]
    /\ discarded = [n \in Nodes |-> {}]
    /\ nextId = 1 /\ faults = 0 /\ stops = 0 /\ restarts = 0

----------------------------------------------------------------------------
(* Hub.Publish on node n stamps e, before it takes the lock.               *)
HubPublish(n, e) ==
    /\ hubSeq' = [hubSeq EXCEPT ![n] = @ + 1]
    /\ calls' = [calls EXCEPT ![n] = @ \cup
                   {[event |-> [e EXCEPT !.seq = hubSeq[n] + 1],
                     todo  |-> Subscribers]}]

(* Its loop has served s; Publish returns after the last subscriber.       *)
Served(n, c, s) ==
    /\ c \in calls[n] /\ s \in c.todo
    /\ calls' = [calls EXCEPT ![n] = (@ \ {c}) \cup
                   IF c.todo = {s} THEN {} ELSE {[c EXCEPT !.todo = @ \ {s}]}]

SendToPublisher(n) ==
    /\ \E c \in calls[n] :
        /\ Served(n, c, "publisher")
        /\ pubCh' = IF pubPC[n] = "run" /\ Len(pubCh[n]) < ChanCap
                    THEN [pubCh EXCEPT ![n] = Append(@, c.event)]
                    ELSE pubCh
    /\ UNCHANGED <<hubSeq, sending, inbox, lru, pubPC, subPC, ctl, merged,
                   discarded, countVars>>

SendToStream(n) ==
    /\ \E c \in calls[n] :
        /\ Served(n, c, "stream")
        /\ merged' = [merged EXCEPT ![n] = Append(@, c.event)]
    /\ UNCHANGED <<hubSeq, pubCh, sending, inbox, lru, pubPC, subPC, ctl,
                   discarded, countVars>>

FanOut(n) == SendToPublisher(n) \/ SendToStream(n)

(* No call is inside the loop, where it holds the read lock: Subscribe and *)
(* Unsubscribe, which take the write lock, can run.                        *)
LockFree(n) == \A c \in calls[n] : c.todo = Subscribers

(* A hook of node n's broker, running in client c's goroutine, publishes   *)
(* an event (HubHook sets Node); the goroutine is in no other Publish.     *)
LocalEvent(n, c) ==
    /\ nextId <= MaxEvents
    /\ \A p \in calls[n] : p.event.node = n => p.event.client # c
    /\ nextId' = nextId + 1
    /\ HubPublish(n, [node |-> n, client |-> c, seq |-> 0, id |-> nextId])
    /\ UNCHANGED <<pubCh, sending, inbox, lru, pubPC, subPC, ctl, merged,
                   discarded, faults, stops, restarts>>

----------------------------------------------------------------------------
(* runPublisher.                                                           *)

PublisherSubscribe(n) ==
    /\ pubPC[n] = "start"
    /\ LockFree(n)
    /\ pubPC' = [pubPC EXCEPT ![n] = "run"]
    /\ UNCHANGED <<hubVars, pubCh, sending, inbox, lru, subPC, ctl, merged,
                   discarded, countVars>>

TakeForeignToo(n) ==
    /\ pubPC[n] = "run" /\ sending[n] = <<>> /\ pubCh[n] # <<>>
    /\ pubCh' = [pubCh EXCEPT ![n] = Tail(@)]
    /\ sending' = [sending EXCEPT ![n] = <<Head(pubCh[n])>>]
    /\ UNCHANGED <<hubVars, inbox, lru, pubPC, subPC, ctl, merged, discarded,
                   countVars>>

TakeSkippingOwn(n) ==
    /\ pubPC[n] = "run" /\ sending[n] = <<>> /\ pubCh[n] # <<>>
    /\ pubCh' = [pubCh EXCEPT ![n] = Tail(@)]
    /\ sending' = [sending EXCEPT ![n] =
                     IF Head(pubCh[n]).node = n
                     THEN <<>> ELSE <<Head(pubCh[n])>>]
    /\ UNCHANGED <<hubVars, inbox, lru, pubPC, subPC, ctl, merged, discarded,
                   countVars>>

(* Receive from the hub; an event of another node is skipped.              *)
Take(n) ==
    /\ pubPC[n] = "run" /\ sending[n] = <<>> /\ pubCh[n] # <<>>
    /\ pubCh' = [pubCh EXCEPT ![n] = Tail(@)]
    /\ \/ Head(pubCh[n]).node # n /\ UNCHANGED sending
       \/ /\ Head(pubCh[n]).node = n
          /\ sending' = [sending EXCEPT ![n] = <<Head(pubCh[n])>>]
    /\ UNCHANGED <<hubVars, inbox, lru, pubPC, subPC, ctl, merged, discarded,
                   countVars>>

Connected == {m \in Nodes : subPC[m] = "run"}

(* PUBLISH reaches the subscribers in S, the sender's own included.        *)
Deliver(n, S) ==
    /\ sending[n] # <<>>
    /\ inbox' = [m \in Nodes |->
                    IF m \in S THEN inbox[m] \o sending[n] ELSE inbox[m]]

Forward(n) ==
    /\ Deliver(n, Connected)
    /\ sending' = [sending EXCEPT ![n] = <<>>]
    /\ UNCHANGED <<hubVars, pubCh, lru, pubPC, subPC, ctl, merged, discarded,
                   countVars>>

(* The PUBLISH fails, or misses some subscribers: its error is ignored.    *)
ForwardLossy(n, S) ==
    /\ faults < MaxFaults
    /\ S # Connected
    /\ faults' = faults + 1
    /\ Deliver(n, S)
    /\ sending' = [sending EXCEPT ![n] = <<>>]
    /\ UNCHANGED <<hubVars, pubCh, lru, pubPC, subPC, ctl, merged, discarded,
                   nextId, stops, restarts>>

(* The reply is lost: go-redis will send the same PUBLISH again.           *)
ForwardReplyLost(n) ==
    /\ faults < MaxFaults
    /\ faults' = faults + 1
    /\ Deliver(n, Connected)
    /\ UNCHANGED <<hubVars, pubCh, sending, lru, pubPC, subPC, ctl, merged,
                   discarded, nextId, stops, restarts>>

----------------------------------------------------------------------------
(* runSubscriber.                                                          *)

SubscriberSubscribe(n) ==
    /\ subPC[n] = "start"
    /\ subPC' = [subPC EXCEPT ![n] = "run"]
    /\ UNCHANGED <<hubVars, pubCh, sending, inbox, lru, pubPC, ctl, merged,
                   discarded, countVars>>

KeyWithoutSeq(e) == [node |-> e.node, seq |-> 0]

KeyOf(e) == [node |-> e.node, seq |-> e.seq]

LruHas(l, k) == \E i \in DOMAIN l : l[i] = k

(* lru.add of a new key: the oldest entry makes room.                      *)
LruInsert(l, k) == Append(IF Len(l) >= LruCap THEN Tail(l) ELSE l, k)

NeverMerging(n) == FALSE

(* The goroutine is in Hub.Publish with a peer's event.                    *)
Merging(n) == \E c \in calls[n] : c.event.node # n

(* One message: own echoes and known keys are skipped, the rest goes to    *)
(* the local hub, which stamps it afresh.                                  *)
Receive(n) ==
    /\ subPC[n] = "run" /\ inbox[n] # <<>>
    /\ ~Merging(n)
    /\ inbox' = [inbox EXCEPT ![n] = Tail(@)]
    /\ LET e == Head(inbox[n]) IN
       \/ e.node = n /\ UNCHANGED <<hubVars, lru, discarded>>
       \/ /\ e.node # n /\ LruHas(lru[n], KeyOf(e))
          /\ discarded' = [discarded EXCEPT ![n] = @ \cup {e.id}]
          /\ UNCHANGED <<hubVars, lru>>
       \/ /\ e.node # n /\ ~LruHas(lru[n], KeyOf(e))
          /\ lru' = [lru EXCEPT ![n] = LruInsert(@, KeyOf(e))]
          /\ HubPublish(n, e)
          /\ UNCHANGED discarded
    /\ UNCHANGED <<pubCh, sending, pubPC, subPC, ctl, merged, countVars>>

----------------------------------------------------------------------------
(* Stop, and the exit of the goroutines it waits for.                      *)

Stop(n) ==
    /\ ctl[n] = "started"
    /\ stops < MaxStops
    /\ stops' = stops + 1
    /\ ctl' = [ctl EXCEPT ![n] = "stopping"]
    /\ UNCHANGED <<hubVars, pubCh, sending, inbox, lru, pubPC, subPC, merged,
                   discarded, nextId, faults, restarts>>

PublisherExitOnClosedHub(n) == FALSE

(* ctx is cancelled: a pending Client.Publish returns, the loop returns,   *)
(* and the deferred Unsubscribe drops what the channel still holds.        *)
PublisherExit(n) ==
    /\ ctl[n] = "stopping"
    /\ pubPC[n] = "run"
    /\ LockFree(n)
    /\ pubPC' = [pubPC EXCEPT ![n] = "exited"]
    /\ pubCh' = [pubCh EXCEPT ![n] = <<>>]
    /\ sending' = [sending EXCEPT ![n] = <<>>]
    /\ UNCHANGED <<hubVars, inbox, lru, subPC, ctl, merged, discarded,
                   countVars>>

(* The subscriber sees the cancelled ctx only after Hub.Publish returned.  *)
SubscriberExit(n) ==
    /\ ctl[n] = "stopping"
    /\ subPC[n] = "run"
    /\ ~Merging(n)
    /\ subPC' = [subPC EXCEPT ![n] = "exited"]
    /\ inbox' = [inbox EXCEPT ![n] = <<>>]
    /\ UNCHANGED <<hubVars, pubCh, sending, lru, pubPC, ctl, merged, discarded,
                   countVars>>

StopReturnWithoutWait(n) ==
    /\ ctl[n] = "stopping"
    /\ ctl' = [ctl EXCEPT ![n] = "stopped"]
    /\ UNCHANGED <<hubVars, pubCh, sending, inbox, lru, pubPC, subPC, merged,
                   discarded, countVars>>

(* wg.Wait returns.                                                        *)
StopReturn(n) ==
    /\ ctl[n] = "stopping"
    /\ pubPC[n] = "exited" /\ subPC[n] = "exited"
    /\ ctl' = [ctl EXCEPT ![n] = "stopped"]
    /\ UNCHANGED <<hubVars, pubCh, sending, inbox, lru, pubPC, subPC, merged,
                   discarded, countVars>>

(* The process restarts under the same node name: hub and bridge are new.  *)
Restart(n) ==
    /\ restarts < MaxRestarts
    /\ restarts' = restarts + 1
    /\ hubSeq' = [hubSeq EXCEPT ![n] = 0]
    /\ calls' = [calls EXCEPT ![n] = {}]
    /\ pubCh' = [pubCh EXCEPT ![n] = <<>>]
    /\ sending' = [sending EXCEPT ![n] = <<>>]
    /\ inbox' = [inbox EXCEPT ![n] = <<>>]
    /\ lru' = [lru EXCEPT ![n] = <<>>]
    /\ pubPC' = [pubPC EXCEPT ![n] = "start"]
    /\ subPC' = [subPC EXCEPT ![n] = "start"]
    /\ ctl' = [ctl EXCEPT ![n] = "started"]
    /\ merged' = [merged EXCEPT ![n] = <<>>]
    /\ discarded' = [discarded EXCEPT ![n] = {}]
    /\ UNCHANGED <<nextId, faults, stops>>

----------------------------------------------------------------------------
PublisherStep(n) ==
    \/ PublisherSubscribe(n) \/ Take(n) \/ Forward(n) \/ PublisherExit(n)

SubscriberStep(n) ==
    \/ SubscriberSubscribe(n) \/ Receive(n) \/ SubscriberExit(n)

Next ==
    \E n \in Nodes :
        \/ \E c \in Clients : LocalEvent(n, c)
        \/ FanOut(n)
        \/ PublisherStep(n)
        \/ \E S \in SUBSET Connected : ForwardLossy(n, S)
        \/ ForwardReplyLost(n)
        \/ SubscriberStep(n)
        \/ Stop(n) \/ StopReturn(n)
        \/ Restart(n)

(* The goroutines run; select does not ignore a cancelled context for      *)
(* ever; Stop's caller is waiting for it.                                  *)
Fairness ==
    \A n \in Nodes :
        /\ WF_vars(FanOut(n))
        /\ WF_vars(PublisherStep(n)) /\ WF_vars(SubscriberStep(n))
        /\ SF_vars(PublisherExit(n)) /\ SF_vars(SubscriberExit(n))
        /\ WF_vars(StopReturn(n))

Spec == Init /\ [][Next]_vars /\ Fairness

----------------------------------------------------------------------------
(* Properties.                                                             *)

PeerMergesBetween(n, i, j) ==
    {k \in (i + 1)..(j - 1) : merged[n][k].node # n}

(* No loops and no duplicates: a hub shows an event of its own broker once *)
(* although Redis echoes it, and a peer's event once although it may be    *)
(* published repeatedly, unless LruCap other peer events came in between.  *)
DedupWindow ==
    \A n \in Nodes : \A i, j \in DOMAIN merged[n] :
        i < j /\ merged[n][i].id = merged[n][j].id =>
            /\ merged[n][i].node # n
            /\ Cardinality(PeerMergesBetween(n, i, j)) >= LruCap

FirstShown(n, i) == \A h \in 1..(i - 1) : merged[n][h].id # merged[n][i].id

(* The events about one client of a node first appear on every node in the *)
(* order in which that node produced them, although its hub stamps and     *)
(* sends them in steps that the calls of other clients may overtake.       *)
OriginOrder ==
    \A n \in Nodes : \A i, j \in DOMAIN merged[n] :
        /\ i < j /\ FirstShown(n, i) /\ FirstShown(n, j)
        /\ merged[n][i].node = merged[n][j].node
        /\ merged[n][i].client = merged[n][j].client
        => merged[n][i].id < merged[n][j].id

(* "dedupes ... an event we already saw": as long as no node restarts (and *)
(* stamps from 1 again under its old name), what the LRU discards has been *)
(* merged into this hub before.                                            *)
OnlyDuplicatesDiscarded ==
    restarts = 0 => \A n \in Nodes : \A d \in discarded[n] :
        \E i \in DOMAIN merged[n] : merged[n][i].id = d

(* Once Stop has returned, the bridge neither merges a peer's event into   *)
(* the hub nor publishes to Redis.                                         *)
QuietAfterStop ==
    [][\A n \in Nodes :
        ctl[n] = "stopped" /\ ctl'[n] = "stopped" =>
            /\ sending'[n] = <<>>
            /\ \A i \in DOMAIN merged'[n] \ DOMAIN merged[n] :
                    merged'[n][i].node = n]_vars

(* Stop returns, whatever the goroutines were doing when it was called.    *)
StopTerminates == \A n \in Nodes : ctl[n] = "stopping" ~> ctl[n] # "stopping"

(* While no PUBLISH is lost, no node restarts and nobody stops, an event   *)
(* of node n that its publisher has queued is merged on every node then    *)
(* subscribed.                                                             *)
EventuallyMerged ==
    \A n, m \in Nodes : \A d \in 1..MaxEvents :
        /\ subPC[m] = "run"
        /\ \E i \in DOMAIN pubCh[n] : pubCh[n][i].id = d /\ pubCh[n][i].node = n
        ~> \/ \E i \in DOMAIN merged[m] : merged[m][i].id = d
           \/ faults + stops + restarts > 0
============================================================================
