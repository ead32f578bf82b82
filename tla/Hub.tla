-------------------------------- MODULE Hub --------------------------------
(***************************************************************************)
(* The dashboard's event hub (dashboard/sse/hub.go) with everything that   *)
(* runs against it concurrently:                                           *)
(*                                                                         *)
(*   Clients  the broker goroutine of each MQTT client.  The hooks of      *)
(*            dashboard/sse/hooks.go call Hub.Publish on it.               *)
(*   Streams  one GET /dashboard/events request each                       *)
(*            (dashboard/handlers/events.go): Subscribe, a receive loop,   *)
(*            and the deferred Unsubscribe.  A stream owns one channel, so *)
(*            the channel has the name of its stream.                      *)
(*   Closers  goroutines that call Hub.Close.                              *)
(*                                                                         *)
(* A step is one atomic operation, one lock operation or one critical      *)
(* section under the write lock.  h.subs is a set: a channel is appended   *)
(* once, and the fan-out loop may visit the channels in any order.         *)
(***************************************************************************)
EXTENDS Naturals, Sequences, FiniteSets

CONSTANTS
    Clients,
    Streams,
    Closers,
    NoOne,       \* the value of writer when nobody holds the write lock
    BufSize,     \* NewHub's argument
    MaxFilters,  \* bound: filters in one SUBSCRIBE or UNSUBSCRIBE packet
    MaxCalls     \* bound: hook calls in a behaviour

ASSUME BoundsAssumption ==
    /\ BufSize \in Nat \ {0}
    /\ MaxFilters \in Nat \ {0}
    /\ MaxCalls \in Nat

ASSUME GoroutineAssumption ==
    /\ Clients \cap Streams = {}
    /\ Clients \cap Closers = {}
    /\ Streams \cap Closers = {}
    /\ NoOne \notin Clients \cup Streams \cup Closers

VARIABLES
    subs,      \* h.subs: the subscribed channels
    drops,     \* h.drops
    seq,       \* h.seq
    closed,    \* h.closed
    readers,   \* goroutines inside h.mu.RLock ... RUnlock
    writer,    \* goroutine that called h.mu.Lock and has not unlocked: while
               \* it waits for the readers to leave it already bars new ones
    chan,      \* state of each stream's Go channel
    buf,       \* its buffered events
    cpc,       \* where the goroutine of each client is
    spc,       \* where each stream's handler is
    kpc,       \* where each closer is
    todo,      \* events the hook call of a client has still to publish
    ev,        \* the stamped event Publish is fanning out for a client
    rest,      \* channels the fan-out loop of a client has still to visit
    ctxDone,   \* the request context of a stream is cancelled
    got,       \* history: what each stream has written to its response
    from,      \* history: value of h.seq when each stream subscribed
    calls,     \* number of hook calls so far
    panicked   \* send on, or close of, a closed channel: the process dies

hubVars    == <<subs, drops, seq, closed>>
lockVars   == <<readers, writer>>
clientVars == <<cpc, todo, ev, rest, calls>>
streamVars == <<spc, chan, buf, ctxDone, got, from>>
vars       == <<hubVars, lockVars, clientVars, streamVars, kpc, panicked>>

(* The part of sse.Event a property can tell apart: the Seq that Publish   *)
(* stamps and the client_id the hook puts into the payload.                *)
Event == [seq : Nat, client : Clients]

NoEvent(c) == [seq |-> 0, client |-> c]

TypeOK ==
    /\ subs \subseteq Streams
    /\ drops \in Nat
    /\ seq \in Nat
    /\ closed \in BOOLEAN
    /\ readers \subseteq Clients
    /\ writer \in Streams \cup Closers \cup {NoOne}
    /\ chan \in [Streams -> {"none", "open", "closed"}]
    /\ buf \in [Streams -> Seq(Event)]
    /\ cpc \in [Clients -> {"idle", "check", "stamp", "rlock", "send"}]
    /\ spc \in [Streams -> {"sub", "stream", "unsub", "done"}]
    /\ kpc \in [Closers -> {"idle", "close", "done"}]
    /\ todo \in [Clients -> Nat]
    /\ ev \in [Clients -> Event]
    /\ rest \in [Clients -> SUBSET Streams]
    /\ ctxDone \in [Streams -> BOOLEAN]
    /\ got \in [Streams -> Seq(Event)]
    /\ from \in [Streams -> Nat]
    /\ calls \in Nat
    /\ panicked \in BOOLEAN

(* NewHub: no subscriber, counters at zero, not closed.                    *)
Init ==
    /\ subs = {}
    /\ drops = 0
    /\ seq = 0
    /\ closed = FALSE
    /\ readers = {}
    /\ writer = NoOne
    /\ chan = [s \in Streams |-> "none"]
    /\ buf = [s \in Streams |-> <<>>]
    /\ cpc = [c \in Clients |-> "idle"]
    /\ spc = [s \in Streams |-> "sub"]
    /\ kpc = [k \in Closers |-> "idle"]
    /\ todo = [c \in Clients |-> 0]
    /\ ev = [c \in Clients |-> NoEvent(c)]
    /\ rest = [c \in Clients |-> {}]
    /\ ctxDone = [s \in Streams |-> FALSE]
    /\ got = [s \in Streams |-> <<>>]
    /\ from = [s \in Streams |-> 0]
    /\ calls = 0
    /\ panicked = FALSE

----------------------------------------------------------------------------
(* The lock.  sync.RWMutex.Lock first wins the writers' mutex, which stops *)
(* new readers, and then waits for the readers inside to leave.            *)

LockRequested(g) ==
    /\ writer = NoOne
    /\ \/ g \in Streams /\ spc[g] \in {"sub", "unsub"}
       \/ g \in Closers /\ kpc[g] = "close"
    /\ writer' = g
    /\ UNCHANGED <<hubVars, readers, clientVars, streamVars, kpc, panicked>>

(* The guard of every critical section under the write lock.               *)
WriteLocked(g) == writer = g /\ readers = {}

----------------------------------------------------------------------------
(* Hooks and Publish, on the goroutine of an MQTT client.                  *)

(* OnConnect, OnDisconnect and OnPublished publish one event, OnSubscribed *)
(* and OnUnsubscribed one for each filter of the packet.                   *)
HookCall(c, n) ==
    /\ cpc[c] = "idle"
    /\ calls < MaxCalls
    /\ calls' = calls + 1
    /\ todo' = [todo EXCEPT ![c] = n]
    /\ cpc' = [cpc EXCEPT ![c] = "check"]
    /\ UNCHANGED <<hubVars, lockVars, ev, rest, streamVars, kpc, panicked>>

(* Publish returns to the hook, which publishes its next event or returns. *)
PublishReturn(c) ==
    /\ todo' = [todo EXCEPT ![c] = @ - 1]
    /\ cpc' = [cpc EXCEPT ![c] = IF todo[c] > 1 THEN "check" ELSE "idle"]

PublishCheckClosed(c) ==
    /\ cpc[c] = "check"
    /\ \/ closed /\ PublishReturn(c)
       \/ ~closed /\ cpc' = [cpc EXCEPT ![c] = "stamp"] /\ UNCHANGED todo
    /\ UNCHANGED <<hubVars, lockVars, ev, rest, calls, streamVars, kpc,
                   panicked>>

PublishStampLoad(c) ==
    /\ cpc[c] = "stamp"
    /\ ev' = [ev EXCEPT ![c] = [seq |-> seq + 1, client |-> c]]
    /\ cpc' = [cpc EXCEPT ![c] = "rlock"]
    /\ UNCHANGED <<hubVars, lockVars, todo, rest, calls, streamVars, kpc,
                   panicked>>

PublishStamp(c) ==
    /\ cpc[c] = "stamp"
    /\ seq' = seq + 1
    /\ ev' = [ev EXCEPT ![c] = [seq |-> seq + 1, client |-> c]]
    /\ cpc' = [cpc EXCEPT ![c] = "rlock"]
    /\ UNCHANGED <<subs, drops, closed, lockVars, todo, rest, calls,
                   streamVars, kpc, panicked>>

PublishRLock(c) ==
    /\ cpc[c] = "rlock"
    /\ writer = NoOne
    /\ readers' = readers \cup {c}
    /\ rest' = [rest EXCEPT ![c] = subs]
    /\ cpc' = [cpc EXCEPT ![c] = "send"]
    /\ UNCHANGED <<hubVars, writer, todo, ev, calls, streamVars, kpc, panicked>>

PublishSendBlocking(c, s) ==
    /\ cpc[c] = "send"
    /\ s \in rest[c]
    /\ Len(buf[s]) < BufSize
    /\ rest' = [rest EXCEPT ![c] = @ \ {s}]
    /\ buf' = [buf EXCEPT ![s] = Append(@, ev[c])]
    /\ UNCHANGED <<hubVars, lockVars, cpc, todo, ev, calls, spc, chan, ctxDone,
                   got, from, kpc, panicked>>

PublishSendUncounted(c, s) ==
    /\ cpc[c] = "send"
    /\ s \in rest[c]
    /\ rest' = [rest EXCEPT ![c] = @ \ {s}]
    /\ buf' = IF Len(buf[s]) < BufSize
              THEN [buf EXCEPT ![s] = Append(@, ev[c])] ELSE buf
    /\ UNCHANGED <<hubVars, lockVars, cpc, todo, ev, calls, spc, chan, ctxDone,
                   got, from, kpc, panicked>>

(* One turn of the fan-out loop: a non-blocking send.                      *)
PublishSend(c, s) ==
    /\ cpc[c] = "send"
    /\ s \in rest[c]
    /\ rest' = [rest EXCEPT ![c] = @ \ {s}]
    /\ \/ /\ chan[s] = "closed"
          /\ panicked' = TRUE
          /\ UNCHANGED <<buf, drops>>
       \/ /\ chan[s] = "open" /\ Len(buf[s]) < BufSize
          /\ buf' = [buf EXCEPT ![s] = Append(@, ev[c])]
          /\ UNCHANGED <<drops, panicked>>
       \/ /\ chan[s] = "open" /\ Len(buf[s]) >= BufSize
          /\ drops' = drops + 1
          /\ UNCHANGED <<buf, panicked>>
    /\ UNCHANGED <<subs, seq, closed, lockVars, cpc, todo, ev, calls, spc, chan,
                   ctxDone, got, from, kpc>>

PublishRUnlock(c) ==
    /\ cpc[c] = "send"
    /\ rest[c] = {}
    /\ readers' = readers \ {c}
    /\ ev' = [ev EXCEPT ![c] = NoEvent(c)]
    /\ PublishReturn(c)
    /\ UNCHANGED <<hubVars, writer, rest, calls, streamVars, kpc, panicked>>

----------------------------------------------------------------------------
(* The Events handler: one HTTP request, which arrives when its handler    *)
(* asks for the write lock in Subscribe.                                   *)

Subscribe(s) ==
    /\ spc[s] = "sub"
    /\ WriteLocked(s)
    /\ chan' = [chan EXCEPT ![s] = "open"]
    /\ subs' = subs \cup {s}
    /\ from' = [from EXCEPT ![s] = seq]
    /\ writer' = NoOne
    /\ spc' = [spc EXCEPT ![s] = "stream"]
    /\ UNCHANGED <<drops, seq, closed, readers, clientVars, buf, ctxDone, got,
                   kpc, panicked>>

(* The browser goes away: net/http cancels the request's context.          *)
ClientGone(s) ==
    /\ spc[s] = "stream"
    /\ ~ctxDone[s]
    /\ ctxDone' = [ctxDone EXCEPT ![s] = TRUE]
    /\ UNCHANGED <<hubVars, lockVars, clientVars, spc, chan, buf, got, from,
                   kpc, panicked>>

Receive(s) ==
    /\ spc[s] = "stream"
    /\ buf[s] # <<>>
    /\ got' = [got EXCEPT ![s] = Append(@, Head(buf[s]))]
    /\ buf' = [buf EXCEPT ![s] = Tail(@)]
    /\ UNCHANGED <<hubVars, lockVars, clientVars, spc, chan, ctxDone, from, kpc,
                   panicked>>

StreamReturnOnlyOnCancel(s) ==
    /\ spc[s] = "stream"
    /\ ctxDone[s]
    /\ spc' = [spc EXCEPT ![s] = "unsub"]
    /\ UNCHANGED <<hubVars, lockVars, clientVars, chan, buf, ctxDone, got,
                   from, kpc, panicked>>

(* The two returns of the receive loop: ctx.Done, or a receive from a      *)
(* channel that is closed and drained.  The deferred Unsubscribe follows.  *)
StreamReturn(s) ==
    /\ spc[s] = "stream"
    /\ \/ ctxDone[s]
       \/ chan[s] = "closed" /\ buf[s] = <<>>
    /\ spc' = [spc EXCEPT ![s] = "unsub"]
    /\ UNCHANGED <<hubVars, lockVars, clientVars, chan, buf, ctxDone, got,
                   from, kpc, panicked>>

(* A channel that is no longer in h.subs is left alone.                    *)
Unsubscribe(s) ==
    /\ spc[s] = "unsub"
    /\ WriteLocked(s)
    /\ panicked' = (panicked \/ (s \in subs /\ chan[s] = "closed"))
    /\ chan' = IF s \in subs THEN [chan EXCEPT ![s] = "closed"] ELSE chan
    /\ subs' = subs \ {s}
    /\ writer' = NoOne
    /\ spc' = [spc EXCEPT ![s] = "done"]
    /\ UNCHANGED <<drops, seq, closed, readers, clientVars, buf, ctxDone, got,
                   from, kpc>>

----------------------------------------------------------------------------
(* Close: the compare-and-swap, then the critical section.                 *)

CloseSwap(k) ==
    /\ kpc[k] = "idle"
    /\ closed' = TRUE
    /\ kpc' = [kpc EXCEPT ![k] = IF closed THEN "done" ELSE "close"]
    /\ UNCHANGED <<subs, drops, seq, lockVars, clientVars, streamVars, panicked>>

CloseAllKeepingSubs(k) ==
    /\ kpc[k] = "close"
    /\ WriteLocked(k)
    /\ panicked' = (panicked \/ \E s \in subs : chan[s] = "closed")
    /\ chan' = [s \in Streams |-> IF s \in subs THEN "closed" ELSE chan[s]]
    /\ writer' = NoOne
    /\ kpc' = [kpc EXCEPT ![k] = "done"]
    /\ UNCHANGED <<hubVars, readers, clientVars, spc, buf, ctxDone, got, from>>

CloseAll(k) ==
    /\ kpc[k] = "close"
    /\ WriteLocked(k)
    /\ panicked' = (panicked \/ \E s \in subs : chan[s] = "closed")
    /\ chan' = [s \in Streams |-> IF s \in subs THEN "closed" ELSE chan[s]]
    /\ subs' = {}
    /\ writer' = NoOne
    /\ kpc' = [kpc EXCEPT ![k] = "done"]
    /\ UNCHANGED <<drops, seq, closed, readers, clientVars, spc, buf, ctxDone,
                   got, from>>

----------------------------------------------------------------------------
ClientStep(c) ==
    \/ PublishCheckClosed(c)
    \/ PublishStamp(c)
    \/ PublishRLock(c)
    \/ \E s \in Streams : PublishSend(c, s)
    \/ PublishRUnlock(c)

StreamStep(s) ==
    \/ Subscribe(s)
    \/ ClientGone(s)
    \/ Receive(s)
    \/ StreamReturn(s)
    \/ Unsubscribe(s)

CloserStep(k) == CloseSwap(k) \/ CloseAll(k)

Next ==
    \/ \E c \in Clients : ClientStep(c)
    \/ \E c \in Clients, n \in 1..MaxFilters : HookCall(c, n)
    \/ \E s \in Streams : StreamStep(s)
    \/ \E k \in Closers : CloserStep(k)
    \/ \E g \in Streams \cup Closers : LockRequested(g)

(* A goroutine that can run does run, and sync.RWMutex starves neither a   *)
(* writer (a pending Lock bars new readers) nor a reader (Unlock lets the  *)
(* waiting readers in first).  Nothing is assumed of the browsers here: a  *)
(* stream may stop reading for ever.                                       *)
LockFairness ==
    /\ \A s \in Streams : SF_vars(spc[s] = "unsub" /\ LockRequested(s))
    /\ \A k \in Closers : SF_vars(LockRequested(k))
    /\ \A s \in Streams : WF_vars(Subscribe(s) \/ Unsubscribe(s))
    /\ \A k \in Closers : WF_vars(CloseAll(k))

ClientFairness ==
    \A c \in Clients : SF_vars(PublishRLock(c)) /\ WF_vars(ClientStep(c))

Spec == Init /\ [][Next]_vars /\ LockFairness /\ ClientFairness

----------------------------------------------------------------------------
(* Properties.                                                             *)

(* Publish never sends on a closed channel, and no channel is closed       *)
(* twice, however Subscribe, Unsubscribe, Close and the fan-out loops      *)
(* interleave: each of these would panic and take the broker down.         *)
NoPanic == ~panicked

Delivered(s) == got[s] \o buf[s]

(* An event is still on its way to a stream while the Publish call that    *)
(* stamped it has not offered it to the stream's channel yet.              *)
InFlight(n, s) ==
    \E c \in Clients :
        /\ ev[c].seq = n
        /\ cpc[c] = "rlock" \/ (cpc[c] = "send" /\ s \in rest[c])

(* The events that a subscribed stream ought to have but never will.       *)
Lost ==
    {p \in subs \X (1..seq) :
        /\ p[2] > from[p[1]]
        /\ ~InFlight(p[2], p[1])
        /\ \A i \in DOMAIN Delivered(p[1]) : Delivered(p[1])[i].seq # p[2]}

(* Drops() accounts for every loss: an event stamped after a stream        *)
(* subscribed is delivered, is buffered, is on its way, or is counted.     *)
EveryLossCounted == Cardinality(Lost) <= drops

(* The events of one MQTT client reach a stream in the order in which its  *)
(* hooks published them (connect before subscribe before disconnect).      *)
(* Across clients there is no such order: Publish stamps Seq before it     *)
(* takes the read lock, so a later Seq may overtake an earlier one.        *)
ClientOrder ==
    \A s \in Streams : \A i, j \in DOMAIN Delivered(s) :
        /\ i < j
        /\ Delivered(s)[i].client = Delivered(s)[j].client
        => Delivered(s)[i].seq < Delivered(s)[j].seq

(* A hook call returns even when no browser reads: Publish drops rather    *)
(* than blocking the broker's hot path.                                    *)
PublishReturns == \A c \in Clients : cpc[c] # "idle" ~> cpc[c] = "idle"

(* A browser that does read: a response write completes, and the select   *)
(* of the receive loop does not ignore a cancelled context for ever.       *)
Reading(s) == WF_vars(Receive(s)) /\ SF_vars(StreamReturn(s))

(* Every SSE handler ends once its browser has gone or its channel is      *)
(* closed, and it has then left h.subs: no goroutine or channel leaks.     *)
StreamsEnd ==
    \A s \in Streams : Reading(s) =>
        ((ctxDone[s] \/ chan[s] = "closed") ~> (spc[s] = "done" /\ s \notin subs))
============================================================================
