----------------------------- MODULE BrokerPages ----------------------------
(***************************************************************************)
(* The pages that act on the live broker: unsubscribing a client           *)
(* (dashboard/handlers/client_detail.go), ending a session (sessions.go),  *)
(* clearing a retained message (retained.go) and publishing one (tools.go),*)
(* together with the blacklist, against clients that connect, subscribe    *)
(* and come back.                                                          *)
(*                                                                         *)
(* A subscription is kept twice: in the topic trie and in a map of the     *)
(* client object.  Every session has a client object of its own; a new one *)
(* starts with the subscriptions of the one before (a session that is not  *)
(* clean), and a handler may still hold the old object.                    *)
(***************************************************************************)
EXTENDS Blacklist

CONSTANTS
    Topics,
    Malformed,
    Unescape   \* url.PathUnescape on topics: a topic, or Malformed

VARIABLES
    trie,      \* Server.Topics: pairs of an id and a topic
    maps,      \* cl.State.Subscriptions of every session of every id
    topic,     \* the topic each process works on
    clicked,   \* the topic of the row whose button was pressed
    retained,  \* Server.Topics.Retained
    mixed      \* history: subscriptions two actors changed at the same time

pageVars == <<trie, maps, topic, clicked, retained, mixed>>

PagesInit ==
    /\ trie = {}
    /\ maps = [i \in Ids |-> <<>>]
    /\ topic = [p \in Procs |-> Malformed]
    /\ clicked = [p \in Procs |-> Malformed]
    /\ retained = {}
    /\ mixed = {}

Unsubscribing(p) == at[p] \in {"trieDel", "mapDel"}
Subscribing(p)   == at[p] \in {"trieAdd", "mapAdd"}
SomeOn(P(_), i)  == \E q \in Procs : P(q) /\ id[q] = i

----------------------------------------------------------------------------
Begin(p, l, i, t) ==
    /\ at[p] = "idle"
    /\ Go(p, l)
    /\ id' = [id EXCEPT ![p] = i]
    /\ topic' = [topic EXCEPT ![p] = t]
    /\ UNCHANGED <<slice, hdr, pos, fill, raced, history>>

Finish(p) ==
    /\ End(p)
    /\ topic' = [topic EXCEPT ![p] = Malformed]
    /\ clicked' = [clicked EXCEPT ![p] = Malformed]
    /\ UNCHANGED <<slice, raced, history>>

(* The route has decoded the path segment into the topic of the row, and   *)
(* the handler decodes it once more.                                       *)
PathTopic(t) == Unescape[t]

(* ClientUnsubscribe: the client object and its subscription are looked up *)
(* (404 without them), then two removals.                                  *)
ClientUnsubscribe(p, i, t) ==
    LET d == PathTopic(t) IN
    /\ d # Malformed
    /\ online[i] # 0
    /\ d \in maps[i][online[i]]
    /\ Begin(p, "trieDel", i, d)
    /\ cl' = [cl EXCEPT ![p] = online[i]]
    /\ clicked' = [clicked EXCEPT ![p] = t]
    /\ mixed' = mixed \cup {x \in {<<i, d>>} :
                     \E q \in Procs : Subscribing(q) /\ <<id[q], topic[q]>> = x}
    /\ UNCHANGED <<broker, trie, maps, retained>>

TopicsUnsubscribe(p) ==
    /\ at[p] = "trieDel"
    /\ trie' = trie \ {<<id[p], topic[p]>>}
    /\ Go(p, "mapDel")
    /\ UNCHANGED <<slice, broker, id, hdr, pos, fill, cl, raced, history,
                   maps, topic, clicked, retained, mixed>>

SubscriptionsDeleteAll(p) ==
    /\ at[p] = "mapDel"
    /\ maps' = [maps EXCEPT ![id[p]][cl[p]] = {}]
    /\ Finish(p)
    /\ UNCHANGED <<broker, trie, retained, mixed>>

SubscriptionsDelete(p) ==
    /\ at[p] = "mapDel"
    /\ maps' = [maps EXCEPT ![id[p]][cl[p]] = @ \ {topic[p]}]
    /\ Finish(p)
    /\ UNCHANGED <<broker, trie, retained, mixed>>

(* SessionsClear: Clients.Get (404 without a client), DisconnectClient.    *)
SessionsClear(p, i) ==
    /\ online[i] # 0
    /\ Begin(p, "kick", i, Malformed)
    /\ cl' = [cl EXCEPT ![p] = online[i]]
    /\ UNCHANGED <<broker, trie, maps, clicked, retained, mixed>>

Kick(p) ==
    /\ at[p] = "kick"
    /\ DisconnectClient(p)
    /\ Finish(p)
    /\ UNCHANGED <<gens, trie, maps, retained, mixed>>

(* RetainedClear: Retained.Get (404 without a message), Retained.Delete.   *)
RetainedClear(p, t) ==
    LET d == PathTopic(t) IN
    /\ d # Malformed
    /\ d \in retained
    /\ Begin(p, "retainedDel", NoId, d)
    /\ clicked' = [clicked EXCEPT ![p] = t]
    /\ UNCHANGED <<broker, cl, trie, maps, retained, mixed>>

RetainedDelete(p) ==
    /\ at[p] = "retainedDel"
    /\ retained' = retained \ {topic[p]}
    /\ Finish(p)
    /\ UNCHANGED <<broker, trie, maps, mixed>>

(* ToolsPublish with Retain: an empty payload clears, any other one is     *)
(* kept.  The topic comes from the form body, which is decoded once.       *)
ToolsPublish(t, empty) ==
    /\ retained' = IF empty THEN retained \ {t} ELSE retained \cup {t}
    /\ UNCHANGED <<blVars, trie, maps, topic, clicked, mixed>>

----------------------------------------------------------------------------
(* What clients do.  A client works through its packets one at a time.     *)

ClientSubscribe(p, i, t) ==
    /\ online[i] # 0
    /\ ~SomeOn(Subscribing, i)
    /\ Begin(p, "trieAdd", i, t)
    /\ cl' = [cl EXCEPT ![p] = online[i]]
    /\ mixed' = mixed \cup {x \in {<<i, t>>} :
                     \E q \in Procs : Unsubscribing(q) /\ <<id[q], topic[q]>> = x}
    /\ UNCHANGED <<broker, trie, maps, clicked, retained>>

TopicsSubscribe(p) ==
    /\ at[p] = "trieAdd"
    /\ trie' = trie \cup {<<id[p], topic[p]>>}
    /\ Go(p, "mapAdd")
    /\ UNCHANGED <<slice, broker, id, hdr, pos, fill, cl, raced, history,
                   maps, topic, clicked, retained, mixed>>

SubscriptionsAdd(p) ==
    /\ at[p] = "mapAdd"
    /\ maps' = [maps EXCEPT ![id[p]][cl[p]] = @ \cup {topic[p]}]
    /\ Finish(p)
    /\ UNCHANGED <<broker, trie, retained, mixed>>

(* A new session inherits the subscriptions of the last one.               *)
NewSession(p) ==
    LET i == id[p] IN
    /\ Admit(p)
    /\ ~SomeOn(Subscribing, i)
    /\ maps' = [maps EXCEPT ![i] =
                  Append(@, IF @ = <<>> THEN {} ELSE Last(@))]
    /\ mixed' = mixed \cup {<<i, topic[q]>> : q \in {r \in Procs :
                                        Unsubscribing(r) /\ id[r] = i}}
    /\ UNCHANGED <<trie, topic, clicked, retained>>

PageStep(p) ==
    \/ BlEdit(p) /\ UNCHANGED pageVars
    \/ NewSession(p)
    \/ TopicsUnsubscribe(p) \/ SubscriptionsDelete(p)
    \/ Kick(p) \/ RetainedDelete(p)
    \/ TopicsSubscribe(p) \/ SubscriptionsAdd(p)

----------------------------------------------------------------------------
(* Properties.                                                             *)

(* "Removes the subscription from both the broker's topic trie and the     *)
(* per-client map": while no request for the client is under way, its      *)
(* messages are routed by exactly the subscriptions that its page shows.   *)
(* The exceptions are the subscriptions that an admin removed while the    *)
(* client itself subscribed to the same topic or came back as a new client *)
(* object: there the two records may differ for good.                      *)
TrieMatchesMaps ==
    \A i \in Ids :
        online[i] # 0 /\ ~SomeOn(Unsubscribing, i) /\ ~SomeOn(Subscribing, i) =>
            \A t \in Topics : <<i, t>> \notin mixed =>
                (<<i, t>> \in trie <=> t \in maps[i][online[i]])

(* "matches the REST handler in mqtt/rest/client_unsubscribe.go": the      *)
(* button of a row removes the subscription of that row.                   *)
RowUnsubscribed ==
    \A p \in Procs : Unsubscribing(p) => topic[p] = clicked[p]
============================================================================
