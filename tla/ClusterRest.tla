----------------------------- MODULE ClusterRest ---------------------------
(***************************************************************************)
(* The cluster mirror (cluster/rest) over the per-node REST endpoints      *)
(* (rest): one request fans out to every member, each member answers from  *)
(* its own broker state at a time of its own, and the mirror merges the    *)
(* answers when all of them are in or have failed.                         *)
(*                                                                         *)
(* Meanwhile the brokers go on: clients connect, move to another node,     *)
(* subscribe and leave, retained messages appear.  A peer call may fail,   *)
(* and a DELETE that timed out at the mirror may still be executed.        *)
(*                                                                         *)
(* Client IDs and topic filters are numbers, whose order is the order of   *)
(* the strings; Path[f] is the filter f split at its slashes.              *)
(***************************************************************************)
EXTENDS Integers, FiniteSets, SequencesExt

CONSTANTS
    Nodes,
    Clients, Filters,
    Path,
    Texts,         \* what search texts select: the keys that contain one
    DefaultPageSize, MaxPageSize,  \* 25 and 500 in the code
    IntHalf,       \* ints are -IntHalf .. IntHalf - 1 (2^63 in the code)
    Shared,        \* the "node" of what the shared session store holds
    None,
    MaxChanges     \* bound: changes of the brokers' state

ASSUME ClusterRestAssumption ==
    /\ Clients \cup Filters \subseteq Nat
    /\ IsFiniteSet(Nodes) /\ IsFiniteSet(Clients) /\ IsFiniteSet(Filters)
    /\ DOMAIN Path = Filters /\ \A f \in Filters : Path[f] \in Seq(Range(Path[f]))
    /\ IntHalf \in Nat /\ MaxPageSize \in 1..(IntHalf - 1)
    /\ DefaultPageSize \in 1..MaxPageSize
    /\ \A keys \in {Clients, Filters, Clients \X Filters} :
          Cardinality(keys) + MaxPageSize <= IntHalf
    /\ MaxChanges \in Nat
    /\ Shared \notin Nodes

VARIABLES
    online,    \* server.Clients of each node
    subs,      \* the subscriptions of those clients: <<client, filter>>
    retained,  \* server.Topics.Retained of each node
    stored,    \* the shared session store
    req,       \* the mirror's request
    got,       \* what each peer has answered to it
    answer,    \* what the mirror has answered
    late,      \* timed-out DELETEs of the request a peer may still execute
    acted,     \* history: nodes whose broker this request has acted on
    born, gone,\* history: facts that appeared, vanished since it began
    changes

broker == <<online, subs, retained, stored>>
vars   == <<broker, req, got, answer, late, acted, born, gone, changes>>

Deletes == {"unsubscribe", "clearRetained", "clearSession"}
Lists   == {"clients", "subscriptions", "retained", "sessions"}

(* The requests of the mirror.  ?q=, ?topic= (of retained messages) and    *)
(* ?clientid= select the keys that contain a text; ?online= is "true",     *)
(* "false" or left out.  ?topic= of subscriptions is not modelled.         *)
ListRequests ==
    [op : {"clients", "subscriptions", "retained"}, arg : Texts]
    \cup [op : {"sessions"}, arg : {"", "true", "false"}]
    \cup [op : {"topics"}, arg : {""}]

UnsubscribeClient == [op : {"unsubscribe"}, arg : Clients \X Filters]

ClearRetained == [op : {"clearRetained"}, arg : Filters]

ClearSession == [op : {"clearSession"}, arg : Clients]

DeleteRequests == UnsubscribeClient \cup ClearRetained \cup ClearSession

(* What is true of the brokers, one fact per entry of a table: where it is *)
(* kept, what it is, and its key.                                          *)
Facts(o, s, r, st) ==
    (UNION {   {<<"client", n, <<c>>>> : c \in o[n]}
          \cup {<<"sub", n, x>> : x \in s[n]}
          \cup {<<"retained", n, <<f>>>> : f \in r[n]} : n \in Nodes})
    \cup {<<"stored", Shared, <<c>>>> : c \in st}

Now == Facts(online, subs, retained, stored)

(* Every change of the brokers' state, with the history that the           *)
(* properties need: what came and what went since the request began.  An   *)
(* answer is judged as it is made: until it is out nothing changes.        *)
Change(o, s, r, st) ==
    LET next == Facts(o, s, r, st)
    IN /\ online' = o /\ subs' = s /\ retained' = r /\ stored' = st
       /\ born' = IF req = None THEN {} ELSE born \cup (next \ Now)
       /\ gone' = IF req = None THEN {} ELSE gone \cup (Now \ next)

Waiting == [status |-> "waiting"]
Error   == [status |-> "error"]

Init ==
    /\ online = [n \in Nodes |-> {}]
    /\ subs = [n \in Nodes |-> {}]
    /\ retained = [n \in Nodes |-> {}]
    /\ stored = {}
    /\ req = None
    /\ got = [n \in Nodes |-> Waiting]
    /\ answer = None
    /\ late = {} /\ acted = {} /\ born = {} /\ gone = {}
    /\ changes = 0

-----------------------------------------------------------------------------
(* The brokers, as far as the endpoints see them.                          *)

BrokerChange(o, s, r, st) ==
    /\ changes < MaxChanges /\ answer = None
    /\ changes' = changes + 1
    /\ Change(o, s, r, st)
    /\ UNCHANGED <<req, got, answer, late, acted>>

(* A client connects; a session it left, or still has, on another node     *)
(* comes with it, so for a while two nodes may list the client.            *)
Connect(n, c) ==
    /\ c \notin online[n]
    /\ \E st \in {stored, stored \cup {c}} :
        BrokerChange(
            [online EXCEPT ![n] = @ \cup {c}],
            [subs EXCEPT ![n] =
                @ \cup {x \in UNION {subs[m] : m \in Nodes} : x[1] = c}],
            retained, st)

(* A client leaves the table: its connection has ended and its session is  *)
(* a clean one, or its session has expired since.                          *)
Disconnect(n, c) ==
    /\ c \in online[n]
    /\ BrokerChange([online EXCEPT ![n] = @ \ {c}],
                    [subs EXCEPT ![n] = {x \in @ : x[1] # c}], retained, stored)

Subscribe(n, c, f) ==
    /\ c \in online[n] /\ <<c, f>> \notin subs[n]
    /\ BrokerChange(online, [subs EXCEPT ![n] = @ \cup {<<c, f>>}], retained,
                    stored)

Retain(n, f) ==
    /\ f \notin retained[n]
    /\ BrokerChange(online, subs, [retained EXCEPT ![n] = @ \cup {f}], stored)

ExpireSession(c) ==
    /\ c \in stored
    /\ BrokerChange(online, subs, retained, stored \ {c})

-----------------------------------------------------------------------------
(* Pagination (rest/pagination.go), with the width of Go's int.            *)

Wrap(i) == ((i + IntHalf) % (2 * IntHalf)) - IntHalf

(* A parameter that is missing or no number is 0 here.                     *)
ParsePage(page, size) ==
    [page |-> IF page < 1 THEN 1 ELSE page,
     size |-> IF size < 1 THEN DefaultPageSize
              ELSE IF size > MaxPageSize THEN MaxPageSize ELSE size]

ApplyPaginationFullPages(items, p) ==
    LET start == Wrap((p.page - 1) * p.size)
        end   == Wrap(start + p.size)
    IN IF start >= Len(items) \/ (start > 0 /\ end > Len(items)) THEN <<>>
       ELSE SubSeq(items, start + 1, IF end > Len(items) THEN Len(items) ELSE end)

(* items[start:end]; None is the panic of indices out of range.            *)
ApplyPagination(items, p) ==
    LET start == Wrap((p.page - 1) * p.size)
        end   == Wrap(start + p.size)
        last  == IF end > Len(items) THEN Len(items) ELSE end
    IN IF start >= Len(items) THEN <<>>
       ELSE IF start < 0 \/ last < start THEN None
       ELSE SubSeq(items, start + 1, last)

KeyLess(a, b) ==
    \/ a.key[1] < b.key[1]
    \/ a.key[1] = b.key[1] /\ Len(a.key) = 2 /\ a.key[2] < b.key[2]

(* sort.Slice: each row stands behind those with smaller keys.             *)
Sorted(rows) ==
    [i \in 1..Cardinality(rows) |->
        CHOOSE row \in rows : Cardinality({r \in rows : KeyLess(r, row)}) = i - 1]

-----------------------------------------------------------------------------
(* The endpoints of one node (rest).                                       *)

Rows(keys, isOnline) == {[key |-> k, online |-> isOnline] : k \in keys}

LocalClients(n, q) == Rows({<<c>> : c \in online[n] \cap q}, TRUE)

LocalSubscriptions(n, q) == Rows({x \in subs[n] : x[1] \in q}, TRUE)

LocalRetained(n, q) == Rows({<<f>> : f \in retained[n] \cap q}, TRUE)

(* seen is what listSessions read from the client table before it turned   *)
(* to the session store, readable whether the store answered it.           *)
LocalSessions(seen, filter, readable) ==
    Rows({<<c>> : c \in IF filter = "false" THEN {} ELSE seen}, TRUE)
    \cup Rows({<<c>> : c \in IF filter # "true" /\ readable THEN stored \ seen
                             ELSE {}}, FALSE)

(* The peer sorts, and the mirror asks it for page 1 of the maximum size.  *)
ListAnswer(rows, readable) ==
    [status |-> "ok",
     items |-> ApplyPagination(Sorted(rows), ParsePage(1, MaxPageSize)),
     whole |-> readable /\ Cardinality(rows) <= MaxPageSize]

(* topicsTree of a node: the trie as a function from its paths to their    *)
(* subscriber counts; the root is <<>>.                                    *)
LocalTree(n) ==
    [p \in {<<>>} \cup UNION {{SubSeq(Path[x[2]], 1, i) : i \in 1..Len(Path[x[2]])} : x \in subs[n]}
        |-> Cardinality({x \in subs[n] : Path[x[2]] = p})]

(* What a DELETE looks for on node n.                                      *)
Finds(n, op, arg) ==
    CASE op = "unsubscribe"   -> arg[1] \in online[n] /\ arg \in subs[n]
      [] op = "clearRetained" -> arg \in retained[n]
      [] op = "clearSession"  -> arg \in online[n]

(* Topics.Unsubscribe and Subscriptions.Delete.                            *)
Unsubscribe(n, x) ==
    Change(online, [subs EXCEPT ![n] = @ \ {x}], retained, stored)

(* Retained.Delete.                                                        *)
DeleteRetained(n, f) ==
    Change(online, subs, [retained EXCEPT ![n] = @ \ {f}], stored)

(* DisconnectClient stops the connection, and that is all: the tables stay *)
(* as they are until the connection's own goroutine has ended (Disconnect),*)
(* for a persistent session until it expires.                              *)
DisconnectClient == UNCHANGED <<broker, born, gone>>

Executes(n, op, arg) ==
    \/ op = "unsubscribe" /\ Unsubscribe(n, arg)
    \/ op = "clearRetained" /\ DeleteRetained(n, arg)
    \/ op = "clearSession" /\ DisconnectClient

Replies(n, reply) ==
    /\ got' = [got EXCEPT ![n] = reply]
    /\ UNCHANGED <<req, answer, late, changes>>

Asked(n, ops) == answer = None /\ req # None /\ got[n] = Waiting /\ req.op \in ops

PeerList(n) ==
    /\ Asked(n, Lists \ {"sessions"})
    /\ Replies(n, ListAnswer(
            CASE req.op = "clients"       -> LocalClients(n, req.arg)
              [] req.op = "subscriptions" -> LocalSubscriptions(n, req.arg)
              [] req.op = "retained"      -> LocalRetained(n, req.arg), TRUE))
    /\ UNCHANGED <<broker, acted, born, gone>>

PeerTree(n) ==
    /\ Asked(n, {"topics"})
    /\ Replies(n, [status |-> "ok", tree |-> LocalTree(n)])
    /\ UNCHANGED <<broker, acted, born, gone>>

PeerDelete(n) ==
    /\ Asked(n, {"unsubscribe", "clearRetained"})
    /\ \/ /\ Finds(n, req.op, req.arg)
          /\ Executes(n, req.op, req.arg)
          /\ acted' = acted \cup {n}
          /\ Replies(n, [status |-> "204"])
       \/ /\ ~Finds(n, req.op, req.arg)
          /\ Replies(n, [status |-> "404"])
          /\ UNCHANGED <<broker, acted, born, gone>>

(* listSessions and clearSession read the client table first ...           *)
PeerReadsClients(n) ==
    /\ Asked(n, {"sessions", "clearSession"})
    /\ Replies(n, [status |-> "reading", seen |-> online[n]])
    /\ UNCHANGED <<broker, acted, born, gone>>

Reading(n, op) == req # None /\ req.op = op /\ got[n].status = "reading"

(* ... and the session store after it; an error of the store leaves out    *)
(* the stored sessions.                                                    *)
PeerSessions(n) ==
    /\ Reading(n, "sessions")
    /\ \E readable \in BOOLEAN :
        Replies(n, ListAnswer(LocalSessions(got[n].seen, req.arg, readable),
                              readable))
    /\ UNCHANGED <<broker, acted, born, gone>>

(* The client that was online is disconnected, its session left to the     *)
(* broker; one that is only stored is reported as cleared and left alone.  *)
PeerClearSession(n) ==
    /\ Reading(n, "clearSession")
    /\ \/ /\ req.arg \in got[n].seen
          /\ DisconnectClient
          /\ acted' = acted \cup {n}
          /\ Replies(n, [status |-> "204"])
       \/ /\ req.arg \notin got[n].seen
          /\ \E status \in {"404"} \cup (IF req.arg \in stored THEN {"204"} ELSE {}) :
                Replies(n, [status |-> status])
          /\ UNCHANGED <<broker, acted, born, gone>>

-----------------------------------------------------------------------------
(* The mirror (cluster/rest).                                              *)

(* GetMemberList, peerURLs and the goroutines of fetchM.                   *)
Start(r) ==
    /\ req = None
    /\ req' = r
    /\ UNCHANGED <<broker, got, answer, late, acted, born, gone, changes>>

(* fetch gives up: no connection, no 2xx or 404, a broken body, or the     *)
(* three seconds are over.  In the last case the peer may yet execute it.  *)
FetchFails(n) ==
    /\ answer = None /\ req # None /\ got[n].status \in {"waiting", "reading"}
    /\ got' = [got EXCEPT ![n] = Error]
    /\ \/ late' = late
       \/ /\ req.op \in Deletes
          /\ late' = late \cup {n}
    /\ UNCHANGED <<broker, req, answer, acted, born, gone, changes>>

(* A peer executes a DELETE nobody waits for any more.                     *)
LateDelete(n) ==
    /\ n \in late /\ answer = None
    /\ late' = late \ {n}
    /\ acted' = IF Finds(n, req.op, req.arg) THEN acted \cup {n} ELSE acted
    /\ Executes(n, req.op, req.arg)
    /\ UNCHANGED <<req, got, answer, changes>>

(* Somebody else's DELETE: of another mirror, sent to the node itself, or  *)
(* one that timed out in an earlier request.  A clearSession of theirs     *)
(* shows in the tables only when the client leaves them (Disconnect).      *)
OtherDelete(n) ==
    \E d \in UnsubscribeClient \cup ClearRetained :
        /\ Finds(n, d.op, d.arg)
        /\ changes < MaxChanges /\ answer = None
        /\ changes' = changes + 1
        /\ Executes(n, d.op, d.arg)
        /\ UNCHANGED <<req, got, answer, late, acted>>

Answered == {n \in Nodes : got[n].status = "ok"}

(* The answers count in the order of the members, which is GetMemberList's.*)
Items(n) == {got[n].items[i] : i \in DOMAIN got[n].items}

Keys == {row.key : row \in UNION {Items(n) : n \in Answered}}

First(order, nodes) == SelectInSeq(order, LAMBDA n : n \in nodes)

Reports(k) == {n \in Answered : \E row \in Items(n) : row.key = k}

ReportsOnline(k) == {n \in Answered : \E row \in Items(n) : row.key = k /\ row.online}

RowOfCompacted(order, k, nodes) ==
    [key |-> k,
     node |-> LET results == SelectSeq(order, LAMBDA n : n \in Answered)
              IN order[SelectInSeq(results, LAMBDA n : n \in nodes)],
     online |-> \E row \in Items(order[First(order, nodes)]) : row.key = k /\ row.online]

(* The row that is kept for key k: of the first of these nodes.            *)
RowOf(order, k, nodes) ==
    LET n == order[First(order, nodes)]
    IN [key |-> k, node |-> n,
        online |-> \E row \in Items(n) : row.key = k /\ row.online]

MergeFirstUntilDuplicate(order) ==
    {RowOf(order, k, Reports(k)) : k \in {k \in Keys :
        ~\E row \in Items(order[First(order, Reports(k))]) :
            /\ KeyLess(row, [key |-> k])
            /\ First(order, Reports(row.key)) # First(order, Reports(k))}}

(* Clients, subscriptions, retained: the first answer with a key wins.     *)
MergeFirst(order) == {RowOf(order, k, Reports(k)) : k \in Keys}

MergeSessionsFirst(order) == MergeFirst(order)

(* Sessions: the first answer wins, and an online one before it.           *)
MergeSessions(order) ==
    {RowOf(order, k, IF ReportsOnline(k) # {} THEN ReportsOnline(k) ELSE Reports(k)) :
        k \in Keys}

(* listClients and listRetained filter the merged rows once more.          *)
ListClients(order) == {row \in MergeFirst(order) : row.key[1] \in req.arg}

ListSubscriptions(order) == MergeFirst(order)

ListRetained(order) == {row \in MergeFirst(order) : row.key[1] \in req.arg}

ListSessions(order) == MergeSessions(order)

MirrorList(order) ==
    [kind |-> "list",
     items |-> Sorted(CASE req.op = "clients"       -> ListClients(order)
                        [] req.op = "subscriptions" -> ListSubscriptions(order)
                        [] req.op = "retained"      -> ListRetained(order)
                        [] req.op = "sessions"      -> ListSessions(order))]

Count(tree, p) == IF p \in DOMAIN tree THEN tree[p] ELSE 0

MergeTopicReplacing(dst, src) ==
    [p \in DOMAIN dst \cup DOMAIN src |->
        IF p \in DOMAIN src THEN src[p] ELSE dst[p]]

MergeTopic(dst, src) ==
    [p \in DOMAIN dst \cup DOMAIN src |-> Count(dst, p) + Count(src, p)]

(* topicsTree merges the answers into an empty trie, one after the other,  *)
(* and passes over the peers that have none.                               *)
MirrorTree(order) ==
    LET merged[i \in 0..Len(order)] ==
            IF i = 0 THEN [p \in {<<>>} |-> 0]
            ELSE IF order[i] \in Answered
                 THEN MergeTopic(merged[i - 1], got[order[i]].tree)
                 ELSE merged[i - 1]
    IN [kind |-> "tree", tree |-> merged[Len(order)]]

BroadcastDeleteIgnoringErrors ==
    LET any(status) == \E n \in Nodes : got[n].status = status
    IN [kind |-> "code",
        code |-> IF any("204") THEN 204 ELSE IF any("404") THEN 404 ELSE 502]

BroadcastDelete ==
    LET any(status) == \E n \in Nodes : got[n].status = status
    IN [kind |-> "code",
        code |-> IF any("204") THEN 204
                 ELSE IF any("404") /\ ~any("error") THEN 404 ELSE 502]

RespondOnFirst204 ==
    /\ req # None /\ answer = None
    /\ \/ \A n \in Nodes : got[n].status \notin {"waiting", "reading"}
       \/ \E n \in Nodes : got[n].status = "204"
    /\ \E order \in SetToSeqs(Nodes) :
        answer' = CASE req.op \in Lists   -> MirrorList(order)
                    [] req.op = "topics"  -> MirrorTree(order)
                    [] req.op \in Deletes -> BroadcastDelete
    /\ UNCHANGED <<broker, req, got, late, acted, born, gone, changes>>

Respond ==
    /\ req # None /\ answer = None
    /\ \A n \in Nodes : got[n].status \notin {"waiting", "reading"}
    /\ \E order \in SetToSeqs(Nodes) :
        answer' = CASE req.op \in Lists   -> MirrorList(order)
                    [] req.op = "topics"  -> MirrorTree(order)
                    [] req.op \in Deletes -> BroadcastDelete
    /\ UNCHANGED <<broker, req, got, late, acted, born, gone, changes>>

(* The handler returns.  A call that a peer has not executed yet is now    *)
(* one more OtherDelete.                                                   *)
Return ==
    /\ answer # None
    /\ req' = None /\ answer' = None
    /\ got' = [n \in Nodes |-> Waiting]
    /\ late' = {} /\ acted' = {} /\ born' = {} /\ gone' = {}
    /\ UNCHANGED <<broker, changes>>

Listed == {answer.items[i] : i \in DOMAIN answer.items}

(* paginate: one page of the merged list for the caller's parameters.      *)
Paginate(page, size) == ApplyPagination(answer.items, ParsePage(page, size))

-----------------------------------------------------------------------------
BrokerStep ==
    \/ \E n \in Nodes, c \in Clients :
        Connect(n, c) \/ Disconnect(n, c) \/ \E f \in Filters : Subscribe(n, c, f)
    \/ \E n \in Nodes, f \in Filters : Retain(n, f)
    \/ \E c \in Clients : ExpireSession(c)

PeerStep(n) ==
    \/ PeerList(n) \/ PeerTree(n) \/ PeerDelete(n)
    \/ PeerReadsClients(n) \/ PeerSessions(n) \/ PeerClearSession(n)
    \/ LateDelete(n) \/ OtherDelete(n)

Next ==
    \/ BrokerStep
    \/ \E r \in ListRequests \cup DeleteRequests : Start(r)
    \/ \E n \in Nodes : PeerStep(n) \/ FetchFails(n)
    \/ Respond
    \/ Return

Spec == Init /\ [][Next]_vars

-----------------------------------------------------------------------------
(* Type invariant of the brokers' tables, the peers' answers and the       *)
(* mirror's; in it, no peer panics while it slices its page, and nobody is *)
(* subscribed on a node that he is not connected to.                       *)
TypeOK ==
    /\ online \in [Nodes -> SUBSET Clients]
    /\ \A n \in Nodes : subs[n] \subseteq online[n] \X Filters
    /\ retained \in [Nodes -> SUBSET Filters]
    /\ stored \subseteq Clients
    /\ req \in ListRequests \cup DeleteRequests \cup {None}
    /\ \A n \in Nodes :
        got[n].status \in {"waiting", "reading", "ok", "204", "404", "error"}
    /\ \A n \in Answered : req.op \in Lists =>
        got[n].items \in Seq(Items(n)) /\ Len(got[n].items) <= MaxPageSize
    /\ answer # None =>
        /\ req # None /\ answer.kind \in {"list", "tree", "code"}
        /\ answer.kind = "list" => answer.items \in Seq(Listed)
        /\ answer.kind = "code" => answer.code \in {204, 404, 502}
    /\ late \cup acted \subseteq Nodes
    /\ changes \in 0..MaxChanges

(* What held during the whole of the current request, and what held at     *)
(* some moment of it.                                                      *)
Always == Now \ born
Ever   == Now \cup gone

IsList == answer # None /\ answer.kind = "list"

FactOf(row) ==
    CASE req.op = "clients"       -> <<"client", row.node, row.key>>
      [] req.op = "subscriptions" -> <<"sub", row.node, row.key>>
      [] req.op = "retained"      -> <<"retained", row.node, row.key>>
      [] req.op = "sessions"      -> IF row.online
                                     THEN <<"client", row.node, row.key>>
                                     ELSE <<"stored", Shared, row.key>>

(* A merged list shows nothing that was not there: each row was true of    *)
(* the node it names ("which cluster member each client lives on") at some *)
(* moment of the request, although peers fail and clients move meanwhile.  *)
ListedWhereSeen == IsList => \A row \in Listed : FactOf(row) \in Ever

(* The facts the request asks node n for.  A node leaves out of its list   *)
(* of offline sessions the clients that it has itself.                     *)
Asks(n, fact) ==
    \/ /\ <<req.op, fact[1]>> \in {<<"clients", "client">>, <<"subscriptions", "sub">>,
                                 <<"retained", "retained">>}
       /\ fact[2] = n /\ fact[3][1] \in req.arg
    \/ /\ req.op = "sessions" /\ fact[1] = "stored"
       /\ \/ req.arg = ""
          \/ req.arg = "false" /\ <<"client", n, fact[3]>> \notin Ever

(* A merged list misses nothing: what was true of an answering peer during *)
(* the whole request, and matches it, is listed, unless the peer itself    *)
(* had more rows than one page or could not read its store.                *)
NothingMissed ==
    IsList => \A n \in {m \in Answered : got[m].whole} : \A fact \in Always :
        Asks(n, fact) => \E row \in Listed : row.key = fact[3]

(* "Online wins because that's the live state": listSessions reports a     *)
(* client as online when a peer that answered in full had it connected all *)
(* the time, whatever the other peers read from the session store.         *)
OnlineWins ==
    IsList /\ req.op = "sessions" /\ req.arg # "false" =>
        \A n \in {m \in Answered : got[m].whole}, c \in Clients :
            <<"client", n, <<c>>>> \in Always =>
                \E row \in Listed : row.key = <<c>> /\ row.online

(* The pages of a merged list partition it: each row is on exactly one     *)
(* page, and no page number panics as long as page * size is an int.       *)
PagesPartition ==
    IsList => \A size \in 1..MaxPageSize :
        LET pages == (Len(answer.items) + size - 1) \div size
        IN /\ \A i \in 1..((IntHalf - 1) \div size) :
                /\ Paginate(i, size) \in Seq(Listed)
                /\ i > pages => Paginate(i, size) = <<>>
           /\ FlattenSeq([i \in 1..pages |-> Paginate(i, size)]) = answer.items

SubFacts(facts, p) ==
    {fact \in facts : fact[1] = "sub" /\ fact[2] \in Answered /\ Path[fact[3][2]] = p}

(* "Subscriber counts are summed": the merged tree counts at each path the *)
(* subscriptions that the answering nodes had, none twice and none left    *)
(* out, up to those that came or went during the request.                  *)
TreeAddsUp ==
    answer # None /\ answer.kind = "tree" =>
        \A p \in DOMAIN answer.tree \cup {Path[f] : f \in Filters} :
            /\ Cardinality(SubFacts(Always, p)) <= Count(answer.tree, p)
            /\ Count(answer.tree, p) <= Cardinality(SubFacts(Ever, p))

IsCode == answer # None /\ answer.kind = "code"

TargetOn(n) ==
    CASE req.op = "unsubscribe"   -> <<"sub", n, req.arg>>
      [] req.op = "clearRetained" -> <<"retained", n, <<req.arg>>>>
      [] req.op = "clearSession"  -> <<"client", n, <<req.arg>>>>

(* A DELETE no peer failed on has reached its target wherever it was, and  *)
(* whether it answers 204 or 404: "a broadcast is functionally equivalent  *)
(* to a targeted dispatch".  No node still has the subscription or the     *)
(* retained message, unless it came meanwhile; a node that has the client  *)
(* all along has disconnected it.                                          *)
DeletedEverywhere ==
    IsCode /\ (\A n \in Nodes : got[n].status # "error") =>
        \A n \in Nodes :
            \/ TargetOn(n) \notin Always
            \/ req.op = "clearSession" /\ n \in acted

(* 404 means that the request has changed nothing: also not on a peer      *)
(* whose answer was lost or came too late.                                 *)
NotFoundMeansUntouched == IsCode /\ answer.code = 404 => acted = {}
============================================================================
